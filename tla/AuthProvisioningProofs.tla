----------------------- MODULE AuthProvisioningProofs -----------------------
(***************************************************************************)
(* Proofs about AuthProvisioning, for any configured chains, any mandatory *)
(* components and any number of logins.                                    *)
(***************************************************************************)
EXTENDS AuthProvisioning, SequenceTheorems, WellFoundedInduction, TLAPS

(***************************************************************************)
(* What Selected returns.  Its recursive function exists and is unique, by *)
(* the least number for which it would not be.                             *)
(***************************************************************************)
LEMMA Least ==
    ASSUME NEW S \in SUBSET Nat, S # {}
    PROVE  \E x \in S : \A y \in S : x <= y
<1>1. PICK x \in S : \A y \in S : <<y, x>> \notin OpToRel(<, Nat)
  BY NatLessThanWellFounded, WFMin
<1>2. \A y \in S : ~(y < x)
  BY <1>1 DEF OpToRel
<1>3. QED
  BY <1>2

\* f has what the first n members of s leave, for each of 0..n.
IsPass(f, s, R, n) ==
    f = [i \in 0..n |-> IF i = 0 THEN <<>>
                        ELSE IF s[i] \in R THEN Append(f[i - 1], s[i]) ELSE f[i - 1]]

LEMMA PassStep ==
    ASSUME NEW f, NEW s, NEW R, NEW n \in Nat, IsPass(f, s, R, n)
    PROVE  /\ f[0] = <<>>
           /\ \A i \in 1..n : f[i] = IF s[i] \in R THEN Append(f[i - 1], s[i])
                                     ELSE f[i - 1]
<1>1. 0 \in 0..n /\ \A i \in 1..n : i \in 0..n /\ i # 0
  OBVIOUS
<1>2. QED
  BY <1>1 DEF IsPass

LEMMA PassExists ==
    ASSUME NEW s, NEW R, NEW n \in Nat
    PROVE  \E f : IsPass(f, s, R, n)
<1> DEFINE Bad == {k \in Nat : ~ \E f : IsPass(f, s, R, k)}
<1>1. ASSUME Bad # {} PROVE FALSE
  <2>1. PICK k \in Bad : \A j \in Bad : k <= j
    BY <1>1, Least
  <2>2. k \in Nat /\ ~ \E f : IsPass(f, s, R, k)
    OBVIOUS
  <2>3. CASE k = 0
    <3>1. IsPass([i \in 0..0 |-> <<>>], s, R, 0)
      BY DEF IsPass
    <3>2. QED
      BY <2>2, <2>3, <3>1
  <2>4. CASE k # 0
    <3>1. k - 1 \in Nat /\ ~(k <= k - 1)
      BY <2>2, <2>4
    <3>2. PICK f : IsPass(f, s, R, k - 1)
      BY <2>1, <3>1
    <3> DEFINE g == [i \in 0..k |-> IF i < k THEN f[i]
                                    ELSE IF s[k] \in R THEN Append(f[k - 1], s[k])
                                    ELSE f[k - 1]]
    <3>3. ASSUME NEW i \in 0..k
          PROVE  g[i] = IF i = 0 THEN <<>>
                        ELSE IF s[i] \in R THEN Append(g[i - 1], s[i]) ELSE g[i - 1]
      <4>1. CASE i = 0
        BY <4>1, <3>1, <3>2, <2>4, PassStep
      <4>2. CASE i # 0 /\ i < k
        <5>1. i \in 1..(k - 1) /\ i - 1 \in 0..k /\ i - 1 < k
          BY <4>2, <3>1
        <5>2. QED
          BY <5>1, <4>2, <3>1, <3>2, PassStep
      <4>3. CASE i = k
        BY <4>3, <2>4, <3>1
      <4>4. QED
        BY <4>1, <4>2, <4>3, <2>2
    <3>4. IsPass(g, s, R, k)
      <4>1. g = [i \in 0..k |-> g[i]]
        OBVIOUS
      <4> HIDE DEF g
      <4>2. QED
        BY <4>1, <3>3 DEF IsPass
    <3>5. QED
      BY <3>4, <2>2
  <2>5. QED
    BY <2>3, <2>4
<1>2. QED
  BY <1>1

LEMMA PassUnique ==
    ASSUME NEW s, NEW t, NEW R, NEW m \in Nat, NEW n \in Nat, NEW f, NEW g,
           IsPass(f, s, R, m), IsPass(g, t, R, n),
           NEW k \in Nat, k <= m, k <= n, \A i \in 1..k : s[i] = t[i]
    PROVE  f[k] = g[k]
<1> DEFINE Bad == {i \in Nat : i <= k /\ f[i] # g[i]}
<1>1. ASSUME Bad # {} PROVE FALSE
  <2>1. PICK i \in Bad : \A j \in Bad : i <= j
    BY <1>1, Least
  <2>2. i \in Nat /\ i <= k /\ f[i] # g[i]
    OBVIOUS
  <2>3. i # 0
    BY <2>2, PassStep
  <2>4. i - 1 \in Nat /\ i - 1 <= k /\ ~(i <= i - 1) /\ i \in 1..m /\ i \in 1..n /\ i \in 1..k
    BY <2>2, <2>3
  <2>5. f[i - 1] = g[i - 1]
    BY <2>1, <2>4
  <2>6. f[i] = g[i]
    BY <2>4, <2>5, PassStep
  <2>7. QED
    BY <2>2, <2>6
<1>2. QED
  BY <1>1

LEMMA SelectedIsPass ==
    ASSUME NEW s, NEW R, Len(s) \in Nat
    PROVE  \E f : IsPass(f, s, R, Len(s)) /\ Selected(s, R) = f[Len(s)]
<1> DEFINE f == CHOOSE f : IsPass(f, s, R, Len(s))
<1>1. IsPass(f, s, R, Len(s))
  BY PassExists
<1>2. Selected(s, R) = f[Len(s)]
  BY DEF Selected, IsPass
<1>3. QED
  BY <1>1, <1>2

(***************************************************************************)
(* Selected, one member after the other: of nothing it is nothing, one     *)
(* that is kept comes last, and what the first members left stays.         *)
(***************************************************************************)
Before(s, i) == SubSeq(s, 1, i)

LEMMA BeforeIs ==
    ASSUME NEW S, NEW s \in Seq(S), NEW i \in 0..Len(s)
    PROVE  /\ Before(s, i) \in Seq(S) /\ Len(Before(s, i)) = i
           /\ \A k \in 1..i : Before(s, i)[k] = s[k] /\ s[k] \in S
           /\ Before(s, Len(s)) = s
<1>1. Len(s) \in Nat /\ i \in Int /\ \A k \in 1..i : k \in 1..Len(s)
  OBVIOUS
<1>2. \A k \in 1..i : s[k] \in S
  BY <1>1, ElementOfSeq
<1>3. /\ Before(s, i) \in Seq(S) /\ Len(Before(s, i)) = IF 1 <= i THEN i - 1 + 1 ELSE 0
      /\ \A k \in 1..(i - 1 + 1) : Before(s, i)[k] = s[1 + k - 1]
  BY <1>1, <1>2, SubSeqProperties DEF Before
<1>4. Before(s, Len(s)) = s
  BY SubSeqFull DEF Before
<1>5. i - 1 + 1 = i /\ (~(1 <= i) => i = 0) /\ \A k \in 1..i : 1 + k - 1 = k
  BY <1>1
<1>6. QED
  BY <1>2, <1>3, <1>4, <1>5

LEMMA SelectedOfPass ==
    ASSUME NEW S, NEW s \in Seq(S), NEW R, NEW n \in 0..Len(s),
           NEW f, IsPass(f, s, R, Len(s))
    PROVE  Selected(Before(s, n), R) = f[n]
<1>1. Len(Before(s, n)) = n /\ n \in Nat /\ Len(s) \in Nat /\ n <= Len(s)
      /\ \A k \in 1..n : Before(s, n)[k] = s[k]
  BY BeforeIs
<1>2. PICK g : IsPass(g, Before(s, n), R, n) /\ Selected(Before(s, n), R) = g[n]
  BY <1>1, SelectedIsPass
<1>3. g[n] = f[n]
  BY <1>1, <1>2, PassUnique
<1>4. QED
  BY <1>2, <1>3

LEMMA SelectedStep ==
    ASSUME NEW S, NEW s \in Seq(S), NEW R
    PROVE  /\ Selected(Before(s, 0), R) = <<>>
           /\ \A i \in 1..Len(s) :
                 Selected(Before(s, i), R) = IF s[i] \in R
                                             THEN Append(Selected(Before(s, i - 1), R), s[i])
                                             ELSE Selected(Before(s, i - 1), R)
<1>1. Len(s) \in Nat
  OBVIOUS
<1>2. PICK f : IsPass(f, s, R, Len(s))
  BY <1>1, PassExists
<1>3. \A i \in 0..Len(s) : Selected(Before(s, i), R) = f[i]
  BY <1>2, SelectedOfPass
<1>4. 0 \in 0..Len(s) /\ \A i \in 1..Len(s) : i \in 0..Len(s) /\ i - 1 \in 0..Len(s)
  BY <1>1
<1>5. f[0] = <<>> /\ \A i \in 1..Len(s) : f[i] = IF s[i] \in R THEN Append(f[i - 1], s[i])
                                                ELSE f[i - 1]
  BY <1>1, <1>2, PassStep
<1>6. QED
  BY <1>3, <1>4, <1>5

LEMMA SelectedType ==
    ASSUME NEW S, NEW s \in Seq(S), NEW R, NEW n \in 0..Len(s)
    PROVE  Selected(Before(s, n), R) \in Seq(S \cap R)
<1> DEFINE T == S \cap R
<1> DEFINE Bad == {i \in Nat : i <= Len(s) /\ Selected(Before(s, i), R) \notin Seq(T)}
<1>1. ASSUME Bad # {} PROVE FALSE
  <2>1. PICK i \in Bad : \A j \in Bad : i <= j
    BY <1>1, Least
  <2>2. i \in Nat /\ i <= Len(s) /\ Selected(Before(s, i), R) \notin Seq(T)
    OBVIOUS
  <2>3. i # 0
    <3>1. Selected(Before(s, 0), R) = <<>>
      BY SelectedStep
    <3>2. Selected(Before(s, 0), R) \in Seq(T)
      BY <3>1, EmptySeq
    <3>3. QED
      BY <2>2, <3>2
  <2>4. i \in 1..Len(s) /\ i - 1 \in Nat /\ i - 1 <= Len(s) /\ ~(i <= i - 1)
    BY <2>2, <2>3
  <2>5. Selected(Before(s, i - 1), R) \in Seq(T)
    BY <2>1, <2>4
  <2>6. s[i] \in S
    BY <2>4, ElementOfSeq
  <2>7. CASE s[i] \in R
    <3>1. s[i] \in T
      BY <2>6, <2>7
    <3> HIDE DEF T
    <3>2. Append(Selected(Before(s, i - 1), R), s[i]) \in Seq(T)
      BY <2>5, <3>1, AppendProperties
    <3>3. QED
      BY <2>2, <2>4, <2>7, <3>2, SelectedStep
  <2>8. CASE s[i] \notin R
    BY <2>2, <2>4, <2>5, <2>8, SelectedStep
  <2>9. QED
    BY <2>7, <2>8
<1>2. QED
  BY <1>1

LEMMA SelectedIsSeq ==
    ASSUME NEW S, NEW s \in Seq(S), NEW R
    PROVE  Selected(s, R) \in Seq(S \cap R)
<1>1. Before(s, Len(s)) = s /\ Len(s) \in 0..Len(s)
  BY SubSeqFull DEF Before
<1>2. QED
  BY <1>1, SelectedType

\* p is how q begins.
Begins(p, q) == Len(p) <= Len(q) /\ \A k \in 1..Len(p) : q[k] = p[k]

LEMMA SelectedBegins ==
    ASSUME NEW S, NEW s \in Seq(S), NEW R, NEW n \in 0..Len(s), NEW m \in 0..n
    PROVE  Begins(Selected(Before(s, m), R), Selected(Before(s, n), R))
<1> DEFINE sel(i) == Selected(Before(s, i), R)
<1> DEFINE Bad == {i \in Nat : m <= i /\ i <= Len(s) /\ ~Begins(sel(m), sel(i))}
<1>0. Len(s) \in Nat /\ m \in Nat /\ n \in Nat /\ m <= n /\ n <= Len(s)
  OBVIOUS
<1>1. \A i \in 0..Len(s) : sel(i) \in Seq(S) /\ Len(sel(i)) \in Nat
  <2>1. \A i \in 0..Len(s) : sel(i) \in Seq(S \cap R)
    BY SelectedType
  <2>2. QED
    BY <2>1, SeqMonotonic
<1>2. \A i \in 1..Len(s) : sel(i) = IF s[i] \in R THEN Append(sel(i - 1), s[i])
                                    ELSE sel(i - 1)
  BY SelectedStep
<1> HIDE DEF sel
<1>3. ASSUME Bad # {} PROVE FALSE
  <2>1. PICK i \in Bad : \A j \in Bad : i <= j
    BY <1>3, Least
  <2>2. i \in Nat /\ m <= i /\ i <= Len(s) /\ ~Begins(sel(m), sel(i))
    OBVIOUS
  <2>3. CASE i = m
    BY <2>2, <2>3, <1>0, <1>1 DEF Begins
  <2>4. CASE i # m
    <3>1. /\ i \in 1..Len(s) /\ i - 1 \in Nat /\ m <= i - 1 /\ i - 1 <= Len(s)
          /\ ~(i <= i - 1) /\ i - 1 \in 0..Len(s)
      BY <2>2, <2>4, <1>0
    <3>2. Begins(sel(m), sel(i - 1))
      BY <2>1, <3>1
    <3>3. CASE s[i] \in R
      <4>1. sel(i) = Append(sel(i - 1), s[i]) /\ sel(i - 1) \in Seq(S) /\ s[i] \in S
        BY <3>1, <3>3, <1>1, <1>2, ElementOfSeq
      <4>2. /\ Len(sel(i)) = Len(sel(i - 1)) + 1
            /\ \A k \in 1..Len(sel(i - 1)) : sel(i)[k] = sel(i - 1)[k]
        BY <4>1, AppendProperties
      <4>3. Len(sel(m)) \in Nat /\ Len(sel(i - 1)) \in Nat
        BY <3>1, <1>0, <1>1
      <4>4. QED
        BY <2>2, <3>2, <4>2, <4>3 DEF Begins
    <3>4. CASE s[i] \notin R
      BY <2>2, <3>1, <3>2, <3>4, <1>2
    <3>5. QED
      BY <3>3, <3>4
  <2>5. QED
    BY <2>3, <2>4
<1>4. QED
  BY <1>0, <1>3 DEF sel

(* Where a pass stands before its i-th member and after it.                *)
At(s, R, i, prev) ==
    LET all == Selected(s, R)
    IN  /\ Len(prev) <= Len(all)
        /\ \A k \in 1..Len(prev) : all[k] = prev[k]
        /\ s[i] \notin R => Selected(Before(s, i), R) = prev
        /\ s[i] \in R => /\ Selected(Before(s, i), R) = Append(prev, s[i])
                         /\ Len(prev) + 1 <= Len(all)
                         /\ all[Len(prev) + 1] = s[i]

LEMMA SelectedAt ==
    ASSUME NEW S, NEW s \in Seq(S), NEW R, NEW i \in 1..Len(s)
    PROVE  /\ Selected(Before(s, i - 1), R) \in Seq(S)
           /\ At(s, R, i, Selected(Before(s, i - 1), R))
<1> DEFINE prev == Selected(Before(s, i - 1), R)
           all  == Selected(s, R)
<1>1. Len(s) \in Nat /\ i \in 0..Len(s) /\ i - 1 \in 0..Len(s) /\ Len(s) \in 0..Len(s)
      /\ i \in 0..Len(s) /\ i - 1 \in 0..Len(s) /\ Before(s, Len(s)) = s
  BY SubSeqFull DEF Before
<1>2. prev \in Seq(S) /\ all \in Seq(S) /\ s[i] \in S
  <2>1. prev \in Seq(S \cap R)
    BY <1>1, SelectedType
  <2>2. all \in Seq(S \cap R)
    BY SelectedIsSeq
  <2>3. QED
    BY <2>1, <2>2, SeqMonotonic, ElementOfSeq
<1>3. Selected(Before(s, i), R) = IF s[i] \in R THEN Append(prev, s[i]) ELSE prev
  <2>1. \A j \in 1..Len(s) :
           Selected(Before(s, j), R) = IF s[j] \in R
                                       THEN Append(Selected(Before(s, j - 1), R), s[j])
                                       ELSE Selected(Before(s, j - 1), R)
    BY SelectedStep
  <2>2. QED
    BY <2>1
<1>4. Begins(prev, all) /\ Begins(Selected(Before(s, i), R), all)
  <2>1. \A n \in 0..Len(s) : Begins(Selected(Before(s, n), R), Selected(Before(s, Len(s)), R))
    BY <1>1, SelectedBegins
  <2>2. QED
    BY <1>1, <2>1
<1> HIDE DEF prev, all
<1>5. ASSUME s[i] \in R
      PROVE  Len(prev) + 1 <= Len(all) /\ all[Len(prev) + 1] = s[i]
  <2>1. /\ Len(Append(prev, s[i])) = Len(prev) + 1
        /\ Append(prev, s[i])[Len(prev) + 1] = s[i]
        /\ Len(prev) + 1 \in 1..(Len(prev) + 1)
    BY <1>2, AppendProperties, LenProperties
  <2>2. Begins(Append(prev, s[i]), all)
    BY <1>3, <1>4, <1>5
  <2>3. QED
    BY <2>1, <2>2 DEF Begins
<1>6. QED
  BY <1>2, <1>3, <1>4, <1>5 DEF At, Begins, prev, all

(* The set of the members of a sequence.                                   *)
LEMMA MembersOf ==
    ASSUME NEW S, NEW s \in Seq(S)
    PROVE  /\ \A e \in S : ToSet(Append(s, e)) = ToSet(s) \cup {e}
           /\ s # <<>> => ToSet(s) = {Head(s)} \cup ToSet(Tail(s))
           /\ ToSet(<<>>) = {}
<1>1. Len(s) \in Nat /\ DOMAIN s = 1..Len(s)
  BY LenProperties
<1>2. ASSUME NEW e \in S PROVE ToSet(Append(s, e)) = ToSet(s) \cup {e}
  <2>1. /\ DOMAIN Append(s, e) = 1..(Len(s) + 1)
        /\ \A i \in 1..Len(s) : Append(s, e)[i] = s[i]
        /\ Append(s, e)[Len(s) + 1] = e
    BY AppendProperties, LenProperties
  <2>2. 1..(Len(s) + 1) = (1..Len(s)) \cup {Len(s) + 1}
    BY <1>1
  <2>3. QED
    BY <1>1, <2>1, <2>2 DEF ToSet
<1>3. ASSUME s # <<>> PROVE ToSet(s) = {Head(s)} \cup ToSet(Tail(s))
  <2>1. /\ Tail(s) \in Seq(S) /\ Len(Tail(s)) = Len(s) - 1
        /\ \A i \in 1..Len(Tail(s)) : Tail(s)[i] = s[i + 1]
    BY <1>3, HeadTailProperties
  <2>2. DOMAIN Tail(s) = 1..(Len(s) - 1) /\ Head(s) = s[1] /\ Len(s) # 0
    BY <1>3, <2>1, EmptySeq, LenProperties
  <2>3. \A i \in 1..Len(s) : i = 1 \/ i - 1 \in 1..(Len(s) - 1)
    BY <1>1
  <2>4. \A i \in 1..(Len(s) - 1) : i + 1 \in 1..Len(s) /\ 1 \in 1..Len(s)
    BY <1>1
  <2>5. 1 \in 1..Len(s)
    BY <1>1, <2>2
  <2>6. ASSUME NEW x \in ToSet(s) PROVE x \in {Head(s)} \cup ToSet(Tail(s))
    <3>1. PICK i \in 1..Len(s) : x = s[i]
      BY <1>1 DEF ToSet
    <3>2. CASE i = 1
      BY <2>2, <3>1, <3>2
    <3>3. CASE i - 1 \in 1..(Len(s) - 1)
      <4>1. Tail(s)[i - 1] = s[i]
        BY <1>1, <2>1, <3>3
      <4>2. QED
        BY <2>2, <3>1, <3>3, <4>1 DEF ToSet
    <3>4. QED
      BY <2>3, <3>2, <3>3
  <2>7. ASSUME NEW x \in {Head(s)} \cup ToSet(Tail(s)) PROVE x \in ToSet(s)
    <3>1. CASE x = Head(s)
      BY <1>1, <2>2, <2>5, <3>1 DEF ToSet
    <3>2. CASE x \in ToSet(Tail(s))
      <4>1. PICK i \in 1..(Len(s) - 1) : x = Tail(s)[i]
        BY <2>2, <3>2 DEF ToSet
      <4>2. x = s[i + 1] /\ i + 1 \in 1..Len(s)
        BY <2>1, <2>4, <4>1
      <4>3. QED
        BY <1>1, <4>2 DEF ToSet
    <3>3. QED
      BY <3>1, <3>2
  <2>8. QED
    BY <2>6, <2>7
<1>4. ToSet(<<>>) = {}
  BY DEF ToSet
<1>5. QED
  BY <1>2, <1>3, <1>4
-----------------------------------------------------------------------------
(***************************************************************************)
(* The invariant.  While the components are validated, a mandatory one is  *)
(* in its chain or still to come, or the start is known to fail; nobody    *)
(* logs in before it is over, and nothing changes the chains afterwards.   *)
(* A login has asked those who serve the user among the authenticators     *)
(* before the one it is at, and run those who do not exclude the user      *)
(* among the provisioners before the one it is at, but those that are      *)
(* queued.                                                                 *)
(***************************************************************************)
Awaited(names, chain) == \A c \in Mandatory : c \in ToSet(names) => c \in ToSet(chain)
AwaitedOrLeft(names, chain) ==
    \A c \in Mandatory : c \in ToSet(names) => c \in ToSet(chain) \cup ToSet(start.left)

StartInv ==
    /\ start.phase = "auth"
       => /\ start.left \in Seq(Authenticators) /\ provs = <<>>
          /\ start.valid => AwaitedOrLeft(ChosenAuths, auths)
    /\ start.phase = "prov"
       => /\ start.left \in Seq(Provisioners) /\ Awaited(ChosenAuths, auths)
          /\ start.valid => AwaitedOrLeft(ChosenProvs, provs)
    /\ start.phase = "serving"
       => Awaited(ChosenAuths, auths) /\ Awaited(ChosenProvs, provs)
    /\ start.phase \in {"serving", "failed"} => start.left = <<>>
    /\ start.phase # "serving" => login = NoLogin

\* Those who were to be asked, or run, before the one a login is at.
AskedBefore == Selected(Before(auths, login.i - 1), Serving)
RunBefore == Selected(Before(provs, login.i - 1), Including)

AskedAre(chain) == \A k \in 1..Len(login.asked) : login.asked[k].by = chain[k]

AskingInv ==
    login.pc = "asking"
    => /\ login.i <= Len(auths) + 1 /\ login.result = "none"
       /\ login.d = "none" /\ login.ran = <<>> /\ login.queued = 0
       /\ Len(login.asked) = Len(AskedBefore) /\ AskedAre(AskedBefore)
       /\ \A k \in 1..Len(login.asked) : login.asked[k].verdict = "rejects"

ProvisioningInv ==
    login.pc = "provisioning"
    => /\ login.i <= Len(provs) + 1 /\ login.result = "none"
       /\ login.d \in {"none", "fired"} => login.ran = RunBefore /\ login.queued = 0
       /\ login.d = "pending"
          => /\ Len(login.ran) + login.queued = Len(RunBefore)
             /\ OnlyTheLastDefers
                => login.i = Len(provs) + 1 /\ login.ran = RunBefore /\ login.queued = 0

WaitingInv ==
    login.pc = "waiting"
    => /\ login.result = "none" /\ login.d # "none"
       /\ login.d \in {"fired", "pending"}
          => /\ Len(login.ran) + login.queued = Len(Selected(provs, Including))
             /\ OnlyTheLastDefers
                => login.ran = Selected(provs, Including) /\ login.queued = 0

\* A callback that is queued will run some provisioner.
QueuedInv == login.queued > 0 => login.instance \in Provisioners

LoginInv == AskingInv /\ ProvisioningInv /\ WaitingInv /\ QueuedInv
NotBegun == login.pc = "none" => login = NoLogin

ChainsInv ==
    /\ ChainsTypeOK /\ StartInv /\ NotBegun /\ LoginInv /\ ChainDecides /\ SuccessIsProvisioned
-----------------------------------------------------------------------------
LEMMA ChosenAreRegistered ==
    ChosenAuths \in Seq(Authenticators) /\ ChosenProvs \in Seq(Provisioners)
<1>1. ChosenAuths \in Seq(STRING \cap Authenticators)
  BY ChainsAssumption, SelectedIsSeq DEF ChosenAuths
<1>2. ChosenProvs \in Seq(STRING \cap Provisioners)
  BY ChainsAssumption, SelectedIsSeq DEF ChosenProvs
<1>3. QED
  BY <1>1, <1>2, SeqMonotonic

LEMMA ChainTypes ==
    ChainsTypeOK => /\ Selected(auths, Serving) \in Seq(Authenticators)
              /\ Selected(provs, Including) \in Seq(Provisioners)
              /\ Len(auths) \in Nat /\ Len(provs) \in Nat
<1> SUFFICES ASSUME ChainsTypeOK
             PROVE  /\ Selected(auths, Serving) \in Seq(Authenticators)
                    /\ Selected(provs, Including) \in Seq(Provisioners)
                    /\ Len(auths) \in Nat /\ Len(provs) \in Nat
  OBVIOUS
<1>1. auths \in Seq(Authenticators) /\ provs \in Seq(Provisioners)
  BY DEF ChainsTypeOK
<1>2. /\ Selected(auths, Serving) \in Seq(Authenticators \cap Serving)
      /\ Selected(provs, Including) \in Seq(Provisioners \cap Including)
  BY <1>1, SelectedIsSeq
<1>3. QED
  BY <1>1, <1>2, SeqMonotonic, LenProperties

LEMMA NoLoginIsFine ==
    ChainsTypeOK /\ login = NoLogin
    => NotBegun /\ LoginInv /\ ChainDecides /\ SuccessIsProvisioned
<1> SUFFICES ASSUME ChainsTypeOK, login = NoLogin
             PROVE  NotBegun /\ LoginInv /\ ChainDecides /\ SuccessIsProvisioned
  OBVIOUS
<1>1. Len(Selected(auths, Serving)) \in Nat
  BY ChainTypes, LenProperties
<1>2. login.asked = <<>> /\ login.pc = "none" /\ login.result = "none" /\ login.queued = 0
  BY DEF NoLogin
<1>3. Len(<<>>) = 0 /\ DOMAIN <<>> = {}
  OBVIOUS
<1>4. ChainDecides
  BY <1>1, <1>2, <1>3 DEF ChainDecides
<1>5. LoginInv /\ SuccessIsProvisioned /\ NotBegun
  BY <1>2 DEF LoginInv, QueuedInv, AskingInv, ProvisioningInv, WaitingInv, SuccessIsProvisioned, NotBegun
<1>6. QED
  BY <1>4, <1>5

LEMMA ChainsInitially == ChainsInit => ChainsInv
<1> SUFFICES ASSUME ChainsInit PROVE ChainsInv
  OBVIOUS
<1>1. ChainsTypeOK
  <2>1. start \in StartStates
    <3>1. ChosenAuths \in Seq(Authenticators \cup Provisioners)
      BY ChosenAreRegistered, SeqMonotonic
    <3>2. QED
      BY <3>1 DEF ChainsInit, StartStates
  <2>2. login \in LoginStates
    BY DEF ChainsInit, NoLogin, LoginStates
  <2>3. QED
    BY <2>1, <2>2, ChainsAssumption DEF ChainsInit, ChainsTypeOK
<1>2. StartInv
  BY ChosenAreRegistered DEF ChainsInit, StartInv, AwaitedOrLeft
<1>3. QED
  BY <1>1, <1>2, NoLoginIsFine DEF ChainsInit, ChainsInv

(* A component that validates joins its chain; a mandatory one that does   *)
(* not is fatal to the start.                                              *)
LEMMA ValidatesKeeps ==
    ASSUME ChainsInv, NEW v \in Validations, Validates(v)
    PROVE  ChainsInv'
<1> DEFINE c == Head(start.left)
<1>1. /\ ChainsTypeOK /\ StartInv /\ start.left # <<>> /\ start.phase \in {"auth", "prov"}
      /\ start.left \in Seq(Authenticators \cup Provisioners)
  BY DEF ChainsInv, ChainsTypeOK, StartStates, Validates, StartInv
<1>2. login = NoLogin /\ login' = NoLogin
  BY <1>1 DEF StartInv, Validates
<1>3. /\ ToSet(start.left) = {c} \cup ToSet(Tail(start.left))
      /\ Tail(start.left) \in Seq(Authenticators \cup Provisioners)
      /\ c \in Authenticators \cup Provisioners
  BY <1>1, MembersOf, HeadTailProperties
<1>4. /\ start' = [start EXCEPT !.left = Tail(@), !.valid = @ /\ ~IsFatal(c, v)]
      /\ auths' = IF c \in Authenticators /\ v = "valid" THEN Append(auths, c) ELSE auths
      /\ provs' = IF c \in Provisioners /\ v = "valid" THEN Append(provs, c) ELSE provs
      /\ UNCHANGED <<conf, login, logins>>
  BY DEF Validates
<1> HIDE DEF c
<1>5. /\ auths' \in Seq(Authenticators) /\ provs' \in Seq(Provisioners)
      /\ c \in Authenticators /\ v = "valid" => ToSet(auths') = ToSet(auths) \cup {c}
      /\ c \in Provisioners /\ v = "valid" => ToSet(provs') = ToSet(provs) \cup {c}
      /\ ~(c \in Authenticators /\ v = "valid") => auths' = auths
      /\ ~(c \in Provisioners /\ v = "valid") => provs' = provs
  <2>1. auths \in Seq(Authenticators) /\ provs \in Seq(Provisioners)
    BY <1>1 DEF ChainsTypeOK
  <2>2. c \in Authenticators => /\ Append(auths, c) \in Seq(Authenticators)
                                /\ ToSet(Append(auths, c)) = ToSet(auths) \cup {c}
    BY <2>1, AppendProperties, MembersOf
  <2>3. c \in Provisioners => /\ Append(provs, c) \in Seq(Provisioners)
                              /\ ToSet(Append(provs, c)) = ToSet(provs) \cup {c}
    BY <2>1, AppendProperties, MembersOf
  <2>4. QED
    BY <1>4, <2>1, <2>2, <2>3
<1>6. /\ start'.phase = start.phase /\ start'.left = Tail(start.left)
      /\ start'.valid = (start.valid /\ ~IsFatal(c, v)) /\ start' \in StartStates
  BY <1>1, <1>3, <1>4 DEF ChainsTypeOK, StartStates
<1>7. ChainsTypeOK'
  BY <1>1, <1>4, <1>5, <1>6 DEF ChainsTypeOK
<1>8. ~IsFatal(c, v) /\ c \in Mandatory => v = "valid"
  BY DEF IsFatal, Validations
<1>9. StartInv'
  <2>1. CASE start.phase = "auth"
    <3>1. /\ start.left \in Seq(Authenticators) /\ provs = <<>>
          /\ start.valid => AwaitedOrLeft(ChosenAuths, auths)
      BY <1>1, <2>1 DEF StartInv
    <3>2. c \in Authenticators /\ Tail(start.left) \in Seq(Authenticators)
      BY <1>1, <3>1, HeadTailProperties DEF c
    <3>3. c \notin Provisioners
      BY <3>2, ChainsAssumption
    <3>4. provs' = <<>>
      BY <1>5, <3>1, <3>3
    <3>5. start'.valid => AwaitedOrLeft(ChosenAuths, auths)'
      BY <1>3, <1>5, <1>6, <1>8, <3>1, <3>2 DEF AwaitedOrLeft, ChosenAuths, ChosenProvs
    <3>6. QED
      BY <1>2, <1>6, <2>1, <3>2, <3>4, <3>5 DEF StartInv, NoLogin
  <2>2. CASE start.phase = "prov"
    <3>1. /\ start.left \in Seq(Provisioners) /\ Awaited(ChosenAuths, auths)
          /\ start.valid => AwaitedOrLeft(ChosenProvs, provs)
      BY <1>1, <2>2 DEF StartInv
    <3>2. c \in Provisioners /\ Tail(start.left) \in Seq(Provisioners)
      BY <1>1, <3>1, HeadTailProperties DEF c
    <3>3. c \notin Authenticators
      BY <3>2, ChainsAssumption
    <3>4. Awaited(ChosenAuths, auths)'
      BY <1>5, <3>1, <3>3 DEF Awaited, ChosenAuths
    <3>5. start'.valid => AwaitedOrLeft(ChosenProvs, provs)'
      BY <1>3, <1>5, <1>6, <1>8, <3>1, <3>2 DEF AwaitedOrLeft, ChosenAuths, ChosenProvs
    <3>6. QED
      BY <1>2, <1>6, <2>2, <3>2, <3>4, <3>5 DEF StartInv, NoLogin
  <2>3. QED
    BY <1>1, <2>1, <2>2
<1>10. (NotBegun /\ LoginInv /\ ChainDecides /\ SuccessIsProvisioned)'
  <2>1. (login = NoLogin)'
    BY <1>2 DEF NoLogin
  <2>2. QED
    BY <2>1, <1>7, NoLoginIsFine, PTL
<1>11. QED
  BY <1>7, <1>9, <1>10 DEF ChainsInv

LEMMA NextManagerKeeps == ASSUME ChainsInv, NextManager PROVE ChainsInv'
<1>1. /\ ChainsTypeOK /\ StartInv /\ start.left = <<>> /\ start.phase \in {"auth", "prov"}
      /\ start \in StartStates
  BY DEF ChainsInv, NextManager, ChainsTypeOK
<1>2. login = NoLogin /\ login' = NoLogin /\ UNCHANGED <<conf, auths, provs, login, logins>>
  BY <1>1 DEF StartInv, NextManager
<1>3. ToSet(start.left) = {}
  BY <1>1, MembersOf, ChosenAreRegistered
<1>4. start' \in StartStates /\ StartInv'
  <2>1. CASE ~start.valid
    <3>1. start' = [start EXCEPT !.phase = "failed"]
      BY <2>1 DEF NextManager
    <3>2. QED
      BY <1>1, <1>2, <3>1 DEF StartStates, StartInv
  <2>2. CASE start.valid /\ start.phase = "auth"
    <3>1. start' = [start EXCEPT !.phase = "prov", !.left = ChosenProvs]
      BY <2>2 DEF NextManager
    <3>2. ChosenProvs \in Seq(Authenticators \cup Provisioners)
      BY ChosenAreRegistered, SeqMonotonic
    <3>3. start' \in StartStates /\ start'.phase = "prov" /\ start'.left = ChosenProvs
      BY <1>1, <3>1, <3>2 DEF StartStates
    <3>4. Awaited(ChosenAuths, auths)'
      BY <1>1, <1>2, <1>3, <2>2 DEF StartInv, AwaitedOrLeft, Awaited
    <3>5. AwaitedOrLeft(ChosenProvs, provs)'
      BY <3>3 DEF AwaitedOrLeft
    <3>6. QED
      BY <1>2, <3>3, <3>4, <3>5, ChosenAreRegistered DEF StartInv
  <2>3. CASE start.valid /\ start.phase # "auth"
    <3>1. start' = [start EXCEPT !.phase = "serving"]
      BY <2>3 DEF NextManager
    <3>2. start' \in StartStates /\ start'.phase = "serving" /\ start'.left = <<>>
      BY <1>1, <3>1 DEF StartStates
    <3>3. Awaited(ChosenAuths, auths)' /\ Awaited(ChosenProvs, provs)'
      BY <1>1, <1>2, <1>3, <2>3 DEF StartInv, AwaitedOrLeft, Awaited
    <3>4. QED
      BY <3>2, <3>3 DEF StartInv
  <2>4. QED
    BY <2>1, <2>2, <2>3
<1>5. ChainsTypeOK'
  BY <1>1, <1>2, <1>4 DEF ChainsTypeOK
<1>6. (NotBegun /\ LoginInv /\ ChainDecides /\ SuccessIsProvisioned)'
  <2>1. (login = NoLogin)'
    BY <1>2 DEF NoLogin
  <2>2. QED
    BY <2>1, <1>5, NoLoginIsFine, PTL
<1>7. QED
  BY <1>4, <1>5, <1>6 DEF ChainsInv
-----------------------------------------------------------------------------
(* A login changes neither the chains nor whom they serve.                 *)
LEMMA LoginMoves ==
    ASSUME ChainsInv, start.phase = "serving", UNCHANGED <<conf, start, auths, provs>>,
           login' \in LoginStates, logins' \in 0..MaxLogins, login'.pc # "none",
           LoginInv', ChainDecides', SuccessIsProvisioned'
    PROVE  ChainsInv'
<1>1. ChainsTypeOK'
  BY DEF ChainsInv, ChainsTypeOK
<1>2. StartInv'
  BY DEF ChainsInv, StartInv, Awaited, AwaitedOrLeft
<1>3. NotBegun'
  BY DEF NotBegun
<1>4. QED
  BY <1>1, <1>2, <1>3 DEF ChainsInv

LEMMA LoggingInServes ==
    ASSUME ChainsInv, login.pc # "none"
    PROVE  /\ start.phase = "serving" /\ login \in LoginStates /\ logins \in 0..MaxLogins
           /\ auths \in Seq(Authenticators) /\ provs \in Seq(Provisioners)
           /\ Len(auths) \in Nat /\ Len(provs) \in Nat /\ login.i \in Nat \ {0}
           /\ login.asked \in Seq(Asked) /\ DOMAIN login.asked = 1..Len(login.asked)
           /\ Len(login.asked) \in Nat
           /\ Selected(auths, Serving) \in Seq(Authenticators)
           /\ Len(Selected(auths, Serving)) \in Nat
           /\ conf.deferring \subseteq Provisioners
<1>1. NoLogin.pc = "none"
  BY DEF NoLogin
<1>2. ChainsTypeOK
  BY DEF ChainsInv
<1>3. login.asked \in Seq(Asked) /\ login.i \in Nat \ {0}
  BY <1>2 DEF ChainsTypeOK, LoginStates
<1>4. QED
  BY <1>1, <1>2, <1>3, ChainTypes, LenProperties
     DEF ChainsInv, StartInv, ChainsTypeOK, Configurations

LEMMA BeginKeeps == ASSUME ChainsInv, Begin PROVE ChainsInv'
<1>1. /\ start.phase = "serving" /\ UNCHANGED <<conf, start, auths, provs>>
      /\ login' = [NoLogin EXCEPT !.pc = "asking"] /\ logins < MaxLogins
      /\ logins' = logins + 1
  BY DEF Begin
<1>2. ChainsTypeOK
  BY DEF ChainsInv
<1>3. auths \in Seq(Authenticators) /\ Len(auths) \in Nat
      /\ Len(Selected(auths, Serving)) \in Nat
  BY <1>2, ChainTypes, LenProperties DEF ChainsTypeOK
<1>4. /\ login'.pc = "asking" /\ login'.i = 1 /\ login'.result = "none"
      /\ login'.d = "none" /\ login'.ran = <<>> /\ login'.queued = 0
      /\ login'.asked = <<>>
  BY <1>1 DEF NoLogin
<1>5. login' \in LoginStates
  <2>1. NoLogin \in LoginStates
    BY EmptySeq DEF NoLogin, LoginStates
  <2>2. QED
    BY <1>1, <2>1 DEF LoginStates
<1>6. AskedBefore' = <<>>
  <2>1. Selected(Before(auths, 0), Serving) = <<>>
    BY <1>3, SelectedStep
  <2>2. QED
    BY <1>1, <1>4, <2>1 DEF AskedBefore, Serving
<1>7. LoginInv' /\ SuccessIsProvisioned'
  BY <1>1, <1>3, <1>4, <1>6 DEF LoginInv, QueuedInv, AskingInv, AskedAre, ProvisioningInv,
     WaitingInv, SuccessIsProvisioned
<1>8. ChainDecides'
  BY <1>1, <1>3, <1>4 DEF ChainDecides, Serving
<1>9. logins' \in 0..MaxLogins
  BY <1>1, <1>2, ChainsAssumption DEF ChainsTypeOK
<1>10. QED
  BY <1>1, <1>4, <1>5, <1>7, <1>8, <1>9, LoginMoves

(* Where the loop over the authenticators is.                              *)
LEMMA AskingAt ==
    ASSUME ChainsInv, AsksNext
    PROVE  LET a   == auths[login.i]
               all == Selected(auths, Serving)
           IN  /\ AskedBefore \in Seq(Authenticators) /\ a \in Authenticators
               /\ Len(login.asked) <= Len(all)
               /\ AskedAre(all)
               /\ ~Serves(a) => Selected(Before(auths, login.i), Serving) = AskedBefore
               /\ Serves(a) => /\ Selected(Before(auths, login.i), Serving)
                                  = Append(AskedBefore, a)
                               /\ Len(login.asked) + 1 <= Len(all)
                               /\ all[Len(login.asked) + 1] = a
<1>1. login.pc # "none" /\ login.pc = "asking" /\ login.i <= Len(auths)
  BY DEF AsksNext
<1>2. login.i \in 1..Len(auths) /\ auths \in Seq(Authenticators)
  BY <1>1, LoggingInServes
<1>3. /\ Len(login.asked) = Len(AskedBefore) /\ AskedAre(AskedBefore)
  BY <1>1 DEF ChainsInv, LoginInv, AskingInv
<1>4. auths[login.i] \in Authenticators
  BY <1>2, ElementOfSeq
<1>5. Serves(auths[login.i]) <=> auths[login.i] \in Serving
  BY <1>4 DEF Serves, Serving
<1>6. AskedBefore \in Seq(Authenticators) /\ At(auths, Serving, login.i, AskedBefore)
  BY <1>2, SelectedAt DEF AskedBefore
<1>7. QED
  BY <1>3, <1>4, <1>5, <1>6 DEF AskedAre, At

LEMMA SkipsKeeps == ASSUME ChainsInv, Skips PROVE ChainsInv'
<1>1. /\ AsksNext /\ ~Serves(auths[login.i]) /\ login' = [login EXCEPT !.i = @ + 1]
      /\ UNCHANGED <<conf, start, auths, provs, logins>> /\ login.pc = "asking"
      /\ login.i <= Len(auths) /\ login.pc # "none"
  BY DEF Skips, Becomes, AsksNext
<1>2. /\ start.phase = "serving" /\ login \in LoginStates /\ logins \in 0..MaxLogins
      /\ login.i \in Nat \ {0} /\ Len(auths) \in Nat
      /\ DOMAIN login.asked = 1..Len(login.asked)
  BY <1>1, LoggingInServes
<1>3. /\ login'.i = login.i + 1 /\ login'.pc = "asking" /\ login'.result = login.result
      /\ login'.d = login.d /\ login'.ran = login.ran /\ login'.queued = login.queued
      /\ login'.asked = login.asked /\ login' \in LoginStates
  <2>1. login.i + 1 \in Nat \ {0}
    BY <1>2
  <2>2. QED
    BY <1>1, <1>2, <2>1 DEF LoginStates
<1>4. AskingInv
  BY DEF ChainsInv, LoginInv
<1>5. AskedBefore' = Selected(Before(auths, login.i), Serving)
  <2>1. login'.i - 1 = login.i
    BY <1>2, <1>3
  <2>2. AskedBefore' = Selected(Before(auths, login'.i - 1), Serving)
    BY <1>1 DEF AskedBefore, Serving
  <2>3. QED
    BY <2>1, <2>2
<1>6. AskedBefore' = AskedBefore
  BY <1>1, <1>5, AskingAt
<1>7. AskingInv'
  BY <1>1, <1>2, <1>3, <1>4, <1>6 DEF AskingInv, AskedAre
<1>8. LoginInv' /\ SuccessIsProvisioned'
  BY <1>1, <1>3, <1>4, <1>7 DEF LoginInv, QueuedInv, AskingInv, ProvisioningInv, WaitingInv,
     SuccessIsProvisioned
<1>9. ChainDecides'
  <2>1. Len(login.asked) <= Len(Selected(auths, Serving)) /\ AskedAre(Selected(auths, Serving))
    BY <1>1, AskingAt
  <2>2. login.result = "none" /\ \A k \in 1..Len(login.asked) : login.asked[k].verdict = "rejects"
    BY <1>1, <1>4 DEF AskingInv
  <2>3. QED
    BY <1>1, <1>2, <1>3, <2>1, <2>2 DEF ChainDecides, AskedAre, Serving
<1>10. QED
  BY <1>1, <1>2, <1>3, <1>8, <1>9, LoginMoves

LEMMA NobodyAcceptsKeeps == ASSUME ChainsInv, NobodyAccepts PROVE ChainsInv'
<1>1. /\ login.pc = "asking" /\ login.i > Len(auths) /\ login.pc # "none"
      /\ login' = [login EXCEPT !.pc = "done", !.result = "false"]
      /\ UNCHANGED <<conf, start, auths, provs, logins>>
  BY DEF NobodyAccepts, Becomes, Answers
<1>2. /\ start.phase = "serving" /\ login \in LoginStates /\ logins \in 0..MaxLogins
      /\ login.i \in Nat \ {0} /\ Len(auths) \in Nat /\ auths \in Seq(Authenticators)
      /\ DOMAIN login.asked = 1..Len(login.asked) /\ Len(login.asked) \in Nat
      /\ login.asked \in Seq(Asked)
  BY <1>1, LoggingInServes
<1>3. /\ login'.pc = "done" /\ login'.result = "false" /\ login'.asked = login.asked
      /\ login'.queued = login.queued /\ login' \in LoginStates
  BY <1>1, <1>2 DEF LoginStates
<1>4. AskingInv /\ login.queued = 0
  BY <1>1 DEF ChainsInv, LoginInv, AskingInv
<1>5. AskedBefore = Selected(auths, Serving)
  <2>1. login.i - 1 = Len(auths)
    BY <1>1, <1>2, <1>4 DEF AskingInv
  <2>2. QED
    BY <1>2, <2>1, SubSeqFull DEF AskedBefore, Before
<1>6. LoginInv' /\ SuccessIsProvisioned'
  BY <1>3, <1>4 DEF LoginInv, QueuedInv, AskingInv, ProvisioningInv, WaitingInv, SuccessIsProvisioned
<1>7. ChainDecides'
  <2>1. /\ Len(login.asked) = Len(Selected(auths, Serving)) /\ AskedAre(Selected(auths, Serving))
        /\ \A k \in 1..Len(login.asked) : login.asked[k].verdict = "rejects"
    BY <1>1, <1>4, <1>5 DEF AskingInv
  <2>2. login.asked # <<>> => Last(login.asked).verdict = "rejects"
    <3>1. login.asked # <<>> => Len(login.asked) \in 1..Len(login.asked)
      BY <1>2, EmptySeq
    <3>2. QED
      BY <2>1, <3>1 DEF Last
  <2>3. Serving' = Serving
    BY <1>1 DEF Serving
  <2>4. QED
    BY <1>1, <1>2, <1>3, <2>1, <2>2, <2>3 DEF ChainDecides, AskedAre
<1>8. QED
  BY <1>1, <1>2, <1>3, <1>6, <1>7, LoginMoves

(* One authenticator more is asked.                                        *)
AndAsked(verdict) == Append(login.asked, [by |-> auths[login.i], verdict |-> verdict])

AskedWell(asked, verdict) ==
    /\ asked \in Seq(Asked) /\ Len(asked) \in Nat /\ DOMAIN asked = 1..Len(asked)
    /\ Len(asked) = Len(login.asked) + 1 /\ asked # <<>>
    /\ Len(asked) <= Len(Selected(auths, Serving))
    /\ \A k \in 1..Len(asked) : asked[k].by = Selected(auths, Serving)[k]
    /\ \A k \in 1..Len(asked) : k < Len(asked) => asked[k].verdict = "rejects"
    /\ asked[Len(asked)].verdict = verdict /\ Last(asked).verdict = verdict
    /\ Len(asked) = Len(Selected(Before(auths, login.i), Serving))
    /\ \A k \in 1..Len(asked) : asked[k].by = Selected(Before(auths, login.i), Serving)[k]

LEMMA AskedOneMore ==
    ASSUME ChainsInv, AsksNext, Serves(auths[login.i]), NEW verdict \in Verdicts
    PROVE  AskedWell(AndAsked(verdict), verdict)
<1> DEFINE asked == AndAsked(verdict)
           a == auths[login.i]
           one == [by |-> auths[login.i], verdict |-> verdict]
           all == Selected(auths, Serving)
           now == Selected(Before(auths, login.i), Serving)
<1>1. login.pc # "none" /\ login.pc = "asking"
  BY DEF AsksNext
<1>2. /\ login.asked \in Seq(Asked) /\ Len(login.asked) \in Nat /\ login.i \in Nat \ {0}
      /\ DOMAIN login.asked = 1..Len(login.asked)
  BY <1>1, LoggingInServes
<1>3. /\ AskedBefore \in Seq(Authenticators) /\ a \in Authenticators
      /\ Len(login.asked) <= Len(all)
      /\ AskedAre(all)
      /\ now = Append(AskedBefore, a)
      /\ Len(login.asked) + 1 <= Len(all)
      /\ all[Len(login.asked) + 1] = a
  BY AskingAt
<1>4. /\ Len(login.asked) = Len(AskedBefore) /\ AskedAre(AskedBefore)
      /\ \A k \in 1..Len(login.asked) : login.asked[k].verdict = "rejects"
  BY <1>1 DEF ChainsInv, LoginInv, AskingInv
<1>5. one \in Asked /\ one.by = a /\ one.verdict = verdict
  BY <1>3 DEF Asked
<1>6. asked = Append(login.asked, one)
  BY DEF AndAsked
<1> HIDE DEF asked, one, a, all, now
<1>7. /\ asked \in Seq(Asked) /\ Len(asked) = Len(login.asked) + 1
      /\ \A k \in 1..Len(login.asked) : asked[k] = login.asked[k]
      /\ asked[Len(login.asked) + 1] = one
  BY <1>2, <1>5, <1>6, AppendProperties
<1>8. /\ Len(now) = Len(login.asked) + 1
      /\ \A k \in 1..Len(login.asked) : now[k] = AskedBefore[k]
      /\ now[Len(login.asked) + 1] = a
  BY <1>3, <1>4, AppendProperties
<1>9. \A k \in 1..(Len(login.asked) + 1) : k \in 1..Len(login.asked) \/ k = Len(login.asked) + 1
  BY <1>2
<1>10. \A k \in 1..Len(asked) : asked[k].by = all[k] /\ asked[k].by = now[k]
  <2>1. \A k \in 1..Len(login.asked) : asked[k].by = all[k] /\ asked[k].by = now[k]
    BY <1>3, <1>4, <1>7, <1>8 DEF AskedAre
  <2>2. asked[Len(login.asked) + 1].by = all[Len(login.asked) + 1]
        /\ asked[Len(login.asked) + 1].by = now[Len(login.asked) + 1]
    BY <1>3, <1>5, <1>7, <1>8
  <2>3. QED
    BY <2>1, <2>2, <1>7, <1>9
<1>11. \A k \in 1..Len(asked) : k < Len(asked) => asked[k].verdict = "rejects"
  <2>1. \A k \in 1..Len(asked) : k < Len(asked) => k \in 1..Len(login.asked)
    BY <1>2, <1>7
  <2>2. QED
    BY <2>1, <1>4, <1>7
<1>12. asked[Len(asked)].verdict = verdict /\ Last(asked).verdict = verdict
  BY <1>5, <1>7 DEF Last
<1>13. asked # <<>> /\ Len(asked) \in Nat /\ DOMAIN asked = 1..Len(asked)
  BY <1>2, <1>7, EmptySeq, LenProperties
<1>14. QED
  BY <1>3, <1>7, <1>8, <1>10, <1>11, <1>12, <1>13 DEF AskedWell, asked, all, now

LEMMA AsksKeeps ==
    ASSUME ChainsInv, NEW verdict \in Verdicts, Asks(verdict)
    PROVE  ChainsInv'
<1> DEFINE asked == AndAsked(verdict)
<1>1. /\ AsksNext /\ Serves(auths[login.i]) /\ login.pc = "asking" /\ login.pc # "none"
      /\ UNCHANGED <<conf, start, auths, provs, logins>> /\ login.i <= Len(auths)
      /\ verdict = "accepts"
         => login' = [login EXCEPT !.asked = asked, !.pc = "provisioning", !.i = 1]
      /\ verdict = "rejects" => login' = [login EXCEPT !.asked = asked, !.i = @ + 1]
      /\ verdict = "raises"
         => login' = [login EXCEPT !.asked = asked, !.pc = "done", !.result = "error"]
  BY DEF Asks, Becomes, AsksNext, Verdicts, AndAsked
<1>2. /\ start.phase = "serving" /\ login \in LoginStates /\ logins \in 0..MaxLogins
      /\ login.i \in Nat \ {0} /\ Len(auths) \in Nat /\ Len(provs) \in Nat
      /\ login.i + 1 \in Nat \ {0} /\ provs \in Seq(Provisioners)
  BY <1>1, LoggingInServes
<1>3. /\ login.result = "none" /\ login.d = "none" /\ login.ran = <<>> /\ login.queued = 0
  BY <1>1 DEF ChainsInv, LoginInv, AskingInv
<1>4. /\ asked \in Seq(Asked) /\ Len(asked) \in Nat /\ DOMAIN asked = 1..Len(asked)
      /\ Len(asked) = Len(login.asked) + 1 /\ asked # <<>>
      /\ Len(asked) <= Len(Selected(auths, Serving))
      /\ \A k \in 1..Len(asked) : asked[k].by = Selected(auths, Serving)[k]
      /\ \A k \in 1..Len(asked) : k < Len(asked) => asked[k].verdict = "rejects"
      /\ asked[Len(asked)].verdict = verdict /\ Last(asked).verdict = verdict
      /\ Len(asked) = Len(Selected(Before(auths, login.i), Serving))
      /\ \A k \in 1..Len(asked) : asked[k].by = Selected(Before(auths, login.i), Serving)[k]
  BY <1>1, AskedOneMore DEF AskedWell
<1> HIDE DEF asked
<1>5. Serving' = Serving /\ Including' = Including
  BY <1>1 DEF Serving, Including
<1>6. CASE verdict = "accepts"
  <2>1. /\ login'.pc = "provisioning" /\ login'.i = 1 /\ login'.asked = asked
        /\ login'.result = "none" /\ login'.d = "none" /\ login'.ran = <<>>
        /\ login'.queued = 0 /\ login' \in LoginStates
    <3>1. login' = [login EXCEPT !.asked = asked, !.pc = "provisioning", !.i = 1]
      BY <1>1, <1>6
    <3>2. 1 \in Nat \ {0}
      OBVIOUS
    <3>3. QED
      BY <3>1, <3>2, <1>2, <1>3, <1>4 DEF LoginStates
  <2>2. RunBefore' = <<>>
    <3>1. Selected(Before(provs, 0), Including) = <<>>
      BY <1>2, SelectedStep
    <3>2. RunBefore' = Selected(Before(provs, login'.i - 1), Including)
      BY <1>1 DEF RunBefore, Including
    <3>3. QED
      BY <2>1, <3>1, <3>2
  <2>3. LoginInv' /\ SuccessIsProvisioned'
    BY <1>1, <1>2, <2>1, <2>2 DEF LoginInv, QueuedInv, AskingInv, ProvisioningInv, WaitingInv,
       SuccessIsProvisioned
  <2>4. ChainDecides'
    BY <1>1, <1>4, <1>6, <2>1 DEF ChainDecides, Serving
  <2>5. QED
    BY <1>1, <1>2, <2>1, <2>3, <2>4, LoginMoves
<1>7. CASE verdict = "rejects"
  <2>1. /\ login'.pc = "asking" /\ login'.i = login.i + 1 /\ login'.asked = asked
        /\ login'.result = "none" /\ login'.d = "none" /\ login'.ran = <<>>
        /\ login'.queued = 0 /\ login' \in LoginStates
    BY <1>1, <1>2, <1>3, <1>4, <1>7 DEF LoginStates
  <2>2. AskedBefore' = Selected(Before(auths, login.i), Serving)
    <3>1. AskedBefore' = Selected(Before(auths, login'.i - 1), Serving)
      BY <1>1 DEF AskedBefore, Serving
    <3>2. login'.i - 1 = login.i
      BY <1>2, <2>1
    <3>3. QED
      BY <3>1, <3>2
  <2>3. \A k \in 1..Len(asked) : asked[k].verdict = "rejects"
    <3>1. \A k \in 1..Len(asked) : k < Len(asked) \/ k = Len(asked)
      BY <1>4
    <3>2. QED
      BY <3>1, <1>4, <1>7
  <2>4. AskingInv'
    BY <1>1, <1>2, <1>4, <2>1, <2>2, <2>3 DEF AskingInv, AskedAre
  <2>5. LoginInv' /\ SuccessIsProvisioned'
    BY <2>1, <2>4 DEF LoginInv, QueuedInv, ProvisioningInv, WaitingInv, SuccessIsProvisioned
  <2>6. ChainDecides'
    BY <1>1, <1>4, <2>1 DEF ChainDecides, Serving
  <2>7. QED
    BY <1>1, <1>2, <2>1, <2>5, <2>6, LoginMoves
<1>8. CASE verdict = "raises"
  <2>1. /\ login'.pc = "done" /\ login'.result = "error" /\ login'.asked = asked
        /\ login'.queued = 0 /\ login' \in LoginStates
    BY <1>1, <1>2, <1>3, <1>4, <1>8 DEF LoginStates
  <2>2. LoginInv' /\ SuccessIsProvisioned'
    BY <2>1 DEF LoginInv, QueuedInv, AskingInv, ProvisioningInv, WaitingInv, SuccessIsProvisioned
  <2>3. ChainDecides'
    BY <1>1, <1>4, <2>1 DEF ChainDecides, Serving
  <2>4. QED
    BY <1>1, <1>2, <2>1, <2>2, <2>3, LoginMoves
<1>9. QED
  BY <1>6, <1>7, <1>8 DEF Verdicts
-----------------------------------------------------------------------------
(* Nobody is asked any more.                                               *)
LEMMA StaysDecided ==
    ASSUME ChainsInv, UNCHANGED <<conf, auths>>, login.pc \in {"provisioning", "waiting"},
           login'.asked = login.asked, login'.result # "false"
    PROVE  ChainDecides'
BY DEF ChainsInv, ChainDecides, Serving

(* Where the loop over the provisioners is.                                *)
LEMMA ProvisioningAt ==
    ASSUME ChainsInv, ProvisionsNext
    PROVE  LET p == provs[login.i]
               run == Selected(Before(provs, login.i), Including)
           IN  /\ RunBefore \in Seq(Provisioners) /\ p \in Provisioners
               /\ Len(RunBefore) \in Nat
               /\ p \in conf.excluding => run = RunBefore
               /\ p \notin conf.excluding => /\ run = Append(RunBefore, p)
                                             /\ Len(run) = Len(RunBefore) + 1
<1>1. login.pc # "none" /\ login.i <= Len(provs)
  BY DEF ProvisionsNext
<1>2. login.i \in 1..Len(provs) /\ provs \in Seq(Provisioners)
  BY <1>1, LoggingInServes
<1>3. provs[login.i] \in Provisioners
  BY <1>2, ElementOfSeq
<1>4. RunBefore \in Seq(Provisioners) /\ At(provs, Including, login.i, RunBefore)
  BY <1>2, SelectedAt DEF RunBefore
<1>5. Len(Append(RunBefore, provs[login.i])) = Len(RunBefore) + 1 /\ Len(RunBefore) \in Nat
  BY <1>3, <1>4, AppendProperties, LenProperties
<1>6. provs[login.i] \in conf.excluding <=> provs[login.i] \notin Including
  BY <1>3 DEF Including
<1>7. QED
  BY <1>3, <1>4, <1>5, <1>6 DEF At

(* A login that is being provisioned goes on.                              *)
LEMMA ProvisioningGoesOn ==
    ASSUME ChainsInv, ProvisionsNext, UNCHANGED <<conf, start, auths, provs, logins>>,
           login'.pc = "provisioning", login'.i = login.i + 1, login'.asked = login.asked,
           login'.result = login.result, login' \in LoginStates,
           login'.instance = provs[login.i],
           LET run == Selected(Before(provs, login.i), Including)
           IN  /\ login'.d \in {"none", "fired"} => login'.ran = run /\ login'.queued = 0
               /\ login'.d = "pending"
                  => /\ Len(login'.ran) + login'.queued = Len(run)
                     /\ OnlyTheLastDefers
                        => login.i = Len(provs) /\ login'.ran = run /\ login'.queued = 0
    PROVE  ChainsInv'
<1>1. login.pc = "provisioning" /\ login.pc # "none" /\ login.i <= Len(provs)
  BY DEF ProvisionsNext
<1>2. /\ start.phase = "serving" /\ logins \in 0..MaxLogins
      /\ login.i \in Nat \ {0} /\ Len(provs) \in Nat
  BY <1>1, LoggingInServes
<1>3. login.result = "none"
  BY <1>1 DEF ChainsInv, LoginInv, ProvisioningInv
<1>4. RunBefore' = Selected(Before(provs, login.i), Including)
  <2>1. RunBefore' = Selected(Before(provs, login'.i - 1), Including)
    BY DEF RunBefore, Including
  <2>2. login'.i - 1 = login.i
    BY <1>2
  <2>3. QED
    BY <2>1, <2>2
<1>5. OnlyTheLastDefers' = OnlyTheLastDefers
  BY DEF OnlyTheLastDefers
<1>6. ProvisioningInv'
  BY <1>1, <1>2, <1>3, <1>4, <1>5 DEF ProvisioningInv
<1>7. LoginInv' /\ SuccessIsProvisioned'
  BY <1>3, <1>6, ProvisioningAt DEF LoginInv, AskingInv, WaitingInv, QueuedInv,
     SuccessIsProvisioned
<1>8. ChainDecides'
  BY <1>1, <1>3, StaysDecided
<1>9. QED
  BY <1>2, <1>7, <1>8, LoginMoves

LEMMA ExcludesKeeps == ASSUME ChainsInv, Excludes PROVE ChainsInv'
<1>1. /\ ProvisionsNext /\ provs[login.i] \in conf.excluding
      /\ UNCHANGED <<conf, start, auths, provs, logins>>
      /\ login' = [login EXCEPT !.instance = provs[login.i], !.i = @ + 1]
      /\ login.pc = "provisioning" /\ login.pc # "none" /\ login.i <= Len(provs)
  BY DEF Excludes, Becomes, ProvisionsNext
<1>2. login \in LoginStates /\ login.i \in Nat \ {0} /\ Len(provs) \in Nat
      /\ login.i + 1 \in Nat \ {0}
  BY <1>1, LoggingInServes
<1>3. /\ provs[login.i] \in Provisioners
      /\ Selected(Before(provs, login.i), Including) = RunBefore
  BY <1>1, ProvisioningAt
<1>4. /\ login'.pc = "provisioning" /\ login'.i = login.i + 1 /\ login'.asked = login.asked
      /\ login'.result = login.result /\ login'.instance = provs[login.i]
      /\ login'.ran = login.ran /\ login'.d = login.d /\ login'.queued = login.queued
      /\ login' \in LoginStates
  BY <1>1, <1>2, <1>3 DEF LoginStates
<1>5. /\ login.d \in {"none", "fired"} => login.ran = RunBefore /\ login.queued = 0
      /\ login.d = "pending"
          => /\ Len(login.ran) + login.queued = Len(RunBefore)
             /\ OnlyTheLastDefers
                => login.i = Len(provs) + 1 /\ login.ran = RunBefore /\ login.queued = 0
  BY <1>1 DEF ChainsInv, LoginInv, ProvisioningInv
<1>6. login.i # Len(provs) + 1
  BY <1>1, <1>2
<1>7. QED
  BY <1>1, <1>3, <1>4, <1>5, <1>6, ProvisioningGoesOn

LEMMA ProvisionsKeeps ==
    ASSUME ChainsInv, NEW ending \in {"fired", "failed", "pending"}, Provisions(ending)
    PROVE  ChainsInv'
<1> DEFINE p == provs[login.i]
           run == Selected(Before(provs, login.i), Including)
<1>1. /\ ProvisionsNext /\ p \notin conf.excluding /\ ending \in Endings(p)
      /\ UNCHANGED <<conf, start, auths, provs, logins>> /\ login.d \in {"none", "fired"}
      /\ login' = [login EXCEPT !.instance = p, !.i = @ + 1,
                                !.ran = Append(@, p), !.d = ending]
      /\ login.pc = "provisioning" /\ login.pc # "none" /\ login.i <= Len(provs)
  BY DEF Provisions, Becomes, ProvisionsNext
<1>2. /\ login \in LoginStates /\ login.i \in Nat \ {0} /\ Len(provs) \in Nat
      /\ login.i + 1 \in Nat \ {0} /\ provs \in Seq(Provisioners)
  BY <1>1, LoggingInServes
<1>3. /\ RunBefore \in Seq(Provisioners) /\ p \in Provisioners /\ run = Append(RunBefore, p)
      /\ Len(RunBefore) \in Nat /\ Len(run) = Len(RunBefore) + 1
  BY <1>1, ProvisioningAt
<1>4. login.ran = RunBefore /\ login.queued = 0
  BY <1>1 DEF ChainsInv, LoginInv, ProvisioningInv
<1> HIDE DEF p, run
<1>5. run \in Seq(Provisioners)
  BY <1>3, AppendProperties
<1>6. /\ login'.pc = "provisioning" /\ login'.i = login.i + 1 /\ login'.asked = login.asked
      /\ login'.result = login.result /\ login'.instance = p
      /\ login'.ran = run /\ login'.d = ending /\ login'.queued = 0
      /\ login' \in LoginStates
  <2>1. login' = [login EXCEPT !.instance = p, !.i = @ + 1, !.ran = run, !.d = ending]
    BY <1>1, <1>3, <1>4
  <2>2. login'.ran = run /\ login' \in LoginStates
    BY <1>2, <1>3, <1>5, <2>1 DEF LoginStates
  <2>3. QED
    BY <1>1, <1>2, <1>4, <2>1, <2>2 DEF LoginStates
<1>7. ending = "pending" /\ OnlyTheLastDefers => login.i = Len(provs)
  <2>1. ending = "pending" => p \in conf.deferring
    BY <1>1 DEF Endings
  <2>2. login.i \in DOMAIN provs
    BY <1>1, <1>2, LenProperties
  <2>3. QED
    BY <2>1, <2>2 DEF OnlyTheLastDefers, p
<1>8. Len(login'.ran) + login'.queued = Len(run)
  BY <1>3, <1>6
<1>9. QED
  BY <1>1, <1>6, <1>7, <1>8, ProvisioningGoesOn DEF p, run

LEMMA QueuesKeeps == ASSUME ChainsInv, Queues PROVE ChainsInv'
<1> DEFINE p == provs[login.i]
           run == Selected(Before(provs, login.i), Including)
           queued == IF login.d = "pending" THEN login.queued + 1 ELSE login.queued
<1>1. /\ ProvisionsNext /\ p \notin conf.excluding /\ login.d \in {"pending", "failed"}
      /\ UNCHANGED <<conf, start, auths, provs, logins>>
      /\ login' = [login EXCEPT !.instance = p, !.i = @ + 1, !.queued = queued]
      /\ login.pc = "provisioning" /\ login.pc # "none" /\ login.i <= Len(provs)
  BY DEF Queues, Becomes, ProvisionsNext
<1>2. /\ login \in LoginStates /\ login.i \in Nat \ {0} /\ Len(provs) \in Nat
      /\ login.i + 1 \in Nat \ {0}
  BY <1>1, LoggingInServes
<1>3. /\ p \in Provisioners /\ Len(RunBefore) \in Nat /\ Len(run) = Len(RunBefore) + 1
  BY <1>1, ProvisioningAt
<1>4. login.queued \in Nat /\ queued \in Nat /\ login.ran \in Seq(Provisioners)
      /\ Len(login.ran) \in Nat
  BY <1>2, LenProperties DEF LoginStates
<1>5. login.d = "pending"
      => /\ Len(login.ran) + login.queued = Len(RunBefore)
         /\ OnlyTheLastDefers => login.i = Len(provs) + 1
  BY <1>1 DEF ChainsInv, LoginInv, ProvisioningInv
<1>6. login.i # Len(provs) + 1
  BY <1>1, <1>2
<1>7. login.d = "pending" => Len(login.ran) + queued = Len(run)
  BY <1>3, <1>4, <1>5
<1> HIDE DEF p, run, queued
<1>8. /\ login'.pc = "provisioning" /\ login'.i = login.i + 1 /\ login'.asked = login.asked
      /\ login'.result = login.result /\ login'.instance = p
      /\ login'.ran = login.ran /\ login'.d = login.d /\ login'.queued = queued
      /\ login' \in LoginStates
  BY <1>1, <1>2, <1>3, <1>4 DEF LoginStates
<1>9. QED
  BY <1>1, <1>5, <1>6, <1>7, <1>8, ProvisioningGoesOn DEF p, run
-----------------------------------------------------------------------------
(* A login that is answered: with yes only when all have run.              *)
LEMMA AnswerKeeps ==
    ASSUME ChainsInv, login.pc \in {"provisioning", "waiting"},
           NEW result \in {"true", "error"}, Becomes(Answers(result)),
           result = "true"
           => /\ Len(login.ran) = Len(Selected(provs, Including))
              /\ OnlyTheLastDefers => login.ran = Selected(provs, Including)
    PROVE  ChainsInv'
<1>1. /\ login.pc # "none" /\ UNCHANGED <<conf, start, auths, provs, logins>>
      /\ login' = [login EXCEPT !.pc = "done", !.result = result]
  BY DEF Becomes, Answers
<1>2. start.phase = "serving" /\ login \in LoginStates /\ logins \in 0..MaxLogins
  BY <1>1, LoggingInServes
<1>3. /\ login'.pc = "done" /\ login'.result = result /\ login'.asked = login.asked
      /\ login'.ran = login.ran /\ login'.queued = login.queued
      /\ login'.instance = login.instance /\ login' \in LoginStates
  BY <1>1, <1>2 DEF LoginStates
<1>4. OnlyTheLastDefers' = OnlyTheLastDefers
  BY <1>1 DEF OnlyTheLastDefers
<1>5. LoginInv'
  BY <1>3 DEF ChainsInv, LoginInv, AskingInv, ProvisioningInv, WaitingInv, QueuedInv
<1>6. SuccessIsProvisioned'
  BY <1>1, <1>3, <1>4 DEF SuccessIsProvisioned, Including
<1>7. ChainDecides'
  <2>1. /\ Len(login.asked) <= Len(Selected(auths, Serving)) /\ login.asked # <<>>
        /\ \A k \in DOMAIN login.asked : login.asked[k].by = Selected(auths, Serving)[k]
        /\ \A k \in DOMAIN login.asked :
              k < Len(login.asked) => login.asked[k].verdict = "rejects"
        /\ Last(login.asked).verdict = "accepts"
    BY DEF ChainsInv, ChainDecides
  <2>2. QED
    BY <1>1, <1>3, <2>1 DEF ChainDecides, Serving
<1>8. QED
  BY <1>1, <1>2, <1>3, <1>5, <1>6, <1>7, LoginMoves

(* A login waits for a Deferred that has yet to fire.                      *)
LEMMA WaitingKeeps ==
    ASSUME ChainsInv, UNCHANGED <<conf, start, auths, provs, logins>>,
           login.pc \in {"provisioning", "waiting"}, login.result = "none",
           login'.pc = "waiting", login'.asked = login.asked, login'.result = "none",
           login'.instance = login.instance, login' \in LoginStates, login'.d # "none",
           login'.queued <= login.queued, WaitingInv'
    PROVE  ChainsInv'
<1>1. login.pc # "none"
  OBVIOUS
<1>2. start.phase = "serving" /\ login \in LoginStates /\ logins \in 0..MaxLogins
  BY <1>1, LoggingInServes
<1>3. login.queued \in Nat /\ login'.queued \in Nat
  BY <1>2 DEF LoginStates
<1>4. LoginInv' /\ SuccessIsProvisioned'
  BY <1>3 DEF ChainsInv, LoginInv, AskingInv, ProvisioningInv, QueuedInv, SuccessIsProvisioned
<1>5. ChainDecides'
  BY StaysDecided
<1>6. QED
  BY <1>2, <1>4, <1>5, LoginMoves

LEMMA WaitsKeeps == ASSUME ChainsInv, Waits PROVE ChainsInv'
<1>1. /\ login.pc = "provisioning" /\ login.pc # "none" /\ login.i > Len(provs)
      /\ login.d = "pending" /\ login' = [login EXCEPT !.pc = "waiting"]
      /\ UNCHANGED <<conf, start, auths, provs, logins>>
  BY DEF Waits, Becomes
<1>2. /\ login \in LoginStates /\ login.i \in Nat \ {0} /\ Len(provs) \in Nat
      /\ provs \in Seq(Provisioners)
  BY <1>1, LoggingInServes
<1>3. /\ login'.pc = "waiting" /\ login'.asked = login.asked
      /\ login'.result = login.result /\ login'.instance = login.instance
      /\ login'.ran = login.ran /\ login'.d = "pending" /\ login'.queued = login.queued
      /\ login' \in LoginStates
  BY <1>1, <1>2 DEF LoginStates
<1>4. ProvisioningInv
  BY DEF ChainsInv, LoginInv
<1>5. RunBefore = Selected(provs, Including)
  <2>1. login.i - 1 = Len(provs)
    BY <1>1, <1>2, <1>4 DEF ProvisioningInv
  <2>2. QED
    BY <1>2, <2>1, SubSeqFull DEF RunBefore, Before
<1>6. OnlyTheLastDefers' = OnlyTheLastDefers
  BY <1>1 DEF OnlyTheLastDefers
<1>7. WaitingInv'
  BY <1>1, <1>3, <1>4, <1>5, <1>6 DEF ProvisioningInv, WaitingInv, Including
<1>8. login.queued \in Nat /\ login.result = "none"
  BY <1>1, <1>2, <1>4 DEF LoginStates, ProvisioningInv
<1>9. QED
  BY <1>1, <1>3, <1>7, <1>8, WaitingKeeps

LEMMA FiresKeeps == ASSUME ChainsInv, Fires PROVE ChainsInv'
<1>1. PICK d \in {"fired", "failed"} : Becomes([login EXCEPT !.d = d])
  BY DEF Fires
<1>2. /\ login.pc = "waiting" /\ login.pc # "none" /\ login.d = "pending"
      /\ login' = [login EXCEPT !.d = d]
      /\ UNCHANGED <<conf, start, auths, provs, logins>>
  BY <1>1 DEF Fires, Becomes
<1>3. login \in LoginStates
  BY <1>2, LoggingInServes
<1>4. /\ login'.pc = "waiting" /\ login'.asked = login.asked
      /\ login'.result = login.result /\ login'.instance = login.instance
      /\ login'.ran = login.ran /\ login'.d = d /\ login'.queued = login.queued
      /\ login' \in LoginStates
  BY <1>2, <1>3 DEF LoginStates
<1>5. WaitingInv
  BY DEF ChainsInv, LoginInv
<1>6. OnlyTheLastDefers' = OnlyTheLastDefers
  BY <1>2 DEF OnlyTheLastDefers
<1>7. WaitingInv'
  BY <1>2, <1>4, <1>5, <1>6 DEF WaitingInv, Including
<1>8. login.queued \in Nat /\ login.result = "none"
  BY <1>2, <1>3, <1>5 DEF LoginStates, WaitingInv
<1>9. QED
  BY <1>2, <1>4, <1>7, <1>8, WaitingKeeps

LEMMA RunsQueuedKeeps ==
    ASSUME ChainsInv, NEW ending \in {"fired", "failed", "pending"}, RunsQueued(ending)
    PROVE  ChainsInv'
<1> DEFINE p == login.instance
           ran == Append(login.ran, p)
<1>1. /\ login.pc = "waiting" /\ login.pc # "none" /\ login.d = "fired" /\ login.queued > 0
      /\ login' = [login EXCEPT !.queued = @ - 1, !.ran = ran, !.d = ending]
      /\ UNCHANGED <<conf, start, auths, provs, logins>>
  BY DEF RunsQueued, Becomes
<1>2. login \in LoginStates
  BY <1>1, LoggingInServes
<1>3. WaitingInv /\ p \in Provisioners
  BY <1>1 DEF ChainsInv, LoginInv, QueuedInv
<1>4. /\ login.queued \in Nat /\ login.queued - 1 \in Nat /\ login.ran \in Seq(Provisioners)
      /\ Len(login.ran) \in Nat
  BY <1>1, <1>2, LenProperties DEF LoginStates
<1>5. ran \in Seq(Provisioners) /\ Len(ran) = Len(login.ran) + 1
  BY <1>3, <1>4, AppendProperties
<1> HIDE DEF p, ran
<1>6. /\ login'.pc = "waiting" /\ login'.asked = login.asked
      /\ login'.result = login.result /\ login'.instance = login.instance
      /\ login'.ran = ran /\ login'.d = ending /\ login'.queued = login.queued - 1
  BY <1>1, <1>2 DEF LoginStates
<1>7. login' \in LoginStates
  BY <1>1, <1>2, <1>4, <1>5 DEF LoginStates
<1>8. ~OnlyTheLastDefers /\ login.result = "none"
      /\ Len(login.ran) + login.queued = Len(Selected(provs, Including))
  BY <1>1, <1>3 DEF WaitingInv
<1>9. OnlyTheLastDefers' = OnlyTheLastDefers
  BY <1>1 DEF OnlyTheLastDefers
<1>10. Len(ran) + (login.queued - 1) = Len(Selected(provs, Including))
  BY <1>4, <1>5, <1>8
<1>11. WaitingInv'
  BY <1>1, <1>6, <1>8, <1>9, <1>10 DEF WaitingInv, Including
<1>12. QED
  BY <1>1, <1>4, <1>6, <1>7, <1>8, <1>11, WaitingKeeps

LEMMA FinishesKeeps == ASSUME ChainsInv, Finishes PROVE ChainsInv'
<1>1. login.pc \in {"provisioning", "waiting"} /\ login.pc # "none"
  BY DEF Finishes
<1>2. CASE Becomes(Answers("error"))
  BY <1>1, <1>2, AnswerKeeps
<1>3. CASE login.d \in {"none", "fired"} /\ Becomes(Answers("true"))
  <2>1. CASE login.pc = "provisioning"
    <3>1. /\ login.i > Len(provs) /\ login.i <= Len(provs) + 1
          /\ login.ran = RunBefore
      BY <1>3, <2>1 DEF Finishes, ChainsInv, LoginInv, ProvisioningInv
    <3>2. /\ login.i \in Nat \ {0} /\ Len(provs) \in Nat /\ provs \in Seq(Provisioners)
      BY <1>1, LoggingInServes
    <3>3. login.i - 1 = Len(provs)
      BY <3>1, <3>2
    <3>4. RunBefore = Selected(provs, Including)
      BY <3>2, <3>3, SubSeqFull DEF RunBefore, Before
    <3>5. QED
      BY <1>1, <1>3, <3>1, <3>4, AnswerKeeps
  <2>2. CASE login.pc = "waiting"
    <3>1. /\ login.queued = 0 /\ login.d = "fired"
          /\ Len(login.ran) + login.queued = Len(Selected(provs, Including))
          /\ OnlyTheLastDefers => login.ran = Selected(provs, Including)
      BY <1>3, <2>2 DEF Finishes, ChainsInv, LoginInv, WaitingInv
    <3>2. login \in LoginStates
      BY <1>1, LoggingInServes
    <3>3. Len(login.ran) \in Nat
      BY <3>2, LenProperties DEF LoginStates
    <3>4. QED
      BY <1>1, <1>3, <3>1, <3>3, AnswerKeeps
  <2>3. QED
    BY <1>1, <2>1, <2>2
<1>4. QED
  BY <1>2, <1>3 DEF Finishes

LEMMA ChainsStep == ASSUME ChainsInv, [ChainsNext]_chainVars PROVE ChainsInv'
<1>1. CASE Start
  BY <1>1, NextManagerKeeps, ValidatesKeeps DEF Start
<1>2. CASE Begin
  BY <1>2, BeginKeeps
<1>3. CASE Authenticate
  BY <1>3, SkipsKeeps, NobodyAcceptsKeeps, AsksKeeps DEF Authenticate
<1>4. CASE DoProvisioning
  <2>1. CASE CannotProvision
    BY <2>1, AnswerKeeps DEF CannotProvision, ProvisionsNext
  <2>2. CASE Excludes \/ Queues \/ Waits \/ Fires \/ Finishes
    BY <2>2, ExcludesKeeps, QueuesKeeps, WaitsKeeps, FiresKeeps, FinishesKeeps
  <2>3. ASSUME NEW d \in {"fired", "failed", "pending"}, Provisions(d) \/ RunsQueued(d)
        PROVE  ChainsInv'
    BY <2>3, ProvisionsKeeps, RunsQueuedKeeps
  <2>4. QED
    BY <1>4, <2>1, <2>2, <2>3 DEF DoProvisioning
<1>5. CASE UNCHANGED chainVars
  <2>1. UNCHANGED <<conf, start, auths, provs, login, logins>>
    BY <1>5 DEF chainVars
  <2>2. ChainsTypeOK'
    BY <2>1 DEF ChainsInv, ChainsTypeOK
  <2>3. StartInv' /\ NotBegun'
    BY <2>1 DEF ChainsInv, StartInv, Awaited, AwaitedOrLeft, NotBegun
  <2>4. AskedBefore' = AskedBefore /\ RunBefore' = RunBefore
    BY <2>1 DEF AskedBefore, RunBefore, Serving, Including
  <2>5. OnlyTheLastDefers' = OnlyTheLastDefers
    BY <2>1 DEF OnlyTheLastDefers
  <2>6. AskingInv' /\ QueuedInv'
    BY <2>1, <2>4 DEF ChainsInv, LoginInv, AskingInv, AskedAre, QueuedInv
  <2>7. ProvisioningInv' /\ WaitingInv'
    BY <2>1, <2>4, <2>5 DEF ChainsInv, LoginInv, ProvisioningInv, WaitingInv, Including
  <2>8. ChainDecides'
    BY <2>1 DEF ChainsInv, ChainDecides, Serving
  <2>9. SuccessIsProvisioned'
    BY <2>1, <2>5 DEF ChainsInv, SuccessIsProvisioned, Including
  <2>10. QED
    BY <2>2, <2>3, <2>6, <2>7, <2>8, <2>9 DEF ChainsInv, LoginInv
<1>6. QED
  BY <1>1, <1>2, <1>3, <1>4, <1>5 DEF ChainsNext
-----------------------------------------------------------------------------
(* What the loops over the chains keep, in every state of every login      *)
(* (auth.py:86-113, provisioning.py:86-117).                               *)
THEOREM ChainsAlwaysHold == ChainsSpec => []ChainsInv
<1>1. ChainsInit => ChainsInv
  BY ChainsInitially
<1>2. ChainsInv /\ [ChainsNext]_chainVars => ChainsInv'
  BY ChainsStep
<1>3. QED
  BY <1>1, <1>2, PTL DEF ChainsSpec

(* The chains hold registered components only, and a login is always in    *)
(* one of its stages, of as many logins as there may be.                   *)
THEOREM TypeCorrect == ChainsSpec => []ChainsTypeOK
<1>1. ChainsInv => ChainsTypeOK
  BY DEF ChainsInv
<1>2. QED
  BY <1>1, ChainsAlwaysHold, PTL

(* The agent serves only if every mandatory component it was told to use   *)
(* validated (auth.py:51-74, provisioning.py:61-84, activate_2).           *)
THEOREM MandatoryServe == ChainsSpec => []ServesWithMandatory
<1>1. ChainsInv => ServesWithMandatory
  BY DEF ChainsInv, StartInv, Awaited, ServesWithMandatory
<1>2. QED
  BY <1>1, ChainsAlwaysHold, PTL

(* The first authenticator that accepts, of those who serve the user and   *)
(* in their order, logs the user in, and nobody else (auth.py:86-113).     *)
THEOREM TheChainDecides == ChainsSpec => []ChainDecides
<1>1. ChainsInv => ChainDecides
  BY DEF ChainsInv
<1>2. QED
  BY <1>1, ChainsAlwaysHold, PTL

(* Who is logged in was provisioned by all who do not exclude the user,    *)
(* each of them once and in their order unless one before the last answers *)
(* with a Deferred (provisioning.py:99-117).                               *)
THEOREM SuccessWasProvisioned == ChainsSpec => []SuccessIsProvisioned
<1>1. ChainsInv => SuccessIsProvisioned
  BY DEF ChainsInv
<1>2. QED
  BY <1>1, ChainsAlwaysHold, PTL
=============================================================================
