----------------------------- MODULE ListProofs -----------------------------
(***************************************************************************)
(* Induction, and what the list operators of the modules return: facts     *)
(* about any list, for the proofs about Notebook, Mirror and RunQueue.     *)
(***************************************************************************)
EXTENDS Lists, SequenceTheorems, WellFoundedInduction, TLAPS

-----------------------------------------------------------------------------
(***************************************************************************)
(* Induction.                                                              *)
(***************************************************************************)

\* A set of natural numbers has a least member.
LEMMA Least ==
    ASSUME NEW T, T \subseteq Nat, T # {}
    PROVE  \E n \in T : \A m \in T : ~ (m < n)
  <1> DEFINE R == {ss \in Nat \X Nat : ss[1] < ss[2]}
  <1>1. IsWellFoundedOn(R, Nat)
        BY NatLessThanWellFounded DEF OpToRel
  <1>2. PICK n \in T : \A m \in T : <<m, n>> \notin R
        BY <1>1, WFMin
  <1> QED
        BY <1>2

\* A set that holds 0 and with each number below a bound the next holds all.
LEMMA Induction ==
    ASSUME NEW n \in Nat, NEW T, 0 \in T,
           \A i \in 0 .. n - 1 : i \in T => i + 1 \in T
    PROVE  0 .. n \subseteq T
  <1> DEFINE U == {i \in 0 .. n : i \notin T}
  <1>1. SUFFICES ASSUME U # {} PROVE FALSE
        OBVIOUS
  <1>2. U \subseteq Nat
        OBVIOUS
  <1> HIDE DEF U
  <1>3. PICK k \in U : \A m \in U : ~ (m < k)
        BY <1>1, <1>2, Least
  <1>4. k \in 0 .. n /\ k \notin T
        BY DEF U
  <1>5. k # 0 /\ k - 1 \in 0 .. n - 1 /\ k - 1 < k
        BY <1>4
  <1>6. k - 1 \in T
        BY <1>3, <1>4, <1>5 DEF U
  <1> QED
        BY <1>4, <1>5, <1>6

-----------------------------------------------------------------------------
(***************************************************************************)
(* Lists and their members.                                                *)
(***************************************************************************)

LEMMA AppendMembers ==
    ASSUME NEW T, NEW s \in Seq(T), NEW e \in T
    PROVE  /\ Append(s, e) \in Seq(T)
           /\ ToSet(Append(s, e)) = ToSet(s) \cup {e}
           /\ IsInjective(s) /\ e \notin ToSet(s) => IsInjective(Append(s, e))
  <1>1. /\ Len(Append(s, e)) = Len(s) + 1 /\ Append(s, e) \in Seq(T)
        /\ \A i \in 1 .. Len(s) + 1 : Append(s, e)[i] = IF i = Len(s) + 1 THEN e ELSE s[i]
        OBVIOUS
  <1>2. DOMAIN Append(s, e) = 1 .. Len(s) + 1 /\ DOMAIN s = 1 .. Len(s) /\ Len(s) \in Nat
        BY <1>1
  <1>3. ToSet(Append(s, e)) = ToSet(s) \cup {e}
        BY <1>1, <1>2 DEF ToSet
  <1>4. ASSUME IsInjective(s), e \notin ToSet(s) PROVE IsInjective(Append(s, e))
        BY <1>1, <1>2, <1>4 DEF ToSet, IsInjective
  <1> QED
        BY <1>1, <1>3, <1>4

LEMMA ConcatMembers ==
    ASSUME NEW T, NEW s \in Seq(T), NEW t \in Seq(T)
    PROVE  /\ s \o t \in Seq(T)
           /\ ToSet(s \o t) = ToSet(s) \cup ToSet(t)
           /\ IsInjective(s) /\ IsInjective(t) /\ ToSet(s) \cap ToSet(t) = {}
                 => IsInjective(s \o t)
  <1> DEFINE u == s \o t
  <1>1. /\ u \in Seq(T) /\ Len(u) = Len(s) + Len(t)
        /\ Len(s) \in Nat /\ Len(t) \in Nat
        /\ DOMAIN s = 1 .. Len(s) /\ DOMAIN t = 1 .. Len(t) /\ DOMAIN u = 1 .. Len(u)
        /\ \A i \in 1 .. Len(s) : u[i] = s[i]
        /\ \A i \in 1 .. Len(t) : u[Len(s) + i] = t[i]
        BY ConcatProperties
  <1> HIDE DEF u
  <1>2. \A i \in 1 .. Len(u) :
           \/ i \in 1 .. Len(s) /\ u[i] = s[i]
           \/ i - Len(s) \in 1 .. Len(t) /\ u[i] = t[i - Len(s)]
    <2>1. SUFFICES ASSUME NEW i \in 1 .. Len(u), i \notin 1 .. Len(s)
                   PROVE  i - Len(s) \in 1 .. Len(t) /\ u[i] = t[i - Len(s)]
          BY <1>1
    <2>2. i - Len(s) \in 1 .. Len(t) /\ Len(s) + (i - Len(s)) = i
          BY <1>1, <2>1
    <2> QED
          BY <1>1, <2>2
  <1>3. \A i \in 1 .. Len(t) : Len(s) + i \in 1 .. Len(u)
        BY <1>1
  <1>4. \A i \in 1 .. Len(s) : i \in 1 .. Len(u)
        BY <1>1
  <1>5. ToSet(u) = ToSet(s) \cup ToSet(t)
    <2>1. ToSet(u) \subseteq ToSet(s) \cup ToSet(t)
          BY <1>1, <1>2 DEF ToSet
    <2>2. ToSet(s) \subseteq ToSet(u)
          BY <1>1, <1>4 DEF ToSet
    <2>3. ToSet(t) \subseteq ToSet(u)
          BY <1>1, <1>3 DEF ToSet
    <2> QED
          BY <2>1, <2>2, <2>3
  <1>6. ASSUME IsInjective(s), IsInjective(t), ToSet(s) \cap ToSet(t) = {}
        PROVE  IsInjective(u)
    <2>1. \A i \in 1 .. Len(s), j \in 1 .. Len(t) : s[i] # t[j]
          BY <1>1, <1>6 DEF ToSet
    <2>2. SUFFICES ASSUME NEW i \in 1 .. Len(u), NEW j \in 1 .. Len(u), u[i] = u[j]
                   PROVE  i = j
          BY <1>1 DEF IsInjective
    <2>3. CASE i \in 1 .. Len(s) /\ u[i] = s[i]
      <3>1. CASE j \in 1 .. Len(s) /\ u[j] = s[j]
            BY <1>1, <1>6, <2>2, <2>3, <3>1 DEF IsInjective
      <3>2. CASE j - Len(s) \in 1 .. Len(t) /\ u[j] = t[j - Len(s)]
            BY <2>1, <2>2, <2>3, <3>2
      <3> QED
            BY <1>2, <3>1, <3>2
    <2>4. CASE i - Len(s) \in 1 .. Len(t) /\ u[i] = t[i - Len(s)]
      <3>1. CASE j \in 1 .. Len(s) /\ u[j] = s[j]
            BY <2>1, <2>2, <2>4, <3>1
      <3>2. CASE j - Len(s) \in 1 .. Len(t) /\ u[j] = t[j - Len(s)]
        <4>1. i - Len(s) = j - Len(s)
              BY <1>1, <1>6, <2>2, <2>4, <3>2 DEF IsInjective
        <4> QED
              BY <1>1, <4>1
      <3> QED
            BY <1>2, <3>1, <3>2
    <2> QED
          BY <1>2, <2>3, <2>4
  <1> QED
        BY <1>1, <1>5, <1>6 DEF u

\* The first member and the rest.
LEMMA HeadAndTail ==
    ASSUME NEW T, NEW s \in Seq(T), s # <<>>
    PROVE  /\ Head(s) \in T /\ Tail(s) \in Seq(T)
           /\ ToSet(s) = {Head(s)} \cup ToSet(Tail(s))
           /\ IsInjective(s) => IsInjective(Tail(s)) /\ Head(s) \notin ToSet(Tail(s))
  <1>1. /\ Len(s) \in Nat /\ Len(s) > 0 /\ Head(s) = s[1]
        /\ Tail(s) \in Seq(T) /\ Len(Tail(s)) = Len(s) - 1
        /\ DOMAIN s = 1 .. Len(s) /\ DOMAIN Tail(s) = 1 .. Len(s) - 1
        /\ \A i \in 1 .. Len(s) - 1 : Tail(s)[i] = s[i + 1]
        OBVIOUS
  <1>2. /\ \A i \in 1 .. Len(s) : i = 1 \/ (i - 1 \in 1 .. Len(s) - 1 /\ s[i] = Tail(s)[i - 1])
        /\ \A i \in 1 .. Len(s) - 1 : i + 1 \in 1 .. Len(s)
        /\ 1 \in 1 .. Len(s)
    <2>1. \A i \in 1 .. Len(s) : i = 1 \/ (i - 1 \in 1 .. Len(s) - 1 /\ (i - 1) + 1 = i)
          BY <1>1
    <2> QED
          BY <1>1, <2>1
  <1>3. ToSet(s) = {Head(s)} \cup ToSet(Tail(s))
    <2>1. ASSUME NEW i \in 1 .. Len(s) PROVE s[i] \in {Head(s)} \cup ToSet(Tail(s))
          BY <1>1, <1>2 DEF ToSet
    <2>5. ToSet(s) \subseteq {Head(s)} \cup ToSet(Tail(s))
          BY <1>1, <2>1 DEF ToSet
    <2>2. Head(s) \in ToSet(s)
          BY <1>1, <1>2 DEF ToSet
    <2>3. ASSUME NEW i \in 1 .. Len(s) - 1 PROVE Tail(s)[i] \in ToSet(s)
          BY <1>1, <1>2 DEF ToSet
    <2>4. ToSet(Tail(s)) \subseteq ToSet(s)
          BY <1>1, <2>3 DEF ToSet
    <2> QED
          BY <2>2, <2>4, <2>5
  <1>4. IsInjective(s) => IsInjective(Tail(s)) /\ Head(s) \notin ToSet(Tail(s))
        BY <1>1, <1>2 DEF ToSet, IsInjective
  <1> QED
        BY <1>1, <1>3, <1>4

\* A member put in at a place.
LEMMA InsertMembers ==
    ASSUME NEW T, NEW s \in Seq(T), NEW i \in 1 .. Len(s) + 1, NEW e \in T
    PROVE  /\ InsertAt(s, i, e) \in Seq(T)
           /\ ToSet(InsertAt(s, i, e)) = ToSet(s) \cup {e}
           /\ IsInjective(s) /\ e \notin ToSet(s) => IsInjective(InsertAt(s, i, e))
  <1> DEFINE l == SubSeq(s, 1, i - 1)
             r == SubSeq(s, i, Len(s))
  <1>1. /\ Len(s) \in Nat /\ DOMAIN s = 1 .. Len(s)
        /\ l \in Seq(T) /\ Len(l) = i - 1 /\ DOMAIN l = 1 .. i - 1
        /\ \A k \in 1 .. i - 1 : l[k] = s[k]
        /\ r \in Seq(T) /\ Len(r) = Len(s) - i + 1 /\ DOMAIN r = 1 .. Len(s) - i + 1
        /\ \A k \in 1 .. Len(s) - i + 1 : r[k] = s[i + k - 1]
        BY SubSeqProperties
  <1> HIDE DEF l, r
  <1>2. ToSet(s) = ToSet(l) \cup ToSet(r)
    <2>1. ASSUME NEW k \in 1 .. Len(s) PROVE s[k] \in ToSet(l) \cup ToSet(r)
      <3>1. CASE k < i
        <4>1. k \in 1 .. i - 1
              BY <3>1
        <4> QED
              BY <1>1, <4>1 DEF ToSet
      <3>2. CASE k >= i
        <4>1. k - i + 1 \in 1 .. Len(s) - i + 1 /\ i + (k - i + 1) - 1 = k
              BY <1>1, <3>2
        <4>2. r[k - i + 1] = s[k]
              BY <1>1, <4>1
        <4> QED
              BY <1>1, <4>1, <4>2 DEF ToSet
      <3> QED
            BY <1>1, <3>1, <3>2
    <2>2. ToSet(l) \subseteq ToSet(s)
      <3>1. ASSUME NEW k \in 1 .. i - 1 PROVE l[k] \in ToSet(s)
        <4>1. k \in 1 .. Len(s)
              BY <1>1
        <4> QED
              BY <1>1, <4>1 DEF ToSet
      <3> QED
            BY <1>1, <3>1 DEF ToSet
    <2>3. ToSet(r) \subseteq ToSet(s)
      <3>1. ASSUME NEW k \in 1 .. Len(s) - i + 1 PROVE r[k] \in ToSet(s)
        <4>1. i + k - 1 \in 1 .. Len(s)
              BY <1>1
        <4> QED
              BY <1>1, <4>1 DEF ToSet
      <3> QED
            BY <1>1, <3>1 DEF ToSet
    <2> QED
          BY <1>1, <2>1, <2>2, <2>3 DEF ToSet
  <1> DEFINE m == <<e>>
  <1>3. m \in Seq(T) /\ ToSet(m) = {e} /\ IsInjective(m)
        BY DEF ToSet, IsInjective
  <1> HIDE DEF m
  <1>4. /\ l \o m \in Seq(T)
        /\ ToSet(l \o m) = ToSet(l) \cup {e}
        /\ IsInjective(l) /\ ToSet(l) \cap {e} = {} => IsInjective(l \o m)
        BY <1>1, <1>3, ConcatMembers
  <1> DEFINE q == l \o m
  <1> HIDE DEF q
  <1>5. /\ q \o r \in Seq(T)
        /\ ToSet(q \o r) = ToSet(l) \cup {e} \cup ToSet(r)
        /\ IsInjective(q) /\ IsInjective(r) /\ (ToSet(l) \cup {e}) \cap ToSet(r) = {}
              => IsInjective(q \o r)
    <2>1. q \in Seq(T) /\ ToSet(q) = ToSet(l) \cup {e}
          BY <1>4 DEF q
    <2>2. /\ q \o r \in Seq(T) /\ ToSet(q \o r) = ToSet(q) \cup ToSet(r)
          /\ IsInjective(q) /\ IsInjective(r) /\ ToSet(q) \cap ToSet(r) = {}
                => IsInjective(q \o r)
          BY <1>1, <2>1, ConcatMembers
    <2> QED
          BY <2>1, <2>2
  <1>6. InsertAt(s, i, e) = q \o r
        BY DEF InsertAt, l, r, m, q
  <1>7. ASSUME IsInjective(s)
        PROVE  IsInjective(l) /\ IsInjective(r) /\ ToSet(l) \cap ToSet(r) = {}
    <2>1. IsInjective(l)
      <3>1. \A k \in 1 .. i - 1 : k \in 1 .. Len(s)
            BY <1>1
      <3> QED
            BY <1>1, <1>7, <3>1 DEF IsInjective
    <2>2. \A k \in 1 .. Len(s) - i + 1 : i + k - 1 \in 1 .. Len(s)
          BY <1>1
    <2>3. ASSUME NEW k \in DOMAIN r, NEW n \in DOMAIN r, r[k] = r[n] PROVE k = n
      <3>1. k \in 1 .. Len(s) - i + 1 /\ n \in 1 .. Len(s) - i + 1
            BY <1>1
      <3>2. /\ i + k - 1 \in DOMAIN s /\ i + n - 1 \in DOMAIN s
            /\ s[i + k - 1] = s[i + n - 1]
            BY <1>1, <2>2, <2>3, <3>1
      <3>3. i + k - 1 = i + n - 1
            BY <1>7, <3>2 DEF IsInjective
      <3> QED
            BY <3>1, <3>3
    <2>4. ASSUME NEW k \in 1 .. i - 1, NEW n \in 1 .. Len(s) - i + 1 PROVE l[k] # r[n]
      <3>1. k \in 1 .. Len(s) /\ i + n - 1 \in 1 .. Len(s) /\ k # i + n - 1
            BY <1>1
      <3> QED
            BY <1>1, <1>7, <3>1 DEF IsInjective
    <2> QED
          BY <1>1, <2>1, <2>3, <2>4 DEF IsInjective, ToSet
  <1> QED
        BY <1>2, <1>4, <1>5, <1>6, <1>7 DEF q

\* A member taken out at a place.
LEMMA RemoveMembers ==
    ASSUME NEW T, NEW s \in Seq(T), NEW i \in 1 .. Len(s)
    PROVE  /\ RemoveAt(s, i) \in Seq(T)
           /\ Len(RemoveAt(s, i)) = Len(s) - 1
           /\ IsInjective(s) => IsInjective(RemoveAt(s, i)) /\ s[i] \notin ToSet(RemoveAt(s, i))
  <1> DEFINE l == SubSeq(s, 1, i - 1)
             r == SubSeq(s, i + 1, Len(s))
             u == l \o r
  <1>1. /\ Len(s) \in Nat /\ DOMAIN s = 1 .. Len(s)
        /\ l \in Seq(T) /\ Len(l) = i - 1
        /\ \A k \in 1 .. i - 1 : l[k] = s[k]
        /\ r \in Seq(T) /\ Len(r) = Len(s) - i
        /\ \A k \in 1 .. Len(s) - i : r[k] = s[i + k]
        BY SubSeqProperties
  <1> HIDE DEF l, r
  <1>2. /\ u \in Seq(T) /\ Len(u) = Len(s) - 1 /\ DOMAIN u = 1 .. Len(s) - 1
        /\ \A k \in 1 .. Len(s) - 1 : u[k] = IF k <= i - 1 THEN l[k] ELSE r[k - (i - 1)]
    <2>1. /\ u \in Seq(T) /\ Len(u) = Len(l) + Len(r)
          /\ \A k \in 1 .. Len(l) + Len(r) : u[k] = IF k <= Len(l) THEN l[k] ELSE r[k - Len(l)]
          BY <1>1, ConcatProperties
    <2>2. Len(l) = i - 1 /\ Len(l) + Len(r) = Len(s) - 1
          BY <1>1
    <2> HIDE DEF u
    <2> QED
          BY <1>1, <2>1, <2>2
  <1> HIDE DEF u
  <1>3. ASSUME NEW k \in 1 .. Len(s) - 1
        PROVE  u[k] = s[IF k < i THEN k ELSE k + 1]
    <2>1. CASE k < i
      <3>1. k \in 1 .. i - 1
            BY <2>1
      <3> QED
            BY <1>1, <1>2, <2>1, <3>1
    <2>2. CASE ~ (k < i)
      <3>1. k - (i - 1) \in 1 .. Len(s) - i /\ i + (k - (i - 1)) = k + 1 /\ ~ (k <= i - 1)
            BY <1>1, <2>2
      <3>2. u[k] = r[k - (i - 1)]
            BY <1>2, <3>1
      <3>3. r[k - (i - 1)] = s[i + (k - (i - 1))]
            BY <1>1, <3>1
      <3> QED
            BY <2>2, <3>1, <3>2, <3>3
    <2> QED
          BY <2>1, <2>2
  <1>4. \A k \in 1 .. Len(s) - 1 : (IF k < i THEN k ELSE k + 1) \in 1 .. Len(s)
        BY <1>1
  <1>5. ASSUME IsInjective(s)
        PROVE  IsInjective(u) /\ s[i] \notin ToSet(u)
    <2>1. ASSUME NEW k \in 1 .. Len(s) - 1, NEW n \in 1 .. Len(s) - 1, u[k] = u[n]
          PROVE  k = n
      <3> DEFINE kk == IF k < i THEN k ELSE k + 1
                 nn == IF n < i THEN n ELSE n + 1
      <3>1. kk \in DOMAIN s /\ nn \in DOMAIN s /\ s[kk] = s[nn]
            BY <1>1, <1>3, <1>4, <2>1
      <3> HIDE DEF kk, nn
      <3>2. kk = nn
            BY <1>5, <3>1 DEF IsInjective
      <3> QED
            BY <3>2 DEF kk, nn
    <2>2. ASSUME NEW k \in 1 .. Len(s) - 1 PROVE u[k] # s[i]
      <3> DEFINE kk == IF k < i THEN k ELSE k + 1
      <3>1. kk \in DOMAIN s /\ i \in DOMAIN s /\ u[k] = s[kk]
            BY <1>1, <1>3, <1>4
      <3>2. kk # i
            OBVIOUS
      <3> HIDE DEF kk
      <3> QED
            BY <1>5, <3>1, <3>2 DEF IsInjective
    <2> QED
          BY <1>2, <2>1, <2>2 DEF IsInjective, ToSet
  <1>6. RemoveAt(s, i) = u
        BY DEF RemoveAt, u, l, r
  <1> QED
        BY <1>2, <1>5, <1>6

-----------------------------------------------------------------------------
(***************************************************************************)
(* Lists whose members are of no one type: the frames of a channel.        *)
(***************************************************************************)

IsList(s) == s \in Seq(ToSet(s))

LEMMA ListOfMembers ==
    ASSUME NEW T, NEW s \in Seq(T)
    PROVE  ToSet(s) \subseteq T
  BY DEF ToSet

LEMMA IsListOf ==
    ASSUME NEW T, NEW s \in Seq(T)
    PROVE  /\ IsList(s) /\ Len(s) \in Nat /\ DOMAIN s = 1 .. Len(s)
           /\ \A i \in 1 .. Len(s) : s[i] \in ToSet(s)
           /\ \A e \in ToSet(s) : \E i \in 1 .. Len(s) : e = s[i]
  <1>1. /\ Len(s) \in Nat /\ DOMAIN s = 1 .. Len(s)
        /\ s = [i \in 1 .. Len(s) |-> s[i]]
        OBVIOUS
  <1>2. /\ \A i \in 1 .. Len(s) : s[i] \in ToSet(s)
        /\ \A e \in ToSet(s) : \E i \in 1 .. Len(s) : e = s[i]
        BY <1>1 DEF ToSet
  <1>3. s \in [1 .. Len(s) -> ToSet(s)]
        BY <1>1, <1>2
  <1>4. s \in Seq(ToSet(s))
        BY <1>1, <1>3, SeqDef
  <1> QED
        BY <1>1, <1>2, <1>4 DEF IsList

LEMMA ListAppend ==
    ASSUME NEW s, IsList(s), NEW e
    PROVE  /\ IsList(Append(s, e)) /\ Len(Append(s, e)) = Len(s) + 1
           /\ Append(s, e)[Len(s) + 1] = e
           /\ \A i \in 1 .. Len(s) : Append(s, e)[i] = s[i]
           /\ ToSet(Append(s, e)) = ToSet(s) \cup {e}
           /\ Append(s, e) # <<>>
  <1> DEFINE T == ToSet(s) \cup {e}
  <1>1. s \in Seq(T) /\ e \in T
        BY SeqMonotonic DEF IsList
  <1> HIDE DEF T
  <1>2. Append(s, e) \in Seq(T) /\ ToSet(Append(s, e)) = ToSet(s) \cup {e}
        BY <1>1, AppendMembers
  <1>3. IsList(Append(s, e))
        BY <1>2, IsListOf
  <1>4. /\ Len(Append(s, e)) = Len(s) + 1 /\ Append(s, e) # <<>>
        /\ Append(s, e)[Len(s) + 1] = e
        /\ \A i \in 1 .. Len(s) : Append(s, e)[i] = s[i]
        BY <1>1, AppendProperties
  <1> QED
        BY <1>2, <1>3, <1>4

LEMMA ListConcat ==
    ASSUME NEW s, IsList(s), NEW t, IsList(t)
    PROVE  /\ IsList(s \o t) /\ Len(s \o t) = Len(s) + Len(t)
           /\ \A i \in 1 .. Len(s) : (s \o t)[i] = s[i]
           /\ \A i \in 1 .. Len(t) : (s \o t)[Len(s) + i] = t[i]
           /\ ToSet(s \o t) = ToSet(s) \cup ToSet(t)
           /\ s \o <<>> = s
  <1> DEFINE T == ToSet(s) \cup ToSet(t)
  <1>1. s \in Seq(T) /\ t \in Seq(T)
        BY SeqMonotonic DEF IsList
  <1> HIDE DEF T
  <1>2. /\ s \o t \in Seq(T) /\ Len(s \o t) = Len(s) + Len(t)
        /\ \A i \in 1 .. Len(s) + Len(t) :
              (s \o t)[i] = IF i <= Len(s) THEN s[i] ELSE t[i - Len(s)]
        BY <1>1, ConcatProperties
  <1>3. Len(s) \in Nat /\ Len(t) \in Nat
        BY <1>1
  <1>4. \A i \in 1 .. Len(s) : i \in 1 .. Len(s) + Len(t) /\ i <= Len(s)
        BY <1>3
  <1>5. \A i \in 1 .. Len(t) : /\ Len(s) + i \in 1 .. Len(s) + Len(t)
                               /\ ~ (Len(s) + i <= Len(s)) /\ Len(s) + i - Len(s) = i
        BY <1>3
  <1>6. ToSet(s \o t) = ToSet(s) \cup ToSet(t) /\ IsList(s \o t)
        BY <1>1, <1>2, ConcatMembers, IsListOf
  <1>7. s \o <<>> = s
        BY <1>1, ConcatEmptySeq
  <1> QED
        BY <1>2, <1>4, <1>5, <1>6, <1>7

LEMMA ListTail ==
    ASSUME NEW s, IsList(s), s # <<>>
    PROVE  /\ IsList(Tail(s)) /\ Len(Tail(s)) = Len(s) - 1 /\ Len(s) > 0
           /\ Head(s) = s[1] /\ Head(s) \in ToSet(s)
           /\ \A i \in 1 .. Len(s) - 1 : Tail(s)[i] = s[i + 1]
           /\ ToSet(s) = {Head(s)} \cup ToSet(Tail(s))
  <1>1. s \in Seq(ToSet(s))
        BY DEF IsList
  <1>2. /\ Tail(s) \in Seq(ToSet(s)) /\ Len(Tail(s)) = Len(s) - 1 /\ Len(s) > 0
        /\ Head(s) = s[1]
        /\ \A i \in 1 .. Len(s) - 1 : Tail(s)[i] = s[i + 1]
        BY <1>1
  <1>3. ToSet(s) = {Head(s)} \cup ToSet(Tail(s))
        BY <1>1, HeadAndTail
  <1> QED
        BY <1>2, <1>3, IsListOf

\* What is put at the end, or taken from the front.
LEMMA AppendToRest ==
    ASSUME NEW s, IsList(s), NEW t, IsList(t), NEW e
    PROVE  s \o Append(t, e) = Append(s \o t, e)
  <1> DEFINE T == ToSet(s) \cup ToSet(t) \cup {e}
  <1>1. s \in Seq(T) /\ t \in Seq(T) /\ e \in T /\ <<e>> \in Seq(T)
        BY SeqMonotonic DEF IsList
  <1> HIDE DEF T
  <1>2. Append(t, e) = t \o <<e>>
        BY <1>1, AppendIsConcat
  <1>3. s \o t \in Seq(T)
        BY <1>1, ConcatProperties
  <1>4. Append(s \o t, e) = (s \o t) \o <<e>>
        BY <1>1, <1>3, AppendIsConcat
  <1>5. (s \o t) \o <<e>> = s \o (t \o <<e>>)
        BY <1>1, ConcatAssociative
  <1> QED
        BY <1>2, <1>4, <1>5

LEMMA TailBeforeRest ==
    ASSUME NEW s, IsList(s), NEW t, IsList(t), s # <<>>
    PROVE  /\ s \o t # <<>> /\ Head(s \o t) = Head(s) /\ Tail(s \o t) = Tail(s) \o t
  <1>1. s \in Seq(ToSet(s) \cup ToSet(t)) /\ t \in Seq(ToSet(s) \cup ToSet(t))
        BY SeqMonotonic DEF IsList
  <1> DEFINE T == ToSet(s) \cup ToSet(t)
             u == s \o t
  <1> HIDE DEF T
  <1>2. s \in Seq(T) /\ t \in Seq(T)
        BY <1>1 DEF T
  <1>3. /\ u \in Seq(T) /\ Len(u) = Len(s) + Len(t)
        /\ \A i \in 1 .. Len(s) + Len(t) : u[i] = IF i <= Len(s) THEN s[i] ELSE t[i - Len(s)]
        BY <1>2, ConcatProperties
  <1>4. Len(s) \in Nat /\ Len(t) \in Nat /\ Len(s) > 0
        BY <1>2
  <1> DEFINE v == Tail(s) \o t
  <1>5. /\ Tail(s) \in Seq(T) /\ Len(Tail(s)) = Len(s) - 1
        /\ \A i \in 1 .. Len(s) - 1 : Tail(s)[i] = s[i + 1]
        BY <1>2
  <1>6. /\ v \in Seq(T) /\ Len(v) = Len(s) - 1 + Len(t)
        /\ \A i \in 1 .. Len(s) - 1 + Len(t) :
              v[i] = IF i <= Len(s) - 1 THEN Tail(s)[i] ELSE t[i - (Len(s) - 1)]
        BY <1>2, <1>5, ConcatProperties
  <1> HIDE DEF u, v
  <1>7. u # <<>>
        BY <1>3, <1>4
  <1>8. /\ Tail(u) \in Seq(T) /\ Len(Tail(u)) = Len(u) - 1 /\ Head(u) = u[1]
        /\ \A i \in 1 .. Len(u) - 1 : Tail(u)[i] = u[i + 1]
        BY <1>3, <1>7
  <1>9. Head(u) = Head(s)
    <2>1. 1 \in 1 .. Len(s) + Len(t) /\ 1 <= Len(s) /\ Head(s) = s[1]
          BY <1>2, <1>4
    <2> QED
          BY <1>3, <1>8, <2>1
  <1>10. ASSUME NEW i \in 1 .. Len(v) PROVE Tail(u)[i] = v[i]
    <2>1. /\ i \in 1 .. Len(u) - 1 /\ i + 1 \in 1 .. Len(s) + Len(t)
          /\ i \in 1 .. Len(s) - 1 + Len(t)
          BY <1>3, <1>4, <1>6
    <2>2. Tail(u)[i] = u[i + 1]
          BY <1>8, <2>1
    <2>3. CASE i <= Len(s) - 1
      <3>1. i + 1 <= Len(s) /\ i \in 1 .. Len(s) - 1
            BY <1>4, <2>1, <2>3
      <3> QED
            BY <1>3, <1>5, <1>6, <2>1, <2>2, <2>3, <3>1
    <2>4. CASE ~ (i <= Len(s) - 1)
      <3>1. ~ (i + 1 <= Len(s)) /\ i + 1 - Len(s) = i - (Len(s) - 1)
            BY <1>4, <2>1, <2>4
      <3> QED
            BY <1>3, <1>6, <2>1, <2>2, <2>4, <3>1
    <2> QED
          BY <2>3, <2>4
  <1>11. Tail(u) = v
    <2>1. Len(Tail(u)) = Len(v)
          BY <1>3, <1>4, <1>6, <1>8
    <2> QED
          BY <1>6, <1>8, <1>10, <2>1, SeqEqual
  <1> QED
        BY <1>7, <1>9, <1>11 DEF u, v

-----------------------------------------------------------------------------
(***************************************************************************)
(* Only.                                                                   *)
(***************************************************************************)

\* f holds what Only has kept of s up to each place.
Stages(s, S, f) ==
    f = [i \in 0 .. Len(s) |->
            IF i = 0 THEN <<>>
            ELSE IF s[i] \in S THEN Append(f[i - 1], s[i]) ELSE f[i - 1]]

\* The recursion that defines Only has a solution, stage by stage.
LEMMA StagesExist ==
    ASSUME NEW s, NEW S, Len(s) \in Nat
    PROVE  \E f : Stages(s, S, f)
  <1> DEFINE Good(f, n) == f = [i \in 0 .. n |->
                 IF i = 0 THEN <<>>
                 ELSE IF s[i] \in S THEN Append(f[i - 1], s[i]) ELSE f[i - 1]]
             T == {n \in Nat : \E f : Good(f, n)}
  <1>1. 0 \in T
    <2>1. Good([i \in 0 .. 0 |-> <<>>], 0)
          OBVIOUS
    <2> QED
          BY <2>1
  <1>2. ASSUME NEW n \in Nat, n \in T PROVE n + 1 \in T
    <2>1. PICK f : Good(f, n)
          BY <1>2
    <2> DEFINE g == [i \in 0 .. n + 1 |->
                        IF i \in 0 .. n THEN f[i]
                        ELSE IF s[n + 1] \in S THEN Append(f[n], s[n + 1]) ELSE f[n]]
    <2>2. /\ \A i \in 0 .. n : g[i] = f[i]
          /\ g[n + 1] = IF s[n + 1] \in S THEN Append(f[n], s[n + 1]) ELSE f[n]
          /\ g = [i \in 0 .. n + 1 |-> g[i]]
          OBVIOUS
    <2>3. \A i \in 0 .. n : f[i] = IF i = 0 THEN <<>>
                 ELSE IF s[i] \in S THEN Append(f[i - 1], s[i]) ELSE f[i - 1]
          BY <2>1
    <2> HIDE DEF g
    <2>4. \A i \in 0 .. n + 1 : g[i] =
                 IF i = 0 THEN <<>>
                 ELSE IF s[i] \in S THEN Append(g[i - 1], s[i]) ELSE g[i - 1]
      <3>1. SUFFICES ASSUME NEW i \in 0 .. n + 1
                     PROVE  g[i] = IF i = 0 THEN <<>>
                            ELSE IF s[i] \in S THEN Append(g[i - 1], s[i]) ELSE g[i - 1]
            OBVIOUS
      <3>2. CASE i = n + 1
        <4>1. i - 1 \in 0 .. n /\ i - 1 = n /\ i # 0
              BY <3>2
        <4> QED
              BY <2>2, <3>2, <4>1
      <3>3. CASE i = 0
        <4>1. i \in 0 .. n
              BY <3>3
        <4> QED
              BY <2>2, <2>3, <3>3, <4>1
      <3>4. CASE i \in 1 .. n
        <4>1. i \in 0 .. n /\ i - 1 \in 0 .. n /\ i # 0
              BY <3>4
        <4> QED
              BY <2>2, <2>3, <4>1
      <3> QED
            BY <3>2, <3>3, <3>4
    <2>5. Good(g, n + 1)
          BY <2>2, <2>4, Zenon
    <2>6. n + 1 \in Nat
          OBVIOUS
    <2> HIDE DEF Good
    <2> QED
          BY <2>5, <2>6
  <1> HIDE DEF T
  <1>3. 0 .. Len(s) \subseteq T
        BY <1>1, <1>2, Induction
  <1> QED
        BY <1>3 DEF T, Stages

LEMMA OnlyStages ==
    ASSUME NEW s, NEW S, Len(s) \in Nat
    PROVE  \E f : Stages(s, S, f) /\ Only(s, S) = f[Len(s)]
  <1> DEFINE f == CHOOSE f : Stages(s, S, f)
  <1>1. Stages(s, S, f)
        BY StagesExist
  <1>2. Only(s, S) = f[Len(s)]
        BY DEF Only, Stages
  <1> QED
        BY <1>1, <1>2

LEMMA StageStep ==
    ASSUME NEW T, NEW s \in Seq(T), NEW S, NEW f, Stages(s, S, f)
    PROVE  /\ f[0] = <<>>
           /\ \A i \in 0 .. Len(s) - 1 :
                 /\ i + 1 \in 1 .. Len(s) /\ s[i + 1] \in T
                 /\ f[i + 1] = IF s[i + 1] \in S THEN Append(f[i], s[i + 1]) ELSE f[i]
  <1>1. 0 \in 0 .. Len(s) /\ Len(s) \in Nat
        OBVIOUS
  <1>2. f[0] = <<>>
        BY <1>1 DEF Stages
  <1>3. ASSUME NEW i \in 0 .. Len(s) - 1
        PROVE  f[i + 1] = IF s[i + 1] \in S THEN Append(f[i], s[i + 1]) ELSE f[i]
    <2>1. i + 1 \in 0 .. Len(s) /\ i + 1 # 0 /\ i + 1 - 1 = i
          OBVIOUS
    <2>2. \A k \in 0 .. Len(s) :
             f[k] = IF k = 0 THEN <<>>
                    ELSE IF s[k] \in S THEN Append(f[k - 1], s[k]) ELSE f[k - 1]
          BY Zenon DEF Stages
    <2> QED
          BY <2>1, <2>2
  <1> QED
        BY <1>2, <1>3

\* What each stage holds: the members of S among those up to there.
LEMMA StageHolds ==
    ASSUME NEW T, NEW s \in Seq(T), NEW S, NEW f, Stages(s, S, f)
    PROVE  \A n \in 0 .. Len(s) :
              /\ f[n] \in Seq(T)
              /\ ToSet(f[n]) = {s[i] : i \in 1 .. n} \cap S
              /\ IsInjective(s) => IsInjective(f[n])
  <1> DEFINE Holds(n) == /\ f[n] \in Seq(T)
                         /\ ToSet(f[n]) = {s[i] : i \in 1 .. n} \cap S
                         /\ IsInjective(s) => IsInjective(f[n])
             G == {n \in Nat : Holds(n)}
  <1>1. Holds(0)
    <2>1. f[0] = <<>> /\ {s[i] : i \in 1 .. 0} = {} /\ <<>> \in Seq(T)
          BY StageStep
    <2>2. ToSet(<<>>) = {} /\ IsInjective(<<>>)
          BY DEF ToSet, IsInjective
    <2> QED
          BY <2>1, <2>2
  <1>2. ASSUME NEW n \in 0 .. Len(s) - 1, Holds(n) PROVE Holds(n + 1)
    <2>1. /\ n + 1 \in 1 .. Len(s) /\ s[n + 1] \in T /\ n \in Nat
          /\ f[n + 1] = IF s[n + 1] \in S THEN Append(f[n], s[n + 1]) ELSE f[n]
          BY StageStep
    <2>2. {s[i] : i \in 1 .. n + 1} = {s[i] : i \in 1 .. n} \cup {s[n + 1]}
          BY <2>1
    <2>3. CASE s[n + 1] \in S
      <3>1. f[n + 1] = Append(f[n], s[n + 1])
            BY <2>1, <2>3
      <3>2. /\ f[n + 1] \in Seq(T)
            /\ ToSet(f[n + 1]) = ToSet(f[n]) \cup {s[n + 1]}
            /\ IsInjective(f[n]) /\ s[n + 1] \notin ToSet(f[n]) => IsInjective(f[n + 1])
            BY <1>2, <2>1, <3>1, AppendMembers
      <3>3. IsInjective(s) => s[n + 1] \notin {s[i] : i \in 1 .. n}
            BY <2>1 DEF IsInjective
      <3> QED
            BY <1>2, <2>2, <2>3, <3>2, <3>3
    <2>4. CASE s[n + 1] \notin S
          BY <1>2, <2>1, <2>2, <2>4
    <2> QED
          BY <2>3, <2>4
  <1> HIDE DEF Holds
  <1>3. 0 \in G /\ \A n \in 0 .. Len(s) - 1 : n \in G => n + 1 \in G
        BY <1>1, <1>2
  <1> HIDE DEF G
  <1>4. 0 .. Len(s) \subseteq G
        BY <1>3, Induction
  <1> QED
        BY <1>4 DEF G, Holds

\* What is left are the members of S, each as often as it was there.
LEMMA OnlyMembers ==
    ASSUME NEW T, NEW s \in Seq(T), NEW S
    PROVE  /\ Only(s, S) \in Seq(T)
           /\ ToSet(Only(s, S)) = ToSet(s) \cap S
           /\ IsInjective(s) => IsInjective(Only(s, S))
  <1>1. PICK f : Stages(s, S, f) /\ Only(s, S) = f[Len(s)]
        BY OnlyStages
  <1>2. ToSet(s) = {s[i] : i \in 1 .. Len(s)}
        BY DEF ToSet
  <1>3. Len(s) \in 0 .. Len(s)
        OBVIOUS
  <1>4. /\ f[Len(s)] \in Seq(T)
        /\ ToSet(f[Len(s)]) = {s[i] : i \in 1 .. Len(s)} \cap S
        /\ IsInjective(s) => IsInjective(f[Len(s)])
        BY <1>1, <1>3, StageHolds
  <1> QED
        BY <1>1, <1>2, <1>4

LEMMA WithoutMembers ==
    ASSUME NEW T, NEW s \in Seq(T), NEW S
    PROVE  /\ Without(s, S) \in Seq(T)
           /\ ToSet(Without(s, S)) = ToSet(s) \ S
           /\ IsInjective(s) => IsInjective(Without(s, S))
  BY OnlyMembers DEF Without
=============================================================================
