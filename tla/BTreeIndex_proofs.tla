-------------------------- MODULE BTreeIndex_proofs --------------------------
(***************************************************************************)
(* What the operations of a node do to its entries: which are in it and    *)
(* in what order; and invariants of BTreeIndex for nodes of any capacity   *)
(* that the assumption allows and any number of insertions.                *)
(***************************************************************************)
EXTENDS BTreeIndex, SequenceTheorems, WellFoundedInduction, TLAPS

NodeEntries == [key : Int, ptr : Nat]
Nodes == [kind : {"leaf", "inner"}, entries : Seq(NodeEntries), next : Nat]
-----------------------------------------------------------------------------
(* Induction over the natural numbers, as a fact about sets of them.       *)

LEMMA Least ==
  ASSUME NEW S, S \subseteq Nat, S # {}
  PROVE  \E x \in S : \A y \in S : x <= y
<1> DEFINE R == {ss \in Nat \X Nat : ss[1] < ss[2]}
<1>1. IsWellFoundedOn(R, Nat)
  BY NatLessThanWellFounded DEF OpToRel
<1>2. \A x, y \in S : <<y, x>> \in R <=> y < x
  OBVIOUS
<1> HIDE DEF R
<1>3. PICK x \in S : \A y \in S : ~ (<<y, x>> \in R)
  BY <1>1, WFMin
<1>4. \A y \in S : ~(y < x)
  BY <1>2, <1>3
<1> QED BY <1>4

LEMMA Induction ==
  ASSUME NEW S, 0 \in S, \A n \in Nat : n \in S => n + 1 \in S
  PROVE  Nat \subseteq S
<1> DEFINE T == Nat \ S
<1> SUFFICES ASSUME T # {} PROVE FALSE
  OBVIOUS
<1>1. PICK x \in T : \A y \in T : x <= y
  BY Least
<1>2. x \in Nat /\ x # 0
  BY <1>1
<1>3. x - 1 \in Nat /\ ~(x <= x - 1)
  BY <1>2
<1>4. x - 1 \in S
  BY <1>1, <1>3
<1>5. (x - 1) + 1 \in S
  BY <1>3, <1>4
<1>6. (x - 1) + 1 = x
  BY <1>2
<1> QED BY <1>1, <1>5, <1>6
-----------------------------------------------------------------------------
(* Positions.                                                              *)

LEMMA KeysAreInts ==
  ASSUME NEW s \in Seq(NodeEntries)
  PROVE  \A i \in 1 .. Len(s) : s[i] \in NodeEntries /\ s[i].key \in Int
<1>1. \A i \in 1 .. Len(s) : s[i] \in NodeEntries
  BY ElementOfSeq
<1>2. \A e \in NodeEntries : e.key \in Int
  BY DEF NodeEntries
<1> QED BY <1>1, <1>2

LEMMA BelowFacts ==
  ASSUME NEW s \in Seq(NodeEntries), NEW k \in Int
  PROVE  /\ Below(s, k) \in 0 .. Len(s)
         /\ \A i \in 1 .. Below(s, k) : s[i].key < k
         /\ Below(s, k) < Len(s) => s[Below(s, k) + 1].key >= k
<1> DEFINE T == {n \in 0 .. Len(s) : n < Len(s) => s[n + 1].key >= k}
<1>1. Len(s) \in T /\ T \subseteq Nat
  OBVIOUS
<1>2. PICK n \in T : \A m \in T : n <= m
  BY <1>1, Least
<1>3. ASSUME NEW i \in 1 .. n PROVE s[i].key < k
  <2>1. i - 1 \in 0 .. Len(s) /\ i - 1 < Len(s) /\ ~(n <= i - 1)
    BY <1>2
  <2>2. i - 1 \notin T
    BY <1>2, <2>1
  <2>3. (i - 1) + 1 = i /\ s[i].key \in Int
    BY <2>1, KeysAreInts
  <2> QED BY <2>1, <2>2, <2>3
<1>4. \E m \in 0 .. Len(s) :
        (\A i \in 1 .. m : s[i].key < k) /\ (m < Len(s) => s[m + 1].key >= k)
  BY <1>2, <1>3
<1> QED BY <1>4 DEF Below

LEMMA UpToFacts ==
  ASSUME NEW s \in Seq(NodeEntries), NEW k \in Int
  PROVE  /\ UpTo(s, k) \in 0 .. Len(s)
         /\ \A i \in 1 .. UpTo(s, k) : s[i].key <= k
         /\ UpTo(s, k) < Len(s) => s[UpTo(s, k) + 1].key > k
<1> DEFINE T == {n \in 0 .. Len(s) : n < Len(s) => s[n + 1].key > k}
<1>1. Len(s) \in T /\ T \subseteq Nat
  OBVIOUS
<1>2. PICK n \in T : \A m \in T : n <= m
  BY <1>1, Least
<1>3. ASSUME NEW i \in 1 .. n PROVE s[i].key <= k
  <2>1. i - 1 \in 0 .. Len(s) /\ i - 1 < Len(s) /\ ~(n <= i - 1)
    BY <1>2
  <2>2. i - 1 \notin T
    BY <1>2, <2>1
  <2>3. (i - 1) + 1 = i /\ s[i].key \in Int
    BY <2>1, KeysAreInts
  <2> QED BY <2>1, <2>2, <2>3
<1>4. \E m \in 0 .. Len(s) :
        (\A i \in 1 .. m : s[i].key <= k) /\ (m < Len(s) => s[m + 1].key > k)
  BY <1>2, <1>3
<1> QED BY <1>4 DEF UpTo
-----------------------------------------------------------------------------
(* Insertion.                                                              *)

\* An entry at position p, the rest moved up by one.
LEMMA InsertAtFacts ==
  ASSUME NEW s \in Seq(NodeEntries), NEW e \in NodeEntries, NEW p \in 1 .. Len(s) + 1
  PROVE  /\ InsertAt(s, p, e) \in Seq(NodeEntries)
         /\ Len(InsertAt(s, p, e)) = Len(s) + 1
         /\ \A i \in 1 .. Len(s) + 1 :
              InsertAt(s, p, e)[i] = IF i < p THEN s[i] ELSE IF i = p THEN e ELSE s[i - 1]
<1> DEFINE a == SubSeq(s, 1, p - 1)
           b == SubSeq(s, p, Len(s))
<1>1. /\ a \in Seq(NodeEntries) /\ Len(a) = p - 1
      /\ \A i \in 1 .. p - 1 : a[i] = s[i]
  OBVIOUS
<1>2. /\ b \in Seq(NodeEntries) /\ Len(b) = Len(s) - p + 1
      /\ \A i \in 1 .. Len(s) - p + 1 : b[i] = s[p + i - 1]
  OBVIOUS
<1> DEFINE c == a \o <<e>>
<1> HIDE DEF a, b
<1>3. /\ c \in Seq(NodeEntries) /\ Len(c) = p
      /\ \A i \in 1 .. p : c[i] = IF i < p THEN s[i] ELSE e
  <2>1. /\ <<e>> \in Seq(NodeEntries) /\ Len(<<e>>) = 1 /\ <<e>>[1] = e
    OBVIOUS
  <2>2. /\ c \in Seq(NodeEntries) /\ Len(c) = Len(a) + Len(<<e>>)
        /\ \A i \in 1 .. Len(a) + Len(<<e>>) :
             c[i] = IF i <= Len(a) THEN a[i] ELSE <<e>>[i - Len(a)]
    BY <1>1, <2>1, ConcatProperties
  <2> DEFINE k == Len(s)
             x == <<e>>
  <2>3. k \in Nat /\ p \in 1 .. k + 1
    OBVIOUS
  <2>4. Len(x) = 1 /\ x[1] = e /\ Len(a) = p - 1 /\ Len(c) = Len(a) + Len(x)
        /\ \A i \in 1 .. Len(a) + Len(x) : c[i] = IF i <= Len(a) THEN a[i] ELSE x[i - Len(a)]
    BY <1>1, <2>1, <2>2
  <2> HIDE DEF k, x, c
  <2>5. Len(c) = p /\ \A i \in 1 .. p : c[i] = IF i <= p - 1 THEN a[i] ELSE x[i - (p - 1)]
    BY <2>3, <2>4
  <2>6. ASSUME NEW i \in 1 .. p PROVE c[i] = IF i < p THEN s[i] ELSE e
    <3>1. CASE i < p
      <4>1. i \in 1 .. p - 1
        BY <2>3, <3>1
      <4> QED BY <1>1, <2>3, <2>5, <3>1, <4>1
    <3>2. CASE i = p
      <4>1. ~(p <= p - 1) /\ p - (p - 1) = 1
        BY <2>3
      <4> QED BY <2>4, <2>5, <3>2, <4>1
    <3> QED BY <2>3, <3>1, <3>2
  <2> QED BY <2>2, <2>5, <2>6
<1> HIDE DEF c
<1>4. /\ c \o b \in Seq(NodeEntries) /\ Len(c \o b) = Len(c) + Len(b)
      /\ \A i \in 1 .. Len(c) + Len(b) :
           (c \o b)[i] = IF i <= Len(c) THEN c[i] ELSE b[i - Len(c)]
  BY <1>2, <1>3, ConcatProperties
<1>5. ASSUME NEW i \in 1 .. Len(s) + 1
      PROVE  (c \o b)[i] = IF i < p THEN s[i] ELSE IF i = p THEN e ELSE s[i - 1]
  <2>1. CASE i <= p
    BY <1>2, <1>3, <1>4, <2>1
  <2>2. CASE i > p
    <3>1. (c \o b)[i] = b[i - p]
      BY <1>2, <1>3, <1>4, <2>2
    <3>2. i - p \in 1 .. Len(s) - p + 1 /\ p + (i - p) - 1 = i - 1
      BY <2>2
    <3>3. b[i - p] = s[i - 1]
      BY <1>2, <3>2
    <3> QED BY <3>1, <3>3, <2>2
  <2>3. i <= p \/ i > p
    OBVIOUS
  <2> HIDE DEF b
  <2> QED BY <2>1, <2>2, <2>3, Zenon
<1>6. InsertAt(s, p, e) = c \o b
  BY DEF InsertAt, a, b, c
<1>7. Len(c \o b) = Len(s) + 1
  BY <1>2, <1>3, <1>4
<1> QED BY <1>4, <1>5, <1>6, <1>7

LEMMA PutFacts ==
  ASSUME NEW s \in Seq(NodeEntries), NEW e \in NodeEntries, NEW kind
  PROVE  /\ Put(kind, s, e) \in Seq(NodeEntries)
         /\ Len(Put(kind, s, e)) = Len(s) + 1
         /\ ToSet(Put(kind, s, e)) = ToSet(s) \cup {e}
         /\ SortedKeys(s) => SortedKeys(Put(kind, s, e))
<1> DEFINE p == IF kind = "leaf" THEN Below(s, e.key) + 1 ELSE UpTo(s, e.key) + 1
           t == InsertAt(s, p, e)
<1>1. e.key \in Int
  BY DEF NodeEntries
<1>2. /\ p \in 1 .. Len(s) + 1
      /\ \A i \in 1 .. p - 1 : s[i].key <= e.key
      /\ p <= Len(s) => s[p].key >= e.key
  <2>1. CASE kind = "leaf"
    <3> DEFINE b == Below(s, e.key)
    <3>1. p = b + 1 /\ b \in 0 .. Len(s)
      BY <1>1, <2>1, BelowFacts
    <3>2. /\ \A i \in 1 .. b : s[i].key < e.key
          /\ b < Len(s) => s[b + 1].key >= e.key
      BY <1>1, BelowFacts
    <3> HIDE DEF p, b
    <3> QED BY <1>1, <3>1, <3>2, KeysAreInts
  <2>2. CASE kind # "leaf"
    <3> DEFINE b == UpTo(s, e.key)
    <3>1. p = b + 1 /\ b \in 0 .. Len(s)
      BY <1>1, <2>2, UpToFacts
    <3>2. /\ \A i \in 1 .. b : s[i].key <= e.key
          /\ b < Len(s) => s[b + 1].key > e.key
      BY <1>1, UpToFacts
    <3> HIDE DEF p, b
    <3> QED BY <1>1, <3>1, <3>2, KeysAreInts
  <2> QED BY <2>1, <2>2
<1>3. t = Put(kind, s, e)
  BY DEF Put, LeafPut, InnerPut
<1> HIDE DEF p
<1>4. /\ t \in Seq(NodeEntries) /\ Len(t) = Len(s) + 1
      /\ \A i \in 1 .. Len(s) + 1 :
           t[i] = IF i < p THEN s[i] ELSE IF i = p THEN e ELSE s[i - 1]
  BY <1>2, InsertAtFacts
<1> HIDE DEF t
<1>5. ToSet(t) = ToSet(s) \cup {e}
  <2>1. ASSUME NEW x \in ToSet(t) PROVE x \in ToSet(s) \cup {e}
    <3>1. PICK i \in 1 .. Len(s) + 1 : x = t[i]
      BY <1>4, <2>1 DEF ToSet
    <3>2. CASE i < p
      BY <1>2, <1>4, <3>1, <3>2 DEF ToSet
    <3>3. CASE i = p
      BY <1>4, <3>1, <3>3
    <3>4. CASE i > p
      <4>1. x = s[i - 1] /\ i - 1 \in 1 .. Len(s)
        BY <1>2, <1>4, <3>1, <3>4
      <4> QED BY <4>1 DEF ToSet
    <3> QED BY <1>2, <3>2, <3>3, <3>4
  <2>2. ASSUME NEW x \in ToSet(s) PROVE x \in ToSet(t)
    <3>1. PICK i \in 1 .. Len(s) : x = s[i]
      BY <2>2 DEF ToSet
    <3>2. CASE i < p
      <4>1. x = t[i] /\ i \in 1 .. Len(t)
        BY <1>2, <1>4, <3>1, <3>2
      <4> QED BY <4>1 DEF ToSet
    <3>3. CASE i >= p
      <4>1. x = t[i + 1] /\ i + 1 \in 1 .. Len(t)
        <5>1. i + 1 \in 1 .. Len(s) + 1 /\ ~(i + 1 < p) /\ i + 1 # p /\ (i + 1) - 1 = i
          BY <1>2, <3>1, <3>3
        <5> QED BY <1>4, <3>1, <5>1
      <4> QED BY <4>1 DEF ToSet
    <3> QED BY <1>2, <3>2, <3>3
  <2>3. e \in ToSet(t)
    <3>1. e = t[p] /\ p \in 1 .. Len(t)
      BY <1>2, <1>4
    <3> QED BY <3>1 DEF ToSet
  <2> QED BY <2>1, <2>2, <2>3
<1>6. ASSUME SortedKeys(s) PROVE SortedKeys(t)
  <2> SUFFICES ASSUME NEW i \in 1 .. Len(s) + 1, NEW j \in 1 .. Len(s) + 1, i < j
               PROVE  t[i].key <= t[j].key
    BY <1>4 DEF SortedKeys
  <2>1. \A m \in 1 .. Len(s) : s[m].key \in Int
    BY KeysAreInts
  <2>2. \A m \in 1 .. Len(s) : m >= p => s[m].key >= e.key
    <3> SUFFICES ASSUME NEW m \in 1 .. Len(s), m >= p PROVE s[m].key >= e.key
      OBVIOUS
    <3>1. p \in 1 .. Len(s) /\ s[p].key >= e.key
      BY <1>2
    <3>2. p = m \/ s[p].key <= s[m].key
      BY <1>2, <1>6, <3>1 DEF SortedKeys
    <3> QED BY <1>1, <2>1, <3>1, <3>2
  <2>3. CASE j < p
    <3>1. t[i] = s[i] /\ t[j] = s[j] /\ i \in 1 .. Len(s) /\ j \in 1 .. Len(s)
      BY <1>2, <1>4, <2>3
    <3> QED BY <1>6, <3>1 DEF SortedKeys
  <2>4. CASE j = p
    <3>1. t[i] = s[i] /\ t[j] = e /\ i \in 1 .. p - 1
      BY <1>2, <1>4, <2>4
    <3> QED BY <1>2, <3>1
  <2>5. CASE j > p
    <3>1. t[j] = s[j - 1] /\ j - 1 \in 1 .. Len(s) /\ j - 1 >= p
      BY <1>2, <1>4, <2>5
    <3>2. CASE i < p
      <4>1. t[i] = s[i] /\ i \in 1 .. Len(s) /\ i < j - 1
        BY <1>2, <1>4, <3>1, <3>2
      <4> QED BY <1>6, <3>1, <4>1 DEF SortedKeys
    <3>3. CASE i = p
      <4>1. t[i] = e
        BY <1>4, <3>3
      <4> QED BY <1>1, <2>1, <2>2, <3>1, <4>1
    <3>4. CASE i > p
      <4>1. t[i] = s[i - 1] /\ i - 1 \in 1 .. Len(s) /\ i - 1 < j - 1
        BY <1>2, <1>4, <3>1, <3>4
      <4> QED BY <1>6, <3>1, <4>1 DEF SortedKeys
    <3> QED BY <1>2, <3>2, <3>3, <3>4
  <2> QED BY <1>2, <2>3, <2>4, <2>5
<1> QED BY <1>3, <1>4, <1>5, <1>6
\* Where the entry is: an equal key is behind it in a leaf, before it in a
\* nonleaf node.
PutAt(kind, s, e, p) ==
  /\ \A i \in 1 .. Len(s) + 1 : Put(kind, s, e)[i] =
       IF i < p THEN s[i] ELSE IF i = p THEN e ELSE s[i - 1]
  /\ \A i \in 1 .. Len(s) : IF i < p THEN s[i].key <= e.key ELSE s[i].key >= e.key
  /\ kind # "leaf" => \A i \in p .. Len(s) : s[i].key > e.key

LEMMA PutPlace ==
  ASSUME NEW s \in Seq(NodeEntries), SortedKeys(s), NEW e \in NodeEntries, NEW kind
  PROVE  \E p \in 1 .. Len(s) + 1 : PutAt(kind, s, e, p)
<1> DEFINE b == IF kind = "leaf" THEN Below(s, e.key) ELSE UpTo(s, e.key)
<1>1. e.key \in Int /\ Len(s) \in Nat /\ \A i \in 1 .. Len(s) : s[i].key \in Int
  BY KeysAreInts DEF NodeEntries
<1>2. /\ b \in 0 .. Len(s)
      /\ \A i \in 1 .. b : s[i].key <= e.key
      /\ b < Len(s) => s[b + 1].key >= e.key
      /\ kind # "leaf" /\ b < Len(s) => s[b + 1].key > e.key
  <2>1. CASE kind = "leaf"
    <3> DEFINE c == Below(s, e.key)
    <3>1. b = c
      BY <2>1
    <3>2. /\ c \in 0 .. Len(s)
          /\ \A i \in 1 .. c : s[i].key < e.key
          /\ c < Len(s) => s[c + 1].key >= e.key
      BY <1>1, BelowFacts
    <3> HIDE DEF b, c
    <3> QED BY <1>1, <2>1, <3>1, <3>2
  <2>2. CASE kind # "leaf"
    <3> DEFINE c == UpTo(s, e.key)
    <3>1. b = c
      BY <2>2
    <3>2. /\ c \in 0 .. Len(s)
          /\ \A i \in 1 .. c : s[i].key <= e.key
          /\ c < Len(s) => s[c + 1].key > e.key
      BY <1>1, UpToFacts
    <3> HIDE DEF b, c
    <3> QED BY <1>1, <3>1, <3>2
  <2> QED BY <2>1, <2>2
<1> DEFINE at == b + 1
<1>3. Put(kind, s, e) = InsertAt(s, at, e)
  BY DEF Put, LeafPut, InnerPut
<1> HIDE DEF b
<1>4. at \in 1 .. Len(s) + 1
  BY <1>1, <1>2
<1>5. \A i \in 1 .. Len(s) + 1 : Put(kind, s, e)[i] =
        IF i < at THEN s[i] ELSE IF i = at THEN e ELSE s[i - 1]
  <2> DEFINE t == InsertAt(s, at, e)
  <2> HIDE DEF at
  <2>1. \A i \in 1 .. Len(s) + 1 :
          t[i] = IF i < at THEN s[i] ELSE IF i = at THEN e ELSE s[i - 1]
    BY <1>4, InsertAtFacts
  <2>2. Put(kind, s, e) = t
    BY <1>3
  <2> HIDE DEF t
  <2> QED BY <2>1, <2>2
<1>6. ASSUME NEW i \in b + 1 .. Len(s)
      PROVE  s[i].key >= e.key /\ (kind # "leaf" => s[i].key > e.key)
  <2>1. b < Len(s) /\ b + 1 \in 1 .. Len(s) /\ i \in 1 .. Len(s) /\ (b + 1 = i \/ b + 1 < i)
    BY <1>1, <1>2
  <2>2. s[b + 1].key <= s[i].key
    BY <1>1, <2>1 DEF SortedKeys
  <2> QED BY <1>1, <1>2, <2>1, <2>2
<1>7. \A i \in 1 .. Len(s) : IF i < at THEN s[i].key <= e.key ELSE s[i].key >= e.key
  BY <1>1, <1>2, <1>6
<1> QED BY <1>4, <1>5, <1>6, <1>7 DEF PutAt

\* An entry that is new to a node without equal entries leaves it so.
LEMMA PutOnce ==
  ASSUME NEW s \in Seq(NodeEntries), SortedKeys(s), NEW e \in NodeEntries, NEW kind,
         IsInjective(s), e \notin ToSet(s)
  PROVE  IsInjective(Put(kind, s, e))
<1> DEFINE t == Put(kind, s, e)
<1>0. PICK p \in 1 .. Len(s) + 1 : PutAt(kind, s, e, p)
  BY PutPlace
<1>1. \A i \in 1 .. Len(s) + 1 :
        t[i] = IF i < p THEN s[i] ELSE IF i = p THEN e ELSE s[i - 1]
  BY <1>0 DEF PutAt
<1>2. t \in Seq(NodeEntries) /\ Len(t) = Len(s) + 1 /\ Len(s) \in Nat
  BY PutFacts
<1> HIDE DEF t
<1>3. DOMAIN s = 1 .. Len(s) /\ DOMAIN t = 1 .. Len(s) + 1
  BY <1>2
<1>4. \A i, j \in 1 .. Len(s) : s[i] = s[j] => i = j
  BY <1>3 DEF IsInjective
<1>5. \A i \in 1 .. Len(s) : s[i] # e
  BY <1>3 DEF ToSet
<1>6. ASSUME NEW i \in 1 .. Len(s) + 1, NEW j \in 1 .. Len(s) + 1, i < j
      PROVE  t[i] # t[j]
  <2>1. CASE j < p
    BY <1>1, <1>2, <1>4, <1>6, <2>1
  <2>2. CASE j = p
    BY <1>1, <1>2, <1>5, <1>6, <2>2
  <2>3. CASE j > p /\ i < p
    <3>1. t[i] = s[i] /\ t[j] = s[j - 1] /\ i \in 1 .. Len(s) /\ j - 1 \in 1 .. Len(s) /\ i # j - 1
      BY <1>1, <1>2, <1>6, <2>3
    <3> QED BY <1>4, <3>1
  <2>4. CASE j > p /\ i = p
    <3>1. t[i] = e /\ t[j] = s[j - 1] /\ j - 1 \in 1 .. Len(s)
      BY <1>1, <1>2, <1>6, <2>4
    <3> QED BY <1>5, <3>1
  <2>5. CASE j > p /\ i > p
    <3>1. /\ t[i] = s[i - 1] /\ t[j] = s[j - 1]
          /\ i - 1 \in 1 .. Len(s) /\ j - 1 \in 1 .. Len(s) /\ i - 1 # j - 1
      BY <1>1, <1>2, <1>6, <2>5
    <3> QED BY <1>4, <3>1
  <2> QED BY <1>2, <2>1, <2>2, <2>3, <2>4, <2>5
<1>7. \A i, j \in 1 .. Len(s) + 1 : t[i] = t[j] => i = j
  BY <1>2, <1>6
<1> QED BY <1>3, <1>7 DEF IsInjective, t

\* All but the last m entries of s are below h, so that the key passed up
\* when the node is split is.
Low(s, m, h) == Len(s) > m => s[Len(s) - m].key < h

LEMMA PutLow ==
  ASSUME NEW s \in Seq(NodeEntries), SortedKeys(s), NEW e \in NodeEntries, NEW kind,
         NEW m \in Nat, NEW h \in Int, e.key < h, Low(s, m, h)
  PROVE  Low(Put(kind, s, e), m, h)
<1> DEFINE t == Put(kind, s, e)
           j == Len(s) - m
<1>0. PICK p \in 1 .. Len(s) + 1 : PutAt(kind, s, e, p)
  BY PutPlace
<1>1. /\ \A i \in 1 .. Len(s) + 1 :
           t[i] = IF i < p THEN s[i] ELSE IF i = p THEN e ELSE s[i - 1]
      /\ \A i \in 1 .. Len(s) : IF i < p THEN s[i].key <= e.key ELSE s[i].key >= e.key
  BY <1>0 DEF PutAt
<1>2. Len(t) = Len(s) + 1 /\ Len(s) \in Nat
  BY PutFacts
<1>3. e.key \in Int /\ \A i \in 1 .. Len(s) : s[i].key \in Int
  BY KeysAreInts DEF NodeEntries
<1> HIDE DEF t
<1> SUFFICES ASSUME Len(t) > m PROVE t[j + 1].key < h
  BY <1>2 DEF Low, t
<1>4. j + 1 \in 1 .. Len(s) + 1
  BY <1>2
<1>5. CASE j + 1 < p
  <2>1. t[j + 1] = s[j + 1] /\ j + 1 \in 1 .. Len(s)
    BY <1>1, <1>2, <1>4, <1>5
  <2> QED BY <1>1, <1>3, <1>5, <2>1
<1>6. CASE j + 1 = p
  BY <1>1, <1>4, <1>6
<1>7. CASE j + 1 > p
  <2>1. j \in 1 .. Len(s) /\ t[j + 1] = s[j] /\ Len(s) > m
    BY <1>1, <1>2, <1>4, <1>7
  <2> QED BY <2>1 DEF Low
<1> QED BY <1>4, <1>5, <1>6, <1>7
-----------------------------------------------------------------------------
(* The right half, moved entry by entry.                                   *)

\* put holds the entries moved so far, the m-th after m entries.
PutSteps(kind, s, put) ==
  /\ put[0] = <<>>
  /\ \A m \in Nat : m + 1 <= Len(s) => put[m + 1] = Put(kind, put[m], s[m + 1])
  /\ PutAll(kind, s) = put[Len(s)]

LEMMA PutAllDef ==
  ASSUME NEW s \in Seq(NodeEntries), NEW kind
  PROVE  \E put : PutSteps(kind, s, put)
<1> DEFINE IsPut(f, m) ==
             f = [i \in 0 .. m |-> IF i = 0 THEN <<>> ELSE Put(kind, f[i - 1], s[i])]
           Defined == {m \in Nat : \E f : IsPut(f, m)}
<1>1. Nat \subseteq Defined
  <2>1. 0 \in Defined
    <3> DEFINE f == [i \in 0 .. 0 |-> <<>>]
    <3>1. IsPut(f, 0)
      OBVIOUS
    <3> QED BY <3>1
  <2>2. ASSUME NEW m \in Nat, m \in Defined PROVE m + 1 \in Defined
    <3>1. PICK f : IsPut(f, m)
      BY <2>2
    <3> DEFINE g == [i \in 0 .. m + 1 |-> IF i = 0 THEN <<>> ELSE Put(kind, f[i - 1], s[i])]
    <3>2. \A i \in 0 .. m : g[i] = f[i]
      BY <3>1
    <3>3. \A i \in 0 .. m + 1 : i # 0 => i - 1 \in 0 .. m
      OBVIOUS
    <3>4. IsPut(g, m + 1)
      <4>1. \A i \in 0 .. m + 1 :
              g[i] = IF i = 0 THEN <<>> ELSE Put(kind, g[i - 1], s[i])
        BY <3>2, <3>3
      <4> QED BY <4>1
    <3> HIDE DEF g, IsPut
    <3> QED BY <3>4
  <2> HIDE DEF Defined
  <2> QED BY <2>1, <2>2, Induction
<1>2. Len(s) \in Nat
  OBVIOUS
<1>3. PICK put : IsPut(put, Len(s)) /\ PutAll(kind, s) = put[Len(s)]
  <2>1. \E f : IsPut(f, Len(s))
    BY <1>1, <1>2
  <2>2. IsPut(CHOOSE f : IsPut(f, Len(s)), Len(s))
    BY <2>1
  <2> QED BY <2>2 DEF PutAll
<1>4. /\ put[0] = <<>>
      /\ \A m \in Nat : m + 1 <= Len(s) => put[m + 1] = Put(kind, put[m], s[m + 1])
  <2>1. \A m \in Nat : m + 1 <= Len(s) =>
          m + 1 \in 0 .. Len(s) /\ m + 1 # 0 /\ (m + 1) - 1 = m
    BY <1>2
  <2>2. 0 \in 0 .. Len(s)
    BY <1>2
  <2> QED BY <1>3, <2>1, <2>2
<1> HIDE DEF IsPut
<1> QED BY <1>3, <1>4 DEF PutSteps

LEMMA PutAllFacts ==
  ASSUME NEW s \in Seq(NodeEntries), NEW kind
  PROVE  /\ PutAll(kind, s) \in Seq(NodeEntries)
         /\ Len(PutAll(kind, s)) = Len(s)
         /\ ToSet(PutAll(kind, s)) = ToSet(s)
         /\ SortedKeys(PutAll(kind, s))
         /\ IsInjective(s) => IsInjective(PutAll(kind, s))
<1>2. Len(s) \in Nat
  OBVIOUS
<1>3. PICK put : PutSteps(kind, s, put)
  BY PutAllDef
<1>4. /\ put[0] = <<>>
      /\ \A m \in Nat : m + 1 <= Len(s) => put[m + 1] = Put(kind, put[m], s[m + 1])
      /\ PutAll(kind, s) = put[Len(s)]
  BY <1>3 DEF PutSteps
<1> DEFINE Holds(t, m) == /\ t \in Seq(NodeEntries) /\ Len(t) = m
                          /\ ToSet(t) = {s[i] : i \in 1 .. m}
                          /\ SortedKeys(t)
                          /\ IsInjective(s) => IsInjective(t)
           Held == {m \in Nat : m <= Len(s) => Holds(put[m], m)}
<1>5. Holds(<<>>, 0)
  BY DEF ToSet, SortedKeys, IsInjective
<1>6. ASSUME NEW m \in Nat, m + 1 <= Len(s), Holds(put[m], m)
      PROVE  Holds(put[m + 1], m + 1)
  <2>1. s[m + 1] \in NodeEntries
    BY <1>2, <1>6, KeysAreInts
  <2>2. put[m + 1] = Put(kind, put[m], s[m + 1])
    BY <1>4, <1>6
  <2>3. {s[i] : i \in 1 .. m + 1} = {s[i] : i \in 1 .. m} \cup {s[m + 1]}
    OBVIOUS
  <2>4. IsInjective(s) => s[m + 1] \notin ToSet(put[m])
    <3>1. m + 1 \in DOMAIN s /\ \A i \in 1 .. m : i \in DOMAIN s /\ i # m + 1
      BY <1>2, <1>6
    <3> QED BY <1>6, <3>1 DEF IsInjective
  <2>5. IsInjective(s) => IsInjective(put[m + 1])
    BY <1>6, <2>1, <2>2, <2>4, PutOnce
  <2> QED BY <1>6, <2>1, <2>2, <2>3, <2>5, PutFacts
<1> HIDE DEF Holds
<1>7. Nat \subseteq Held
  <2>1. 0 \in Held
    BY <1>4, <1>5
  <2>2. ASSUME NEW m \in Nat, m \in Held PROVE m + 1 \in Held
    BY <1>2, <1>6, <2>2
  <2> HIDE DEF Held
  <2> QED BY <2>1, <2>2, Induction
<1>8. Holds(put[Len(s)], Len(s))
  BY <1>2, <1>7
<1>9. {s[i] : i \in 1 .. Len(s)} = ToSet(s)
  BY DEF ToSet
<1> QED BY <1>4, <1>8, <1>9 DEF Holds

\* A nonleaf node's entries come out as they went in.
LEMMA PutAllInner ==
  ASSUME NEW s \in Seq(NodeEntries), SortedKeys(s), NEW kind, kind # "leaf"
  PROVE  PutAll(kind, s) = s
<1>1. Len(s) \in Nat /\ \A i \in 1 .. Len(s) : s[i] \in NodeEntries /\ s[i].key \in Int
  BY KeysAreInts
<1>2. PICK put : PutSteps(kind, s, put)
  BY PutAllDef
<1>3. /\ put[0] = <<>>
      /\ \A m \in Nat : m + 1 <= Len(s) => put[m + 1] = Put(kind, put[m], s[m + 1])
      /\ PutAll(kind, s) = put[Len(s)]
  BY <1>2 DEF PutSteps
<1> DEFINE Holds(t, m) == /\ t \in Seq(NodeEntries) /\ Len(t) = m
                          /\ \A i \in 1 .. m : t[i] = s[i]
           Held == {m \in Nat : m <= Len(s) => Holds(put[m], m)}
<1>4. Holds(<<>>, 0)
  OBVIOUS
<1>5. ASSUME NEW m \in Nat, m + 1 <= Len(s), Holds(put[m], m)
      PROVE  Holds(put[m + 1], m + 1)
  <2> DEFINE t == put[m]
             e == s[m + 1]
             u == Put(kind, t, e)
  <2>1. e \in NodeEntries /\ put[m + 1] = u
    BY <1>1, <1>3, <1>5
  <2>2. \A i \in 1 .. m : i \in 1 .. Len(s) /\ t[i] = s[i] /\ s[i].key <= e.key
    BY <1>1, <1>5 DEF SortedKeys
  <2>3. t \in Seq(NodeEntries) /\ Len(t) = m /\ SortedKeys(t)
    BY <1>1, <1>5, <2>2 DEF SortedKeys
  <2> HIDE DEF t, e
  <2>4. PICK p \in 1 .. m + 1 : PutAt(kind, t, e, p)
    BY <2>1, <2>3, PutPlace
  <2>5. /\ \A i \in 1 .. m + 1 : u[i] = IF i < p THEN t[i] ELSE IF i = p THEN e ELSE t[i - 1]
        /\ \A i \in p .. m : t[i].key > e.key
    BY <2>3, <2>4 DEF PutAt
  <2>6. u \in Seq(NodeEntries) /\ Len(u) = m + 1
    BY <2>1, <2>3, PutFacts
  <2> HIDE DEF u
  <2>7. p = m + 1
    <3> SUFFICES ASSUME p # m + 1 PROVE FALSE
      OBVIOUS
    <3>1. p \in 1 .. m /\ p \in p .. m
      OBVIOUS
    <3>2. t[p].key > e.key /\ t[p].key <= e.key /\ t[p].key \in Int /\ e.key \in Int
      <4>1. t[p].key \in Int /\ e.key \in Int
        BY <2>1, <2>3, <3>1, KeysAreInts DEF NodeEntries
      <4> QED BY <2>2, <2>5, <3>1, <4>1
    <3> QED BY <3>2
  <2>8. \A i \in 1 .. m + 1 : u[i] = s[i]
    BY <2>2, <2>5, <2>7 DEF e
  <2> QED BY <2>1, <2>6, <2>8
<1> HIDE DEF Holds
<1>6. Nat \subseteq Held
  <2>1. 0 \in Held
    BY <1>3, <1>4
  <2>2. ASSUME NEW m \in Nat, m \in Held PROVE m + 1 \in Held
    BY <1>1, <1>5, <2>2
  <2> HIDE DEF Held
  <2> QED BY <2>1, <2>2, Induction
<1>7. Holds(put[Len(s)], Len(s))
  BY <1>1, <1>6
<1> DEFINE t == put[Len(s)]
<1>8. t \in Seq(NodeEntries) /\ Len(t) = Len(s) /\ \A i \in 1 .. Len(t) : t[i] = s[i]
  BY <1>7 DEF Holds
<1> HIDE DEF t
<1>9. t = s
  BY <1>8, SeqEqual
<1> QED BY <1>3, <1>9 DEF t
-----------------------------------------------------------------------------
(* Nodes.                                                                  *)

Fits(n) == n \in Nodes /\ Len(n.entries) \in 1 .. Capacity(n)

LEMMA NodeFacts ==
  ASSUME NEW n \in Nodes
  PROVE  /\ n.entries \in Seq(NodeEntries) /\ n.kind \in {"leaf", "inner"}
         /\ n.next \in Nat /\ Len(n.entries) \in Nat
         /\ n = Node(n.kind, n.entries, n.next)
         /\ Capacity(n) \in Nat /\ Capacity(n) >= 3
         /\ Half(n) \in 1 .. Capacity(n) - 2
<1>1. /\ n.entries \in Seq(NodeEntries) /\ n.kind \in {"leaf", "inner"}
      /\ n.next \in Nat /\ n = Node(n.kind, n.entries, n.next)
  BY DEF Nodes, Node
<1>2. Capacity(n) \in Nat /\ Capacity(n) >= 3
  BY BTreeNodeAssumption DEF Capacity
<1>3. Half(n) \in 1 .. Capacity(n) - 2
  BY <1>2 DEF Half
<1> QED BY <1>1, <1>2, <1>3

\* A node that is not full takes the entry.
LEMMA InsertFacts ==
  ASSUME NEW n \in Nodes, NEW e \in NodeEntries, Len(n.entries) < Capacity(n)
  PROVE  /\ Fits(Insert(n, e))
         /\ Insert(n, e).kind = n.kind /\ Insert(n, e).next = n.next
         /\ ToSet(Insert(n, e).entries) = ToSet(n.entries) \cup {e}
         /\ SortedKeys(n.entries) => SortedKeys(Insert(n, e).entries)
<1> DEFINE t == Put(n.kind, n.entries, e)
<1>1. Insert(n, e) = Node(n.kind, t, n.next)
  BY DEF Insert, Nodes, Node
<1>2. /\ t \in Seq(NodeEntries) /\ Len(t) = Len(n.entries) + 1
      /\ ToSet(t) = ToSet(n.entries) \cup {e}
      /\ SortedKeys(n.entries) => SortedKeys(t)
  BY NodeFacts, PutFacts
<1> HIDE DEF t
<1>3. Node(n.kind, t, n.next) \in Nodes
  BY <1>2, NodeFacts DEF Node, Nodes
<1>4. Capacity(Node(n.kind, t, n.next)) = Capacity(n)
  BY DEF Capacity, Node
<1>5. Len(t) \in 1 .. Capacity(n)
  BY <1>2, NodeFacts
<1> QED BY <1>1, <1>2, <1>3, <1>4, <1>5 DEF Fits, Node

\* A full node is cut: what was in it and the new entry are in the halves.
LEMMA SplitFacts ==
  ASSUME NEW n \in Nodes, NEW e \in NodeEntries, Len(n.entries) = Capacity(n)
  PROVE  /\ Fits(SplitNode(n, e)) /\ Fits(SplitSibling(n, e))
         /\ SplitNode(n, e).kind = n.kind /\ SplitSibling(n, e).kind = n.kind
         /\ ToSet(n.entries) \cup {e} =
              ToSet(SplitNode(n, e).entries) \cup ToSet(SplitSibling(n, e).entries)
         /\ SortedKeys(n.entries) =>
              SortedKeys(SplitNode(n, e).entries) /\ SortedKeys(SplitSibling(n, e).entries)
         /\ SplitKey(n) \in Int
<1> DEFINE s == n.entries
           h == Half(n)
           left == SubSeq(s, 1, h)
           rest == SubSeq(s, h + 1, Len(s))
           right == PutAll(n.kind, rest)
<1>1. /\ s \in Seq(NodeEntries) /\ h \in Nat /\ Len(s) \in Nat
      /\ 1 <= h /\ h <= Len(s) - 2 /\ Len(s) = Capacity(n)
  BY NodeFacts
<1> HIDE DEF s, h
<1>2. \A i \in 1 .. Len(s) : s[i] \in NodeEntries /\ s[i].key \in Int
  BY <1>1, KeysAreInts
<1>3. /\ left \in Seq(NodeEntries) /\ Len(left) = h
      /\ \A i \in 1 .. h : left[i] = s[i]
  <2>1. \A i \in 1 .. h : s[i] \in NodeEntries
    BY <1>1, <1>2
  <2>2. /\ left \in Seq(NodeEntries) /\ Len(left) = IF 1 <= h THEN h - 1 + 1 ELSE 0
        /\ \A i \in 1 .. h - 1 + 1 : left[i] = s[1 + i - 1]
    BY <1>1, <2>1, SubSeqProperties
  <2> QED BY <1>1, <2>2
<1>4. /\ rest \in Seq(NodeEntries) /\ Len(rest) = Len(s) - h
      /\ \A i \in 1 .. Len(s) - h : rest[i] = s[h + i]
  <2>1. \A i \in h + 1 .. Len(s) : s[i] \in NodeEntries
    BY <1>1, <1>2
  <2>2. /\ rest \in Seq(NodeEntries)
        /\ Len(rest) = IF h + 1 <= Len(s) THEN Len(s) - (h + 1) + 1 ELSE 0
        /\ \A i \in 1 .. Len(s) - (h + 1) + 1 : rest[i] = s[(h + 1) + i - 1]
    BY <1>1, <2>1, SubSeqProperties
  <2> QED BY <1>1, <2>2
<1>5. /\ right \in Seq(NodeEntries) /\ Len(right) = Len(s) - h
      /\ ToSet(right) = ToSet(rest) /\ SortedKeys(right)
  BY <1>4, PutAllFacts
<1>6. RightHalf(n) = right
  BY DEF RightHalf, s, h
<1> HIDE DEF left, rest, right
<1>7. ToSet(s) = ToSet(left) \cup ToSet(rest)
  <2>1. ASSUME NEW x \in ToSet(s) PROVE x \in ToSet(left) \cup ToSet(rest)
    <3>1. PICK i \in 1 .. Len(s) : x = s[i]
      BY <1>1, <2>1 DEF ToSet
    <3>2. CASE i <= h
      <4>1. i \in 1 .. Len(left) /\ x = left[i]
        BY <1>1, <1>3, <3>1, <3>2
      <4> QED BY <1>3, <4>1 DEF ToSet
    <3>3. CASE i > h
      <4>1. i - h \in 1 .. Len(rest) /\ x = rest[i - h]
        BY <1>1, <1>4, <3>1, <3>3
      <4> QED BY <1>4, <4>1 DEF ToSet
    <3> QED BY <1>1, <3>2, <3>3
  <2>2. ASSUME NEW x \in ToSet(left) PROVE x \in ToSet(s)
    <3>1. PICK i \in 1 .. h : x = left[i]
      BY <1>3, <2>2 DEF ToSet
    <3>2. i \in 1 .. Len(s) /\ x = s[i]
      BY <1>1, <1>3, <3>1
    <3> QED BY <1>1, <3>2 DEF ToSet
  <2>3. ASSUME NEW x \in ToSet(rest) PROVE x \in ToSet(s)
    <3>1. PICK i \in 1 .. Len(s) - h : x = rest[i]
      BY <1>4, <2>3 DEF ToSet
    <3>2. h + i \in 1 .. Len(s) /\ x = s[h + i]
      BY <1>1, <1>4, <3>1
    <3> QED BY <1>1, <3>2 DEF ToSet
  <2> QED BY <2>1, <2>2, <2>3
<1>8. SortedKeys(s) => SortedKeys(left)
  BY <1>1, <1>3 DEF SortedKeys
<1>9. SplitKey(n) \in Int
  BY <1>1, <1>2 DEF SplitKey, s, h
<1> DEFINE l == IF GoesLeft(n, e) THEN Put(n.kind, left, e) ELSE left
           r == IF GoesLeft(n, e) THEN right ELSE Put(n.kind, right, e)
<1>10. /\ l \in Seq(NodeEntries) /\ r \in Seq(NodeEntries)
       /\ Len(l) \in 1 .. Capacity(n) /\ Len(r) \in 1 .. Capacity(n)
       /\ ToSet(l) \cup ToSet(r) = ToSet(s) \cup {e}
       /\ SortedKeys(s) => SortedKeys(l) /\ SortedKeys(r)
  <2>1. CASE GoesLeft(n, e)
    <3>1. /\ l \in Seq(NodeEntries) /\ Len(l) = h + 1
          /\ ToSet(l) = ToSet(left) \cup {e} /\ r = right
          /\ SortedKeys(left) => SortedKeys(l)
      BY <1>3, <2>1, PutFacts
    <3> HIDE DEF l, r
    <3> QED BY <1>1, <1>5, <1>7, <1>8, <3>1
  <2>2. CASE ~GoesLeft(n, e)
    <3>1. /\ r \in Seq(NodeEntries) /\ Len(r) = Len(s) - h + 1
          /\ ToSet(r) = ToSet(right) \cup {e} /\ l = left
          /\ SortedKeys(r)
      BY <1>5, <2>2, PutFacts
    <3> HIDE DEF l, r
    <3> QED BY <1>1, <1>3, <1>5, <1>7, <1>8, <3>1
  <2> QED BY <2>1, <2>2
<1>11. SplitNode(n, e) = Node(n.kind, l, n.next) /\ SplitSibling(n, e) = Node(n.kind, r, 0)
  <2>1. SplitNode(n, e) = [n EXCEPT !.entries = l] /\ SplitSibling(n, e) = Node(n.kind, r, 0)
    BY <1>6 DEF SplitNode, SplitSibling, left, s, h
  <2> HIDE DEF l, r
  <2>2. [n EXCEPT !.entries = l] = Node(n.kind, l, n.next)
    BY DEF Nodes, Node
  <2> QED BY <2>1, <2>2
<1> HIDE DEF l, r
<1>12. Node(n.kind, l, n.next) \in Nodes /\ Node(n.kind, r, 0) \in Nodes
  BY <1>10, NodeFacts DEF Node, Nodes
<1>13. Capacity(Node(n.kind, l, n.next)) = Capacity(n) /\ Capacity(Node(n.kind, r, 0)) = Capacity(n)
  BY DEF Capacity, Node
<1> QED BY <1>9, <1>10, <1>11, <1>12, <1>13 DEF Fits, Node, s

\* A full node is cut behind Half(n) entries, one more than that is left.
LeftPart(n) == SubSeq(n.entries, 1, Half(n))
RightPart(n) == SubSeq(n.entries, Half(n) + 1, Len(n.entries))

LEMMA PartsFacts ==
  ASSUME NEW n \in Nodes, Len(n.entries) = Capacity(n)
  PROVE  /\ Half(n) \in Nat \ {0} /\ Len(n.entries) = 2 * Half(n) + 1
         /\ LeftPart(n) \in Seq(NodeEntries) /\ Len(LeftPart(n)) = Half(n)
         /\ \A i \in 1 .. Half(n) : LeftPart(n)[i] = n.entries[i]
         /\ RightPart(n) \in Seq(NodeEntries) /\ Len(RightPart(n)) = Half(n) + 1
         /\ \A i \in 1 .. Half(n) + 1 : RightPart(n)[i] = n.entries[Half(n) + i]
         /\ SortedKeys(n.entries) => SortedKeys(LeftPart(n)) /\ SortedKeys(RightPart(n))
         /\ IsInjective(n.entries) =>
              /\ IsInjective(LeftPart(n)) /\ IsInjective(RightPart(n))
              /\ ToSet(LeftPart(n)) \cap ToSet(RightPart(n)) = {}
         /\ ToSet(n.entries) = ToSet(LeftPart(n)) \cup ToSet(RightPart(n))
<1> DEFINE s == n.entries
           h == Half(n)
           left == SubSeq(s, 1, h)
           rest == SubSeq(s, h + 1, Len(s))
<1>1. /\ s \in Seq(NodeEntries) /\ h \in Nat \ {0} /\ Len(s) = 2 * h + 1 /\ Len(s) \in Nat
  <2>1. s \in Seq(NodeEntries) /\ h \in Nat \ {0} /\ Len(s) \in Nat
    BY NodeFacts
  <2>2. Capacity(n) \in Nat /\ Capacity(n) % 2 = 1
    BY BTreeNodeAssumption DEF Capacity
  <2>3. Capacity(n) = 2 * (Capacity(n) \div 2) + 1
    BY <2>2
  <2> QED BY <2>1, <2>3 DEF Half
<1> HIDE DEF s, h
<1>2. \A i \in 1 .. Len(s) : s[i] \in NodeEntries /\ s[i].key \in Int
  BY <1>1, KeysAreInts
<1>3. /\ left \in Seq(NodeEntries) /\ Len(left) = h
      /\ \A i \in 1 .. h : left[i] = s[i]
  <2>1. \A i \in 1 .. h : s[i] \in NodeEntries
    BY <1>1, <1>2
  <2>2. /\ left \in Seq(NodeEntries) /\ Len(left) = IF 1 <= h THEN h - 1 + 1 ELSE 0
        /\ \A i \in 1 .. h - 1 + 1 : left[i] = s[1 + i - 1]
    BY <1>1, <2>1, SubSeqProperties
  <2> QED BY <1>1, <2>2
<1>4. /\ rest \in Seq(NodeEntries) /\ Len(rest) = h + 1
      /\ \A i \in 1 .. h + 1 : rest[i] = s[h + i]
  <2>1. \A i \in h + 1 .. Len(s) : s[i] \in NodeEntries
    BY <1>1, <1>2
  <2>2. /\ rest \in Seq(NodeEntries)
        /\ Len(rest) = IF h + 1 <= Len(s) THEN Len(s) - (h + 1) + 1 ELSE 0
        /\ \A i \in 1 .. Len(s) - (h + 1) + 1 : rest[i] = s[(h + 1) + i - 1]
    BY <1>1, <2>1, SubSeqProperties
  <2> QED BY <1>1, <2>2
<1>5. LeftPart(n) = left /\ RightPart(n) = rest
  BY DEF LeftPart, RightPart, s, h
<1> HIDE DEF left, rest
<1>6. /\ DOMAIN left = 1 .. h /\ DOMAIN rest = 1 .. h + 1 /\ DOMAIN s = 1 .. 2 * h + 1
      /\ \A i \in 1 .. h : i \in 1 .. 2 * h + 1
      /\ \A i \in 1 .. h + 1 : h + i \in 1 .. 2 * h + 1
  BY <1>1, <1>3, <1>4
<1>7. ToSet(s) = ToSet(left) \cup ToSet(rest)
  <2>1. ASSUME NEW i \in 1 .. 2 * h + 1 PROVE s[i] \in ToSet(left) \cup ToSet(rest)
    <3>1. CASE i <= h
      <4>1. i \in 1 .. h /\ s[i] = left[i]
        BY <1>1, <1>3, <3>1
      <4> QED BY <1>6, <4>1 DEF ToSet
    <3>2. CASE i > h
      <4>1. i - h \in 1 .. h + 1 /\ s[i] = rest[i - h]
        BY <1>1, <1>4, <3>2
      <4> QED BY <1>6, <4>1 DEF ToSet
    <3> QED BY <1>1, <3>1, <3>2
  <2>2. \A i \in 1 .. h : left[i] \in ToSet(s)
    BY <1>3, <1>6 DEF ToSet
  <2>3. \A i \in 1 .. h + 1 : rest[i] \in ToSet(s)
    BY <1>4, <1>6 DEF ToSet
  <2> QED BY <1>6, <2>1, <2>2, <2>3 DEF ToSet
<1>8. SortedKeys(s) => SortedKeys(left) /\ SortedKeys(rest)
  BY <1>1, <1>3, <1>4 DEF SortedKeys
<1>9. ASSUME IsInjective(s)
      PROVE  IsInjective(left) /\ IsInjective(rest) /\ ToSet(left) \cap ToSet(rest) = {}
  <2>1. \A i, j \in 1 .. 2 * h + 1 : s[i] = s[j] => i = j
    BY <1>6, <1>9 DEF IsInjective
  <2>2. IsInjective(left)
    BY <1>3, <1>6, <2>1 DEF IsInjective
  <2>3. \A i, j \in 1 .. h + 1 : rest[i] = rest[j] => h + i = h + j
    BY <1>4, <1>6, <2>1
  <2>4. IsInjective(rest)
    BY <1>1, <1>6, <2>3 DEF IsInjective
  <2>5. \A i \in 1 .. h, j \in 1 .. h + 1 : left[i] # rest[j]
    <3> SUFFICES ASSUME NEW i \in 1 .. h, NEW j \in 1 .. h + 1, left[i] = rest[j] PROVE FALSE
      OBVIOUS
    <3>1. i = h + j
      BY <1>3, <1>4, <1>6, <2>1
    <3> QED BY <1>1, <3>1
  <2> QED BY <1>6, <2>2, <2>4, <2>5 DEF ToSet
<1> QED BY <1>1, <1>3, <1>4, <1>5, <1>7, <1>8, <1>9 DEF s, h

LEMMA SplitParts ==
  ASSUME NEW n \in Nodes, NEW e
  PROVE  /\ SplitNode(n, e).next = n.next
         /\ SplitNode(n, e).entries =
              IF GoesLeft(n, e) THEN Put(n.kind, LeftPart(n), e) ELSE LeftPart(n)
         /\ SplitSibling(n, e).entries =
              IF GoesLeft(n, e) THEN PutAll(n.kind, RightPart(n))
                                ELSE Put(n.kind, PutAll(n.kind, RightPart(n)), e)
BY DEF SplitNode, SplitSibling, RightHalf, LeftPart, RightPart, Nodes, Node

\* A nonleaf node is cut as if the entry had been put into it before.
LEMMA InnerSplit ==
  ASSUME NEW n \in Nodes, n.kind = "inner", Len(n.entries) = Capacity(n),
         SortedKeys(n.entries), NEW e \in NodeEntries, NEW t, t = Put("inner", n.entries, e)
  PROVE  \E m \in {Half(n), Half(n) + 1} :
           /\ Len(SplitNode(n, e).entries) = m
           /\ \A i \in 1 .. m : SplitNode(n, e).entries[i] = t[i]
           /\ Len(SplitSibling(n, e).entries) = Len(t) - m
           /\ \A i \in 1 .. Len(t) - m : SplitSibling(n, e).entries[i] = t[m + i]
           /\ SplitKey(n) = t[m + 1].key
           /\ m = Half(n) + 1 => t[1].key < SplitKey(n)
<1> DEFINE s == n.entries
           h == Half(n)
           a == LeftPart(n)
           b == RightPart(n)
           kind == n.kind
<1>1. /\ h \in Nat \ {0} /\ Len(s) = 2 * h + 1 /\ s \in Seq(NodeEntries)
      /\ a \in Seq(NodeEntries) /\ Len(a) = h /\ SortedKeys(a)
      /\ \A i \in 1 .. h : a[i] = s[i]
      /\ b \in Seq(NodeEntries) /\ Len(b) = h + 1 /\ SortedKeys(b)
      /\ \A i \in 1 .. h + 1 : b[i] = s[h + i]
  BY PartsFacts, NodeFacts
<1>2. PutAll(kind, b) = b
  BY <1>1, PutAllInner
<1>3. /\ e.key \in Int
      /\ \A i \in 1 .. 2 * h + 1 : s[i] \in NodeEntries /\ s[i].key \in Int
  BY <1>1, KeysAreInts DEF NodeEntries
<1>4. /\ SplitNode(n, e).entries = IF GoesLeft(n, e) THEN Put(kind, a, e) ELSE a
      /\ SplitSibling(n, e).entries = IF GoesLeft(n, e) THEN b ELSE Put(kind, b, e)
  BY <1>2, SplitParts
<1>5. SplitKey(n) = s[h + 1].key /\ (GoesLeft(n, e) <=> e.key < s[h + 1].key)
  BY DEF SplitKey, GoesLeft
<1>6. /\ \A i, j \in 1 .. 2 * h + 1 : i < j => s[i].key <= s[j].key
      /\ kind # "leaf" /\ t = Put(kind, s, e)
  BY <1>1 DEF SortedKeys
<1> HIDE DEF s, h, a, b, kind
<1>7. PICK p \in 1 .. Len(s) + 1 : PutAt(kind, s, e, p)
  BY <1>1, <1>6, PutPlace DEF s
<1>8. /\ p \in 1 .. 2 * h + 2
      /\ \A i \in 1 .. 2 * h + 2 : t[i] = IF i < p THEN s[i] ELSE IF i = p THEN e ELSE s[i - 1]
      /\ \A i \in 1 .. 2 * h + 1 : IF i < p THEN s[i].key <= e.key ELSE s[i].key > e.key
  BY <1>1, <1>6, <1>7 DEF PutAt
<1>9. t \in Seq(NodeEntries) /\ Len(t) = 2 * h + 2
  BY <1>1, <1>6, PutFacts
<1>10. CASE GoesLeft(n, e)
  <2> DEFINE u == Put(kind, a, e)
  <2>1. PICK q \in 1 .. Len(a) + 1 : PutAt(kind, a, e, q)
    BY <1>1, PutPlace
  <2>2. /\ q \in 1 .. h + 1 /\ Len(u) = h + 1
        /\ \A i \in 1 .. h + 1 : u[i] = IF i < q THEN a[i] ELSE IF i = q THEN e ELSE a[i - 1]
        /\ \A i \in 1 .. h : IF i < q THEN s[i].key <= e.key ELSE s[i].key > e.key
    <3>1. Len(u) = h + 1
      BY <1>1, PutFacts
    <3>2. \A i \in 1 .. h + 1 : u[i] = IF i < q THEN a[i] ELSE IF i = q THEN e ELSE a[i - 1]
      BY <1>1, <2>1 DEF PutAt
    <3>3. \A i \in 1 .. h : IF i < q THEN s[i].key <= e.key ELSE s[i].key > e.key
      <4> SUFFICES ASSUME NEW i \in 1 .. h
                   PROVE  IF i < q THEN s[i].key <= e.key ELSE s[i].key > e.key
        OBVIOUS
      <4>1. a[i] = s[i] /\ q \in 1 .. h + 1 /\ (i < q \/ i \in q .. h)
        BY <1>1, <2>1
      <4> QED BY <1>1, <1>6, <2>1, <4>1 DEF PutAt
    <3> QED BY <1>1, <2>1, <3>1, <3>2, <3>3
  <2> HIDE DEF u
  <2>3. p = q
    <3>1. p <= h + 1
      <4> SUFFICES ASSUME p > h + 1 PROVE FALSE
        BY <1>1, <1>8
      <4>1. s[h + 1].key <= e.key
        BY <1>1, <1>8
      <4> QED BY <1>1, <1>3, <1>5, <1>10, <4>1
    <3>2. ~(p < q)
      <4> SUFFICES ASSUME p < q PROVE FALSE
        OBVIOUS
      <4>1. p \in 1 .. h /\ p \in 1 .. 2 * h + 1
        BY <1>1, <1>8, <2>2
      <4>2. s[p].key <= e.key /\ s[p].key > e.key
        BY <1>8, <2>2, <4>1
      <4> QED BY <1>3, <4>1, <4>2
    <3>3. ~(q < p)
      <4> SUFFICES ASSUME q < p PROVE FALSE
        OBVIOUS
      <4>1. q \in 1 .. h /\ q \in 1 .. 2 * h + 1
        BY <1>1, <2>2, <3>1
      <4>2. s[q].key <= e.key /\ s[q].key > e.key
        BY <1>8, <2>2, <4>1
      <4> QED BY <1>3, <4>1, <4>2
    <3> QED BY <1>1, <1>8, <2>2, <3>2, <3>3
  <2>4. \A i \in 1 .. h + 1 : u[i] = t[i]
    <3> SUFFICES ASSUME NEW i \in 1 .. h + 1 PROVE u[i] = t[i]
      OBVIOUS
    <3>1. CASE i > p
      <4>1. i - 1 \in 1 .. h /\ i \in 1 .. 2 * h + 2
        BY <1>1, <1>8, <3>1
      <4> QED BY <1>1, <1>8, <2>2, <2>3, <3>1, <4>1
    <3>2. CASE i < p
      <4>1. i \in 1 .. h /\ i \in 1 .. 2 * h + 2
        BY <1>1, <2>2, <2>3, <3>2
      <4> QED BY <1>1, <1>8, <2>2, <2>3, <3>2, <4>1
    <3>3. CASE i = p
      BY <1>1, <1>8, <2>2, <2>3, <3>3
    <3> QED BY <1>8, <3>1, <3>2, <3>3
  <2>5. ASSUME NEW i \in 1 .. h + 1 PROVE b[i] = t[(h + 1) + i]
    <3>1. /\ (h + 1) + i \in 1 .. 2 * h + 2 /\ (h + 1) + i > p
          /\ ((h + 1) + i) - 1 = h + i
      BY <1>1, <2>2, <2>3
    <3>2. t[(h + 1) + i] = s[h + i]
      BY <1>8, <3>1
    <3> QED BY <1>1, <3>2
  <2>6. s[h + 1].key = t[(h + 1) + 1].key
    <3>1. 1 \in 1 .. h + 1 /\ b[1] = s[h + 1]
      BY <1>1
    <3> QED BY <2>5, <3>1
  <2>7. t[1].key < s[h + 1].key
    <3>1. 1 \in 1 .. 2 * h + 2 /\ 1 \in 1 .. 2 * h + 1
      BY <1>1
    <3>2. t[1].key <= e.key
      BY <1>3, <1>8, <3>1
    <3>3. t[1].key \in Int
      BY <1>9, <3>1, KeysAreInts
    <3>4. s[h + 1].key \in Int
      BY <1>1, <1>3
    <3> QED BY <1>3, <1>5, <1>10, <3>2, <3>3, <3>4
  <2>8. SplitNode(n, e).entries = u /\ SplitSibling(n, e).entries = b
    BY <1>4, <1>10 DEF u
  <2>9. Len(t) - (h + 1) = h + 1
    BY <1>1, <1>9
  <2> DEFINE m == h + 1
  <2>10. m \in {Half(n), Half(n) + 1}
    BY DEF h
  <2> QED BY <1>1, <1>5, <2>2, <2>4, <2>5, <2>6, <2>7, <2>8, <2>9, <2>10 DEF h
<1>11. CASE ~GoesLeft(n, e)
  <2> DEFINE u == Put(kind, b, e)
  <2>1. PICK q \in 1 .. Len(b) + 1 : PutAt(kind, b, e, q)
    BY <1>1, PutPlace
  <2>2. /\ q \in 1 .. h + 2 /\ Len(u) = h + 2
        /\ \A i \in 1 .. h + 2 : u[i] = IF i < q THEN b[i] ELSE IF i = q THEN e ELSE b[i - 1]
        /\ \A i \in 1 .. h + 1 : IF i < q THEN s[h + i].key <= e.key ELSE s[h + i].key > e.key
    <3>1. Len(u) = h + 2
      BY <1>1, PutFacts
    <3>2. \A i \in 1 .. h + 2 : u[i] = IF i < q THEN b[i] ELSE IF i = q THEN e ELSE b[i - 1]
      BY <1>1, <2>1 DEF PutAt
    <3>3. \A i \in 1 .. h + 1 : IF i < q THEN s[h + i].key <= e.key ELSE s[h + i].key > e.key
      <4> SUFFICES ASSUME NEW i \in 1 .. h + 1
                   PROVE  IF i < q THEN s[h + i].key <= e.key ELSE s[h + i].key > e.key
        OBVIOUS
      <4>1. b[i] = s[h + i] /\ q \in 1 .. h + 2 /\ (i < q \/ i \in q .. h + 1)
        BY <1>1, <2>1
      <4> QED BY <1>1, <1>6, <2>1, <4>1 DEF PutAt
    <3> QED BY <1>1, <2>1, <3>1, <3>2, <3>3
  <2> HIDE DEF u
  <2>3. p = h + q
    <3>1. s[h + 1].key <= e.key
      <4>1. s[h + 1].key \in Int
        BY <1>1, <1>3
      <4> QED BY <1>3, <1>5, <1>11, <4>1
    <3>2. p > h + 1
      <4> SUFFICES ASSUME p <= h + 1 PROVE FALSE
        BY <1>1, <1>8
      <4>1. s[h + 1].key > e.key
        BY <1>1, <1>8
      <4>2. s[h + 1].key \in Int
        BY <1>1, <1>3
      <4> QED BY <1>3, <3>1, <4>1, <4>2
    <3>3. ~(p < h + q)
      <4> SUFFICES ASSUME p < h + q PROVE FALSE
        OBVIOUS
      <4>1. p - h \in 1 .. h + 1 /\ p \in 1 .. 2 * h + 1 /\ h + (p - h) = p /\ p - h < q
        BY <1>1, <1>8, <2>2, <3>2
      <4>2. s[p].key <= e.key /\ s[p].key > e.key
        BY <1>8, <2>2, <4>1
      <4> QED BY <1>3, <4>1, <4>2
    <3>4. ~(h + q < p)
      <4> SUFFICES ASSUME h + q < p PROVE FALSE
        OBVIOUS
      <4>1. q \in 1 .. h + 1 /\ h + q \in 1 .. 2 * h + 1
        BY <1>1, <1>8, <2>2
      <4>2. s[h + q].key <= e.key /\ s[h + q].key > e.key
        BY <1>8, <2>2, <4>1
      <4> QED BY <1>3, <4>1, <4>2
    <3>5. p \in Int /\ h + q \in Int
      BY <1>1, <1>8, <2>2
    <3> QED BY <3>3, <3>4, <3>5
  <2>4. \A i \in 1 .. h + 2 : u[i] = t[h + i]
    <3> SUFFICES ASSUME NEW i \in 1 .. h + 2 PROVE u[i] = t[h + i]
      OBVIOUS
    <3>1. CASE i > q
      <4>1. i - 1 \in 1 .. h + 1 /\ h + i \in 1 .. 2 * h + 2 /\ (h + i) - 1 = h + (i - 1) /\ h + i > p
        BY <1>1, <2>2, <2>3, <3>1
      <4> QED BY <1>1, <1>8, <2>2, <3>1, <4>1
    <3>2. CASE i < q
      <4>1. i \in 1 .. h + 1 /\ h + i \in 1 .. 2 * h + 2 /\ h + i < p
        BY <1>1, <2>2, <2>3, <3>2
      <4> QED BY <1>1, <1>8, <2>2, <3>2, <4>1
    <3>3. CASE i = q
      <4>1. h + i \in 1 .. 2 * h + 2 /\ h + i = p
        BY <1>1, <2>2, <2>3, <3>3
      <4> QED BY <1>8, <2>2, <3>3, <4>1
    <3> QED BY <2>2, <3>1, <3>2, <3>3
  <2>5. ASSUME NEW i \in 1 .. h PROVE a[i] = t[i]
    <3>1. i \in 1 .. 2 * h + 2 /\ i < p
      BY <1>1, <2>2, <2>3
    <3> QED BY <1>1, <1>8, <3>1
  <2>6. s[h + 1].key = t[h + 1].key
    <3>1. h + 1 \in 1 .. 2 * h + 2 /\ (h + 1 < p \/ h + 1 = p)
      BY <1>1, <2>2, <2>3
    <3>2. h + 1 # p
      <4> SUFFICES ASSUME h + 1 = p PROVE FALSE
        OBVIOUS
      <4>1. h + 1 \in 1 .. 2 * h + 1 /\ s[h + 1].key > e.key
        BY <1>1, <1>8
      <4> QED BY <1>3, <1>5, <1>11, <4>1
    <3> QED BY <1>8, <3>1, <3>2
  <2>7. SplitNode(n, e).entries = a /\ SplitSibling(n, e).entries = u
    BY <1>4, <1>11 DEF u
  <2>8. Len(t) - h = h + 2 /\ h # h + 1
    BY <1>1, <1>9
  <2>9. h \in {Half(n), Half(n) + 1}
    BY DEF h
  <2> QED BY <1>1, <1>5, <2>2, <2>4, <2>5, <2>6, <2>7, <2>8, <2>9 DEF h
<1> QED BY <1>10, <1>11

LEMMA RootFacts ==
  ASSUME NEW pid1 \in Nat, NEW key \in Int, NEW pid2 \in Nat
  PROVE  /\ Fits(RootNode(pid1, key, pid2))
         /\ RootNode(pid1, key, pid2).kind = "inner"
         /\ SortedKeys(RootNode(pid1, key, pid2).entries)
         /\ \A x \in ToSet(RootNode(pid1, key, pid2).entries) : x.ptr \in {pid1, pid2}
<1> DEFINE d == Entry(INT_MIN, pid1)
           e == Entry(key, pid2)
           s == InnerPut(<<>>, d)
           t == InnerPut(s, e)
<1>1. d \in NodeEntries /\ e \in NodeEntries /\ d.ptr = pid1 /\ e.ptr = pid2
  BY DEF Entry, NodeEntries, INT_MIN
<1>2. <<>> \in Seq(NodeEntries) /\ Len(<<>>) = 0 /\ SortedKeys(<<>>) /\ ToSet(<<>>) = {}
  BY DEF SortedKeys, ToSet
<1>3. s = Put("inner", <<>>, d) /\ t = Put("inner", s, e)
  BY DEF Put
<1> HIDE DEF d, e, s, t
<1>4. /\ s \in Seq(NodeEntries) /\ Len(s) = Len(<<>>) + 1
      /\ ToSet(s) = ToSet(<<>>) \cup {d}
      /\ SortedKeys(<<>>) => SortedKeys(s)
  BY <1>1, <1>2, <1>3, PutFacts, Zenon
<1>5. /\ t \in Seq(NodeEntries) /\ Len(t) = Len(s) + 1
      /\ ToSet(t) = ToSet(s) \cup {e}
      /\ SortedKeys(s) => SortedKeys(t)
  BY <1>1, <1>3, <1>4, PutFacts, Zenon
<1>6. RootNode(pid1, key, pid2) = Node("inner", t, 0)
  BY DEF RootNode, t, s, d, e
<1>7. Len(t) \in 1 .. InnerMax /\ SortedKeys(t)
  BY <1>2, <1>4, <1>5, BTreeNodeAssumption
<1>8. Node("inner", t, 0) \in Nodes
  BY <1>5 DEF Node, Nodes
<1>9. Capacity(Node("inner", t, 0)) = InnerMax
  BY DEF Capacity, Node
<1>10. \A x \in ToSet(t) : x.ptr \in {pid1, pid2}
  BY <1>1, <1>2, <1>4, <1>5
<1> QED BY <1>6, <1>7, <1>8, <1>9, <1>10 DEF Fits, Node

\* The child that is followed is one of the node's, or 0 if it has none.
LEMMA ChildFacts ==
  ASSUME NEW n \in Nodes, NEW k \in Int
  PROVE  /\ ChildFor(n, k) \in Nat
         /\ n.entries = <<>> => ChildFor(n, k) = 0
         /\ n.entries # <<>> => \E e \in ToSet(n.entries) : ChildFor(n, k) = e.ptr
<1> DEFINE s == n.entries
           upTo == UpTo(s, k)
           zeros == {i \in 1 .. upTo : s[i].key = 0}
           last == IF zeros = {} THEN upTo
                   ELSE CHOOSE i \in zeros : \A j \in zeros : i <= j
<1>1. s \in Seq(NodeEntries) /\ Len(s) \in Nat
  BY NodeFacts
<1> HIDE DEF s
<1>2. upTo \in 0 .. Len(s)
  BY <1>1, UpToFacts
<1> HIDE DEF upTo
<1>3. last \in 0 .. Len(s)
  <2>1. CASE zeros = {}
    BY <1>2, <2>1
  <2>2. CASE zeros # {}
    <3>1. zeros \subseteq Nat
      BY <1>2
    <3>2. \E i \in zeros : \A j \in zeros : i <= j
      BY <2>2, <3>1, Least
    <3>3. last \in zeros
      BY <2>2, <3>2
    <3> QED BY <1>1, <1>2, <3>3
  <2> QED BY <2>1, <2>2
<1>4. ChildFor(n, k) = IF s = <<>> THEN 0 ELSE s[IF last = 0 THEN 1 ELSE last].ptr
  BY DEF ChildFor, s, upTo
<1> HIDE DEF last
<1>5. ASSUME s # <<>>
      PROVE  /\ s[IF last = 0 THEN 1 ELSE last].ptr \in Nat
             /\ s[IF last = 0 THEN 1 ELSE last] \in ToSet(s)
  <2>1. Len(s) > 0
    BY <1>1, <1>5
  <2>2. (IF last = 0 THEN 1 ELSE last) \in 1 .. Len(s)
    BY <1>1, <1>3, <2>1
  <2>3. \A e \in NodeEntries : e.ptr \in Nat
    BY DEF NodeEntries
  <2> DEFINE i == IF last = 0 THEN 1 ELSE last
  <2> HIDE DEF i
  <2>4. i \in 1 .. Len(s)
    BY <2>2 DEF i
  <2>5. s[i].ptr \in Nat /\ s[i] \in ToSet(s)
    BY <1>1, <2>3, <2>4, KeysAreInts DEF ToSet
  <2> QED BY <2>5 DEF i
<1> QED BY <1>4, <1>5 DEF s
-----------------------------------------------------------------------------
(* The index.                                                              *)

ProperNodes == {n \in Nodes : Fits(n) /\ SortedKeys(n.entries)}

Roots == {r \in [rootPid : Int, treeHeight : Nat] : r.treeHeight > 0 => r.rootPid \in Nat}

Path == [pid : Nat, node : ProperNodes]
CallSet == [pc : {"idle", "first", "nodes", "root", "return"}, key : Int, rid : Nat,
            path : Seq(Path), pid : Nat, node : Nodes \cup {NoNode},
            sibling : ProperNodes \cup {NoNode}, sepKey : Int, sepPid : Nat,
            rc : {"OK", "1", "-3"}]

\* The insertion under way has an open index of height one at least, and the
\* buffers that it is about to write hold proper nodes.
CallOK ==
  /\ call \in CallSet
  /\ call.rid < tail
  /\ call.pc # "idle" => mode = "w"
  /\ call.pc \in {"nodes", "root"} => treeHeight > 0
  /\ call.pc = "nodes" => call.node \in ProperNodes

MemoryOK == rootPid \in Int /\ treeHeight \in Nat /\ (treeHeight > 0 => rootPid \in Nat)

DoneOK ==
  /\ tail \in 1 .. MaxInserts + 1
  /\ done \subseteq NodeEntries
  /\ \A e \in done : e.ptr < tail

TypeInv ==
  /\ page \in Seq(ProperNodes)
  /\ header \in Roots
  /\ mode \in {"closed", "r", "w", "wild"}
  /\ MemoryOK /\ DoneOK /\ CallOK
  /\ cursor \in [pid : Int, eid : Int]
-----------------------------------------------------------------------------
(* Pages and the way down.                                                 *)

LEMMA ProperFacts ==
  ASSUME NEW n \in ProperNodes
  PROVE  /\ n \in Nodes /\ Len(n.entries) \in 1 .. Capacity(n)
         /\ n.entries # <<>> /\ SortedKeys(n.entries)
BY NodeFacts DEF ProperNodes, Fits

LEMMA PageFacts ==
  ASSUME page \in Seq(ProperNodes)
  PROVE  /\ Len(page) \in Nat
         /\ \A p : Exists(p) => p \in 1 .. Len(page) /\ page[p] \in ProperNodes
BY ElementOfSeq DEF Exists

LEMMA NewNodes ==
  /\ NewLeaf \in Nodes /\ NewLeaf.kind = "leaf" /\ NewLeaf.entries = <<>>
  /\ NewInner \in Nodes /\ NewInner.kind = "inner" /\ NewInner.entries = <<>>
  /\ SortedKeys(<<>>) /\ Len(<<>>) = 0
BY DEF NewLeaf, NewInner, Node, Nodes, SortedKeys

LEMMA WrittenFacts ==
  ASSUME page \in Seq(ProperNodes), NEW p \in Nat, NEW n \in ProperNodes
  PROVE  /\ Written(p, n) \in Seq(ProperNodes)
         /\ \A q \in 1 .. Len(page) : q \in 1 .. Len(Written(p, n))
              /\ Written(p, n)[q] = IF q = p THEN n ELSE page[q]
         /\ \E q \in 1 .. Len(Written(p, n)) :
              /\ Written(p, n)[q] = n
              /\ q = IF Exists(p) THEN p ELSE EndPid
<1>1. Len(page) \in Nat
  BY PageFacts
<1>2. CASE Exists(p)
  <2>1. p \in 1 .. Len(page)
    BY <1>2 DEF Exists
  <2>2. Written(p, n) = [page EXCEPT ![p] = n]
    BY <1>2 DEF Written
  <2>3. /\ [page EXCEPT ![p] = n] \in Seq(ProperNodes)
        /\ Len([page EXCEPT ![p] = n]) = Len(page)
        /\ \A q \in 1 .. Len(page) : [page EXCEPT ![p] = n][q] = IF q = p THEN n ELSE page[q]
    BY <2>1, ExceptSeq
  <2> QED BY <1>2, <2>1, <2>2, <2>3
<1>3. CASE ~Exists(p)
  <2>1. Written(p, n) = Append(page, n)
    BY <1>3 DEF Written
  <2>2. /\ Append(page, n) \in Seq(ProperNodes) /\ Len(Append(page, n)) = Len(page) + 1
        /\ \A q \in 1 .. Len(page) : Append(page, n)[q] = page[q]
        /\ Append(page, n)[Len(page) + 1] = n
    OBVIOUS
  <2>3. p \notin 1 .. Len(page)
    BY <1>3 DEF Exists
  <2> QED BY <1>1, <1>3, <2>1, <2>2, <2>3 DEF EndPid
<1> QED BY <1>2, <1>3

\* Descent is what its recursion says.
LEMMA DescentDef ==
  ASSUME treeHeight \in Nat, NEW k
  PROVE  Descent(k) = [h \in 1 .. treeHeight |->
           IF h = 1 THEN rootPid ELSE ChildFor(InnerAt(Descent(k)[h - 1]), k)]
<1> DEFINE IsWay(f, m) == f = [h \in 1 .. m |->
             IF h = 1 THEN rootPid ELSE ChildFor(InnerAt(f[h - 1]), k)]
           Defined == {m \in Nat : \E f : IsWay(f, m)}
<1>1. Nat \subseteq Defined
  <2>1. 0 \in Defined
    <3> DEFINE f == [h \in 1 .. 0 |-> 0]
    <3>1. IsWay(f, 0)
      OBVIOUS
    <3> HIDE DEF f, IsWay
    <3> QED BY <3>1
  <2>2. ASSUME NEW m \in Nat, m \in Defined PROVE m + 1 \in Defined
    <3>1. PICK f : IsWay(f, m)
      BY <2>2
    <3> DEFINE g == [h \in 1 .. m + 1 |->
                       IF h = 1 THEN rootPid ELSE ChildFor(InnerAt(f[h - 1]), k)]
    <3>2. \A h \in 1 .. m : g[h] = f[h]
      BY <3>1
    <3>3. \A h \in 1 .. m + 1 : h # 1 => h - 1 \in 1 .. m
      OBVIOUS
    <3>4. IsWay(g, m + 1)
      <4>1. \A h \in 1 .. m + 1 :
              g[h] = IF h = 1 THEN rootPid ELSE ChildFor(InnerAt(g[h - 1]), k)
        BY <3>2, <3>3
      <4> QED BY <4>1
    <3> HIDE DEF g, IsWay
    <3> QED BY <3>4
  <2> HIDE DEF Defined
  <2> QED BY <2>1, <2>2, Induction
<1>2. \E f : IsWay(f, treeHeight)
  BY <1>1
<1>3. IsWay(CHOOSE f : IsWay(f, treeHeight), treeHeight)
  BY <1>2
<1>4. Descent(k) = CHOOSE f : IsWay(f, treeHeight)
  BY DEF Descent
<1> QED BY <1>3, <1>4

\* On the way down every page above the last exists and is a nonleaf node: a
\* page that did not would lead to page 0.
LEMMA DescentFacts ==
  ASSUME page \in Seq(ProperNodes), MemoryOK, treeHeight > 0, NEW k \in Int, OnTrack(k)
  PROVE  /\ \A h \in 1 .. treeHeight - 1 :
              /\ Descent(k)[h] \in Nat /\ Exists(Descent(k)[h])
              /\ InnerAt(Descent(k)[h]) = page[Descent(k)[h]]
              /\ page[Descent(k)[h]].kind = "inner"
         /\ LeafFor(k) \in Nat
         /\ Exists(LeafFor(k)) => page[LeafFor(k)].kind = "leaf"
<1> DEFINE way == Descent(k)
<1>1. \A h \in 1 .. treeHeight :
        way[h] = IF h = 1 THEN rootPid ELSE ChildFor(InnerAt(way[h - 1]), k)
  BY DescentDef DEF MemoryOK
<1>2. \A h \in 1 .. treeHeight :
        way[h] # 0 /\ (Exists(way[h]) => page[way[h]].kind = IF h = treeHeight THEN "leaf" ELSE "inner")
  BY DEF OnTrack
<1> HIDE DEF way
<1>3. \A p : InnerAt(p) \in Nodes
  BY PageFacts, ProperFacts, NewNodes DEF InnerAt
<1>4. \A h \in 1 .. treeHeight : way[h] \in Nat
  <2> SUFFICES ASSUME NEW h \in 1 .. treeHeight PROVE way[h] \in Nat
    OBVIOUS
  <2>1. CASE h = 1
    BY <1>1, <2>1 DEF MemoryOK
  <2>2. CASE h # 1
    BY <1>1, <1>3, <2>2, ChildFacts
  <2> QED BY <2>1, <2>2
<1>5. ASSUME NEW h \in 1 .. treeHeight - 1 PROVE Exists(way[h])
  <2>1. h + 1 \in 1 .. treeHeight /\ h + 1 # 1 /\ (h + 1) - 1 = h
    BY <1>5 DEF MemoryOK
  <2>2. way[h + 1] = ChildFor(InnerAt(way[h]), k)
    BY <1>1, <2>1
  <2>3. way[h + 1] # 0
    BY <1>2, <2>1
  <2> SUFFICES ASSUME ~Exists(way[h]) PROVE FALSE
    OBVIOUS
  <2>4. InnerAt(way[h]) = NewInner
    BY DEF InnerAt
  <2> QED BY <2>2, <2>3, <2>4, NewNodes, ChildFacts
<1>6. \A h \in 1 .. treeHeight - 1 : h \in 1 .. treeHeight /\ h # treeHeight
  BY DEF MemoryOK
<1>7. treeHeight \in 1 .. treeHeight
  BY DEF MemoryOK
<1>8. LeafFor(k) = way[treeHeight]
  BY DEF LeafFor, way
<1>9. \A h \in 1 .. treeHeight - 1 : InnerAt(way[h]) = page[way[h]]
  BY <1>5 DEF InnerAt
<1> QED BY <1>2, <1>4, <1>5, <1>6, <1>7, <1>8, <1>9 DEF way
-----------------------------------------------------------------------------
(* The call under way.                                                     *)

LEMMA CallFields ==
  ASSUME NEW c \in CallSet
  PROVE  /\ c.pc \in {"idle", "first", "nodes", "root", "return"}
         /\ c.key \in Int /\ c.rid \in Nat /\ c.path \in Seq(Path) /\ c.pid \in Nat
         /\ c.node \in Nodes \cup {NoNode} /\ c.sibling \in ProperNodes \cup {NoNode}
         /\ c.sepKey \in Int /\ c.sepPid \in Nat /\ c.rc \in {"OK", "1", "-3"}
BY DEF CallSet

\* What a call is about to write.
Buffered(c) == ToSet(c.node.entries) \cup ToSet(c.sibling.entries)

\* The entry and those of the node are in the node, or in it and its sibling.
LEMMA PlaceFacts ==
  ASSUME NEW c \in CallSet, NEW p \in Nat, NEW n \in Nodes,
         Len(n.entries) <= Capacity(n), SortedKeys(n.entries), NEW e \in NodeEntries
  PROVE  /\ Place(c, p, n, e) \in CallSet
         /\ Place(c, p, n, e).pc = c.pc /\ Place(c, p, n, e).path = c.path
         /\ Place(c, p, n, e).key = c.key /\ Place(c, p, n, e).rid = c.rid
         /\ Place(c, p, n, e).pid = p
         /\ Place(c, p, n, e).node \in ProperNodes
         /\ Place(c, p, n, e).node.kind = n.kind
         /\ Place(c, p, n, e).sibling # NoNode =>
              Full(n) /\ Place(c, p, n, e).sibling.kind = n.kind
         /\ Place(c, p, n, e).sibling = NoNode => Place(c, p, n, e).sepKey = -1
         /\ Buffered(Place(c, p, n, e)) = ToSet(n.entries) \cup {e}
<1> DEFINE With(node, sibling, sepKey) ==
             [c EXCEPT !.pid = p, !.node = node, !.sibling = sibling, !.sepKey = sepKey]
<1>1. ASSUME NEW node \in ProperNodes, NEW sibling \in ProperNodes \cup {NoNode},
             NEW sepKey \in Int
      PROVE  /\ With(node, sibling, sepKey) \in CallSet
             /\ With(node, sibling, sepKey).pc = c.pc
             /\ With(node, sibling, sepKey).path = c.path
             /\ With(node, sibling, sepKey).key = c.key
             /\ With(node, sibling, sepKey).rid = c.rid
             /\ With(node, sibling, sepKey).pid = p
             /\ With(node, sibling, sepKey).node = node
             /\ With(node, sibling, sepKey).sibling = sibling
             /\ With(node, sibling, sepKey).sepKey = sepKey
  <2>1. node \in Nodes \cup {NoNode}
    BY DEF ProperNodes
  <2> QED BY <2>1 DEF CallSet
<1> HIDE DEF With
<1>2. n.entries \in Seq(NodeEntries) /\ Len(n.entries) \in Nat /\ Capacity(n) \in Nat
  BY NodeFacts
<1>3. ToSet(NoNode.entries) = {}
  BY DEF NoNode, Node, ToSet
<1>4. CASE Full(n)
  <2>1. Len(n.entries) = Capacity(n)
    BY <1>2, <1>4 DEF Full
  <2> DEFINE l == SplitNode(n, e)
             r == SplitSibling(n, e)
  <2>2. /\ Fits(l) /\ Fits(r) /\ l.kind = n.kind /\ r.kind = n.kind
        /\ ToSet(n.entries) \cup {e} = ToSet(l.entries) \cup ToSet(r.entries)
        /\ SortedKeys(l.entries) /\ SortedKeys(r.entries) /\ SplitKey(n) \in Int
    BY <2>1, SplitFacts
  <2>3. Place(c, p, n, e) = With(l, r, SplitKey(n))
    BY <1>4 DEF Place, With
  <2> HIDE DEF l, r
  <2>4. l \in ProperNodes /\ r \in ProperNodes
    BY <2>2 DEF ProperNodes, Fits
  <2> DEFINE w == With(l, r, SplitKey(n))
  <2>5. /\ w \in CallSet /\ w.pc = c.pc /\ w.path = c.path /\ w.key = c.key
        /\ w.rid = c.rid /\ w.pid = p /\ w.node = l /\ w.sibling = r
    BY <1>1, <2>2, <2>4
  <2> HIDE DEF w
  <2>6. Place(c, p, n, e) = w
    BY <2>3 DEF w
  <2>7. Buffered(w) = ToSet(n.entries) \cup {e}
    BY <2>2, <2>5 DEF Buffered
  <2>8. r # NoNode
    BY <2>2, NodeFacts DEF NoNode, Node
  <2> QED BY <1>4, <2>2, <2>4, <2>5, <2>6, <2>7, <2>8
<1>5. CASE ~Full(n)
  <2>1. Len(n.entries) < Capacity(n)
    BY <1>2, <1>5 DEF Full
  <2> DEFINE l == Insert(n, e)
             none == -1
  <2>2. /\ Fits(l) /\ l.kind = n.kind /\ SortedKeys(l.entries)
        /\ ToSet(l.entries) = ToSet(n.entries) \cup {e}
    BY <2>1, InsertFacts
  <2>3. Place(c, p, n, e) = With(l, NoNode, none) /\ none \in Int
    BY <1>5 DEF Place, With
  <2> HIDE DEF l, none
  <2>4. l \in ProperNodes
    BY <2>2 DEF ProperNodes, Fits
  <2>5. NoNode \in ProperNodes \cup {NoNode}
    OBVIOUS
  <2> DEFINE w == With(l, NoNode, none)
  <2> HIDE DEF With
  <2>6. /\ w \in CallSet /\ w.pc = c.pc /\ w.path = c.path /\ w.key = c.key
        /\ w.rid = c.rid /\ w.pid = p /\ w.node = l /\ w.sibling = NoNode
        /\ w.sepKey = none
    <3>1. none \in Int
      BY <2>3
    <3>2. NoNode \in ProperNodes \cup {NoNode} /\ l \in ProperNodes
      BY <2>4, <2>5
    <3> HIDE DEF w
    <3>3. w = With(l, NoNode, none)
      BY DEF w
    <3>4. /\ With(l, NoNode, none) \in CallSet
          /\ With(l, NoNode, none).pc = c.pc
          /\ With(l, NoNode, none).path = c.path
          /\ With(l, NoNode, none).key = c.key
          /\ With(l, NoNode, none).rid = c.rid
          /\ With(l, NoNode, none).pid = p
          /\ With(l, NoNode, none).node = l
          /\ With(l, NoNode, none).sibling = NoNode
          /\ With(l, NoNode, none).sepKey = none
      BY <1>1, <3>1, <3>2, Zenon
    <3> QED BY <3>3, <3>4, Zenon
  <2> HIDE DEF w
  <2>7. Place(c, p, n, e) = w
    BY <2>3 DEF w
  <2>8. Buffered(w) = ToSet(n.entries) \cup {e}
    BY <1>3, <2>2, <2>6 DEF Buffered
  <2> QED BY <2>2, <2>4, <2>6, <2>7, <2>8 DEF none
<1> QED BY <1>4, <1>5

\* One level up: the call goes on with the last node of the path, or is done.
LEMMA UpFacts ==
  ASSUME NEW c \in CallSet, c.pc = "nodes"
  PROVE  /\ Up(c) \in CallSet /\ Up(c).key = c.key /\ Up(c).rid = c.rid
         /\ c.path = <<>> =>
              /\ Up(c).pc \in {"root", "return"}
              /\ Up(c).pc = "root" => c.sepKey > 0 /\ Up(c).sepPid = c.sepPid
         /\ c.path # <<>> =>
              /\ Up(c).pc = "nodes" /\ Up(c).path = Front(c.path)
              /\ Up(c).pid = Last(c.path).pid
              /\ Up(c).node \in ProperNodes
              /\ Up(c).node.kind = Last(c.path).node.kind
              /\ Up(c).sibling # NoNode => Up(c).sibling.kind = Up(c).node.kind
              /\ Up(c).sibling = NoNode => ~(Up(c).sepKey > 0)
              /\ Buffered(Up(c)) \subseteq ToSet(Last(c.path).node.entries) \cup
                   (IF c.sepKey > 0 THEN {Entry(c.sepKey, c.sepPid)} ELSE {})
<1>1. CASE c.path = <<>>
  <2> DEFINE pc == IF c.rc = "OK" /\ c.sepKey > 0 THEN "root" ELSE "return"
  <2>1. pc \in {"root", "return"} /\ (pc = "root" => c.sepKey > 0)
    OBVIOUS
  <2>2. Up(c) = [c EXCEPT !.pc = pc, !.node = NoNode, !.sibling = NoNode]
    BY <1>1 DEF Up
  <2> HIDE DEF pc
  <2> QED BY <1>1, <2>1, <2>2 DEF CallSet
<1>2. CASE c.path # <<>>
  <2> DEFINE above == Last(c.path)
             d == [c EXCEPT !.path = Front(@), !.rc = "OK"]
  <2>1. c.path \in Seq(Path) /\ Len(c.path) \in Nat /\ Len(c.path) > 0
    BY <1>2, CallFields
  <2>2. above \in Path
    BY <2>1, ElementOfSeq DEF Last
  <2>3. Front(c.path) \in Seq(Path)
    BY <2>1 DEF Front
  <2>4. above.pid \in Nat /\ above.node \in ProperNodes
    BY <2>2 DEF Path
  <2>5. /\ d \in CallSet /\ d.pc = "nodes" /\ d.key = c.key /\ d.rid = c.rid
        /\ d.path = Front(c.path) /\ d.sepKey = c.sepKey
    BY <2>3 DEF CallSet
  <2>6. Up(c) = IF c.sepKey > 0
                THEN Place(d, above.pid, above.node, Entry(c.sepKey, c.sepPid))
                ELSE [d EXCEPT !.pid = above.pid, !.node = above.node, !.sibling = NoNode]
    BY <1>2 DEF Up
  <2> HIDE DEF d, above
  <2>7. CASE c.sepKey > 0
    <3>1. Entry(c.sepKey, c.sepPid) \in NodeEntries
      BY CallFields DEF Entry, NodeEntries
    <3>2. /\ above.node \in Nodes /\ Len(above.node.entries) <= Capacity(above.node)
          /\ SortedKeys(above.node.entries)
      BY <2>4, ProperFacts, NodeFacts
    <3> DEFINE u == Place(d, above.pid, above.node, Entry(c.sepKey, c.sepPid))
    <3>3. /\ u \in CallSet /\ u.pc = "nodes" /\ u.key = c.key /\ u.rid = c.rid
          /\ u.path = Front(c.path) /\ u.pid = above.pid /\ u.node \in ProperNodes
          /\ u.node.kind = above.node.kind
          /\ u.sibling # NoNode => u.sibling.kind = above.node.kind
          /\ u.sibling = NoNode => u.sepKey = -1
          /\ Buffered(u) = ToSet(above.node.entries) \cup {Entry(c.sepKey, c.sepPid)}
      BY <2>4, <2>5, <3>1, <3>2, PlaceFacts
    <3> HIDE DEF u
    <3>4. Up(c) = u
      BY <2>6, <2>7 DEF u
    <3> QED BY <1>2, <2>7, <3>3, <3>4 DEF above
  <2>8. CASE ~(c.sepKey > 0)
    <3>1. Up(c) = [d EXCEPT !.pid = above.pid, !.node = above.node, !.sibling = NoNode]
      BY <2>6, <2>8
    <3>2. above.node \in Nodes \cup {NoNode}
      BY <2>4 DEF ProperNodes
    <3>3. /\ Up(c) \in CallSet /\ Up(c).pc = "nodes" /\ Up(c).key = c.key
          /\ Up(c).rid = c.rid /\ Up(c).path = Front(c.path)
          /\ Up(c).pid = above.pid /\ Up(c).node = above.node /\ Up(c).sibling = NoNode
          /\ Up(c).sepKey = c.sepKey
      BY <2>4, <2>5, <3>1, <3>2 DEF CallSet
    <3>4. Buffered(Up(c)) = ToSet(above.node.entries)
      BY <3>3 DEF Buffered, NoNode, Node, ToSet
    <3> QED BY <1>2, <2>4, <2>8, <3>3, <3>4 DEF above
  <2> QED BY <2>7, <2>8
<1> QED BY <1>1, <1>2
-----------------------------------------------------------------------------
(* Each step keeps TypeInv.                                                *)

LEMMA InitTyped == Init => TypeInv
<1> SUFFICES ASSUME Init PROVE TypeInv
  OBVIOUS
<1>1. page \in Seq(ProperNodes)
  BY DEF Init
<1>2. header \in Roots
  BY DEF Init, NoFile, Roots
<1>3. Idle \in CallSet /\ Idle.pc = "idle" /\ Idle.rid = 0
  BY DEF Idle, CallSet
<1>4. CallOK
  BY <1>3 DEF Init, CallOK
<1>5. DoneOK /\ MemoryOK
  BY BTreeIndexAssumption DEF Init, DoneOK, MemoryOK
<1> QED BY <1>1, <1>2, <1>4, <1>5 DEF Init, TypeInv, NoCursor

LEMMA IdleFacts ==
  /\ Idle \in CallSet /\ Idle.pc = "idle" /\ Idle.rid = 0 /\ Idle.sibling = NoNode
BY DEF Idle, CallSet

\* Open, close and the end of an object.
LEMMA ObjectTyped ==
  ASSUME TypeInv, NEW m \in {"r", "w"},
         OpenOK(m) \/ OpenFails(m) \/ OpenNew \/ OpenGarbage \/ Close \/ Drop
  PROVE  TypeInv'
<1>1. CASE OpenOK(m)
  BY <1>1 DEF TypeInv, OpenOK, Roots, MemoryOK, DoneOK, CallOK
<1>2. CASE OpenFails(m)
  BY <1>2 DEF TypeInv, OpenFails, memory, MemoryOK, DoneOK, CallOK
<1>3. CASE OpenNew
  BY <1>3 DEF TypeInv, OpenNew, Garbage, Roots, MemoryOK, DoneOK, CallOK
<1>4. CASE OpenGarbage
  BY <1>4 DEF TypeInv, OpenGarbage, memory, MemoryOK, DoneOK, CallOK
<1>5. CASE Close
  <2>1. header' \in Roots
    BY <1>5 DEF TypeInv, Close, Roots, MemoryOK
  <2>2. mode' \in {"closed", "r", "w", "wild"} /\ cursor' \in [pid : Int, eid : Int]
    BY <1>5 DEF TypeInv, Close, NoCursor
  <2>3. CallOK' /\ MemoryOK' /\ DoneOK'
    BY <1>5 DEF TypeInv, Close, memory, MemoryOK, DoneOK, CallOK
  <2> QED BY <1>5, <2>1, <2>2, <2>3 DEF TypeInv, Close
<1>6. CASE Drop
  <2>1. CallOK'
    BY <1>6, IdleFacts DEF TypeInv, Drop, CallOK, DoneOK
  <2>2. MemoryOK' /\ DoneOK' /\ cursor' \in [pid : Int, eid : Int]
    BY <1>6 DEF TypeInv, Drop, MemoryOK, DoneOK, NoCursor
  <2> QED BY <1>6, <2>1, <2>2 DEF TypeInv, Drop
<1> QED BY <1>1, <1>2, <1>3, <1>4, <1>5, <1>6

\* What a call finds when it begins, and what Calls leaves.
LEMMA CallsFacts ==
  ASSUME TypeInv, NEW k \in Keys, Calls(k)
  PROVE  /\ k \in Int /\ tail \in Nat /\ Entry(k, tail) \in NodeEntries
         /\ mode = "w" /\ tail' = tail + 1 /\ DoneOK' /\ MemoryOK'
         /\ UNCHANGED <<header, page, mode, memory, cursor, ret, done>>
<1>1. /\ mode = "w" /\ tail <= MaxInserts /\ tail' = tail + 1
      /\ UNCHANGED <<header, page, mode, memory, cursor, ret, done>>
  BY DEF Calls
<1>2. k \in Int /\ tail \in Nat /\ Entry(k, tail) \in NodeEntries
  BY BTreeIndexAssumption DEF TypeInv, DoneOK, Entry, NodeEntries
<1>3. \A e \in done : e.ptr \in Nat /\ e.ptr < tail
  BY DEF TypeInv, DoneOK, NodeEntries
<1>4. tail' \in 1 .. MaxInserts + 1 /\ \A e \in done : e.ptr < tail'
  BY <1>1, <1>2, <1>3, BTreeIndexAssumption DEF TypeInv, DoneOK
<1>5. DoneOK'
  BY <1>1, <1>4 DEF TypeInv, DoneOK
<1>6. MemoryOK'
  BY <1>1 DEF TypeInv, MemoryOK, memory
<1> QED BY <1>1, <1>2, <1>5, <1>6

LEMMA BeginEmptyTyped ==
  ASSUME TypeInv, NEW k \in Keys, BeginEmpty(k)
  PROVE  TypeInv'
<1>1. Calls(k) /\ call' = [Idle EXCEPT !.pc = "first", !.key = k, !.rid = tail]
  BY DEF BeginEmpty
<1>2. /\ k \in Int /\ tail \in Nat /\ mode = "w" /\ tail' = tail + 1
      /\ DoneOK' /\ MemoryOK'
      /\ UNCHANGED <<header, page, mode, memory, cursor, ret, done>>
  BY <1>1, CallsFacts
<1>3. call' \in CallSet /\ call'.pc = "first" /\ call'.rid = tail
  BY <1>1, <1>2, IdleFacts DEF CallSet
<1>4. CallOK'
  BY <1>2, <1>3 DEF CallOK
<1> QED BY <1>2, <1>4 DEF TypeInv

\* The way down gives a path of nonleaf pages and the buffer of a leaf.
LEMMA BeginFacts ==
  ASSUME TypeInv, NEW k \in Keys, Begin(k)
  PROVE  \E leaf \in {LeafAt(LeafFor(k))} \cup (IF "read" \in Faults THEN {NewLeaf} ELSE {}),
            c \in CallSet :
              /\ call' = Place(c, LeafFor(k), leaf, Entry(k, tail))
              /\ c.pc = "nodes" /\ c.key = k /\ c.rid = tail
              /\ Len(c.path) = treeHeight - 1
              /\ \A h \in 1 .. Len(c.path) :
                   /\ c.path[h].pid = Descent(k)[h]
                   /\ Exists(c.path[h].pid)
                   /\ c.path[h].node = page[c.path[h].pid]
                   /\ c.path[h].node.kind = "inner"
              /\ leaf \in Nodes /\ Len(leaf.entries) <= Capacity(leaf)
              /\ SortedKeys(leaf.entries) /\ leaf.kind = "leaf"
              /\ LeafFor(k) \in Nat
              /\ Exists(LeafFor(k)) => page[LeafFor(k)].kind = "leaf"
<1> DEFINE way == Descent(k)
           path == [h \in 1 .. treeHeight - 1 |-> [pid |-> way[h], node |-> InnerAt(way[h])]]
           c == [Idle EXCEPT !.pc = "nodes", !.key = k, !.rid = tail, !.path = path]
<1>1. /\ treeHeight > 0 /\ OnTrack(k) /\ Calls(k)
      /\ \E leaf \in {LeafAt(LeafFor(k))} \cup (IF "read" \in Faults THEN {NewLeaf} ELSE {}) :
           call' = Place(c, LeafFor(k), leaf, Entry(k, tail))
  BY DEF Begin
<1>2. k \in Int /\ tail \in Nat
  BY <1>1, CallsFacts
<1>3. page \in Seq(ProperNodes) /\ MemoryOK /\ treeHeight \in Nat
  BY DEF TypeInv, MemoryOK
<1>4. /\ \A h \in 1 .. treeHeight - 1 :
           /\ way[h] \in Nat /\ Exists(way[h]) /\ InnerAt(way[h]) = page[way[h]]
           /\ page[way[h]].kind = "inner"
      /\ LeafFor(k) \in Nat
      /\ Exists(LeafFor(k)) => page[LeafFor(k)].kind = "leaf"
  BY <1>1, <1>2, <1>3, DescentFacts
<1> HIDE DEF way
<1>5. \A h \in 1 .. treeHeight - 1 :
        [pid |-> way[h], node |-> InnerAt(way[h])] \in Path
  <2> SUFFICES ASSUME NEW h \in 1 .. treeHeight - 1
               PROVE  [pid |-> way[h], node |-> InnerAt(way[h])] \in Path
    OBVIOUS
  <2>1. way[h] \in Nat /\ InnerAt(way[h]) \in ProperNodes
    BY <1>3, <1>4, PageFacts
  <2> QED BY <2>1 DEF Path
<1>6. /\ path \in Seq(Path) /\ Len(path) = treeHeight - 1
      /\ \A h \in 1 .. treeHeight - 1 : path[h].pid = way[h] /\ path[h].node = InnerAt(way[h])
  <2>1. treeHeight - 1 \in Nat
    BY <1>1, <1>3
  <2> QED BY <2>1, <1>5
<1> HIDE DEF path
<1>7. c \in CallSet /\ c.pc = "nodes" /\ c.key = k /\ c.rid = tail /\ c.path = path
  BY <1>2, <1>6, IdleFacts DEF CallSet
<1> HIDE DEF c
<1>8. PICK leaf \in {LeafAt(LeafFor(k))} \cup (IF "read" \in Faults THEN {NewLeaf} ELSE {}) :
        call' = Place(c, LeafFor(k), leaf, Entry(k, tail))
  BY <1>1
<1>9. /\ leaf \in Nodes /\ Len(leaf.entries) <= Capacity(leaf)
      /\ SortedKeys(leaf.entries) /\ leaf.kind = "leaf"
  <2>1. CASE leaf = NewLeaf
    BY <2>1, NewNodes, NodeFacts
  <2>2. CASE leaf # NewLeaf
    <3>1. leaf = LeafAt(LeafFor(k))
      BY <2>2
    <3>2. Exists(LeafFor(k)) /\ leaf = page[LeafFor(k)]
      BY <2>2, <3>1 DEF LeafAt
    <3>3. leaf \in ProperNodes /\ leaf.kind = "leaf"
      BY <1>3, <1>4, <3>2, PageFacts
    <3> QED BY <3>3, ProperFacts, NodeFacts
  <2> QED BY <2>1, <2>2
<1>10. \A h \in 1 .. Len(c.path) :
         /\ c.path[h].pid = way[h]
         /\ Exists(c.path[h].pid) /\ c.path[h].node = page[c.path[h].pid]
         /\ c.path[h].node.kind = "inner"
  BY <1>4, <1>6, <1>7
<1>11. Len(c.path) = treeHeight - 1
  BY <1>6, <1>7
<1> QED BY <1>4, <1>7, <1>8, <1>9, <1>10, <1>11 DEF way

LEMMA BeginTyped ==
  ASSUME TypeInv, NEW k \in Keys, Begin(k)
  PROVE  TypeInv'
<1>1. Calls(k) /\ treeHeight > 0
  BY DEF Begin
<1>2. /\ tail \in Nat /\ Entry(k, tail) \in NodeEntries
      /\ mode = "w" /\ tail' = tail + 1 /\ DoneOK' /\ MemoryOK'
      /\ UNCHANGED <<header, page, mode, memory, cursor, ret, done>>
  BY <1>1, CallsFacts
<1>3. PICK leaf \in Nodes, c \in CallSet :
        /\ call' = Place(c, LeafFor(k), leaf, Entry(k, tail))
        /\ c.pc = "nodes" /\ c.rid = tail
        /\ Len(leaf.entries) <= Capacity(leaf) /\ SortedKeys(leaf.entries)
        /\ LeafFor(k) \in Nat
  BY BeginFacts
<1>4. call' \in CallSet /\ call'.pc = "nodes" /\ call'.rid = tail /\ call'.node \in ProperNodes
  BY <1>2, <1>3, PlaceFacts
<1>5. CallOK'
  BY <1>1, <1>2, <1>4 DEF CallOK, memory
<1> QED BY <1>2, <1>5 DEF TypeInv

LEMMA NextFieldFacts ==
  ASSUME NEW n \in ProperNodes, NEW q \in Nat
  PROVE  /\ [n EXCEPT !.next = q] \in ProperNodes
         /\ [n EXCEPT !.next = q].entries = n.entries
         /\ [n EXCEPT !.next = q].kind = n.kind
<1> DEFINE m == [n EXCEPT !.next = q]
<1>1. m \in Nodes /\ m.entries = n.entries /\ m.kind = n.kind
  BY ProperFacts DEF Nodes
<1>2. Capacity(m) = Capacity(n)
  BY <1>1 DEF Capacity
<1> HIDE DEF m
<1>3. m \in ProperNodes
  BY <1>1, <1>2, ProperFacts DEF ProperNodes, Fits
<1> QED BY <1>1, <1>3 DEF m

LEMMA EndPidFacts ==
  ASSUME page \in Seq(ProperNodes)
  PROVE  EndPid \in Nat /\ EndPid > 0 /\ ~Exists(EndPid)
BY DEF EndPid, Exists

\* The first leaf, with one entry.
LEMMA FirstLeaf ==
  ASSUME TypeInv
  PROVE  /\ Insert(NewLeaf, Entry(call.key, call.rid)) \in ProperNodes
         /\ Insert(NewLeaf, Entry(call.key, call.rid)).kind = "leaf"
         /\ ToSet(Insert(NewLeaf, Entry(call.key, call.rid)).entries) = {Entry(call.key, call.rid)}
<1> DEFINE e == Entry(call.key, call.rid)
           n == Insert(NewLeaf, e)
<1>1. e \in NodeEntries
  BY CallFields DEF TypeInv, CallOK, Entry, NodeEntries
<1> HIDE DEF e
<1>2. NewLeaf \in Nodes /\ Len(NewLeaf.entries) < Capacity(NewLeaf)
  BY NewNodes, NodeFacts
<1>3. /\ Fits(n) /\ n.kind = NewLeaf.kind
      /\ ToSet(n.entries) = ToSet(NewLeaf.entries) \cup {e}
      /\ SortedKeys(NewLeaf.entries) => SortedKeys(n.entries)
  BY <1>1, <1>2, InsertFacts
<1> HIDE DEF n
<1>4. ToSet(NewLeaf.entries) = {} /\ SortedKeys(NewLeaf.entries)
  BY NewNodes DEF ToSet
<1>5. n \in ProperNodes /\ n.kind = "leaf" /\ ToSet(n.entries) = {e}
  BY <1>3, <1>4, NewNodes DEF ProperNodes, Fits
<1> QED BY <1>5 DEF n, e

LEMMA WriteFirstTyped ==
  ASSUME TypeInv, WriteFirst
  PROVE  TypeInv'
<1>1. call \in CallSet /\ call.rid < tail /\ mode = "w"
  BY DEF TypeInv, CallOK, WriteFirst
<1>2. /\ rootPid' = EndPid /\ treeHeight' = treeHeight + 1
      /\ UNCHANGED <<header, mode, cursor, ret, tail, done>>
      /\ \/ page' = Written(EndPid, Insert(NewLeaf, Entry(call.key, call.rid)))
         \/ page' = page
      /\ \/ call' = [call EXCEPT !.pc = "return"]
         \/ call' = [call EXCEPT !.pc = "return", !.rc = "-3"]
  BY DEF WriteFirst
<1>3. page' \in Seq(ProperNodes) /\ MemoryOK'
  <2> DEFINE n == Insert(NewLeaf, Entry(call.key, call.rid))
  <2>1. n \in ProperNodes
    BY FirstLeaf
  <2>2. page' = Written(EndPid, n) \/ page' = page
    BY <1>2
  <2> HIDE DEF n
  <2>3. page \in Seq(ProperNodes) /\ EndPid \in Nat
    BY EndPidFacts DEF TypeInv
  <2>4. Written(EndPid, n) \in Seq(ProperNodes)
    BY <2>1, <2>3, WrittenFacts, Zenon
  <2> QED BY <1>2, <2>2, <2>3, <2>4 DEF TypeInv, MemoryOK
<1>4. call' \in CallSet /\ call'.pc = "return" /\ call'.rid = call.rid
  BY <1>1, <1>2 DEF CallSet
<1>5. CallOK'
  BY <1>1, <1>2, <1>4 DEF CallOK
<1>6. DoneOK'
  BY <1>2 DEF TypeInv, DoneOK
<1> QED BY <1>2, <1>3, <1>5, <1>6 DEF TypeInv

\* What WriteSibling and WriteNode start from.
LEMMA NodesFacts ==
  ASSUME TypeInv, call.pc = "nodes"
  PROVE  /\ call \in CallSet /\ call.rid < tail /\ mode = "w" /\ treeHeight > 0
         /\ page \in Seq(ProperNodes) /\ call.node \in ProperNodes /\ call.pid \in Nat
         /\ call.node.next \in Nat /\ call.sibling \in ProperNodes \cup {NoNode}
         /\ EndPid \in Nat
BY CallFields, ProperFacts, NodeFacts, EndPidFacts DEF TypeInv, CallOK

\* Up from any state of the call leaves the call well typed.
LEMMA UpTyped ==
  ASSUME NEW c \in CallSet, c.pc = "nodes", c.rid < tail, mode = "w", treeHeight > 0
  PROVE  /\ Up(c) \in CallSet /\ Up(c).rid < tail
         /\ Up(c).pc \in {"nodes", "root", "return"}
         /\ Up(c).pc = "nodes" => Up(c).node \in ProperNodes
BY UpFacts

\* The call after its sibling is on disk.
SiblingDone ==
  [call EXCEPT !.sibling = NoNode, !.sepPid = EndPid,
               !.node.next = IF call.node.kind = "leaf" THEN EndPid ELSE @]

LEMMA SiblingDoneFacts ==
  ASSUME TypeInv, call.pc = "nodes"
  PROVE  /\ SiblingDone \in CallSet
         /\ SiblingDone.pc = call.pc /\ SiblingDone.rid = call.rid
         /\ SiblingDone.key = call.key /\ SiblingDone.path = call.path
         /\ SiblingDone.pid = call.pid /\ SiblingDone.sibling = NoNode
         /\ SiblingDone.node \in ProperNodes
         /\ SiblingDone.node.entries = call.node.entries
         /\ SiblingDone.node.kind = call.node.kind
<1> DEFINE next == IF call.node.kind = "leaf" THEN EndPid ELSE call.node.next
           node == [call.node EXCEPT !.next = next]
<1>1. next \in Nat
  BY NodesFacts
<1> HIDE DEF next
<1>2. /\ node \in ProperNodes /\ node.entries = call.node.entries
      /\ node.kind = call.node.kind
  BY <1>1, NodesFacts, NextFieldFacts
<1>3. SiblingDone = [call EXCEPT !.sibling = NoNode, !.sepPid = EndPid, !.node = node]
  BY NodesFacts DEF SiblingDone, CallSet, next
<1> HIDE DEF node
<1>4. node \in Nodes \cup {NoNode}
  BY <1>2, ProperFacts
<1> QED BY <1>2, <1>3, <1>4, NodesFacts DEF CallSet

LEMMA WriteSiblingTyped ==
  ASSUME TypeInv, WriteSibling
  PROVE  TypeInv'
<1> DEFINE c == [call EXCEPT !.sepPid = EndPid, !.rc = "1"]
           n == [call.sibling EXCEPT !.next = call.node.next]
<1>1. /\ call.pc = "nodes" /\ call.sibling # NoNode
      /\ UNCHANGED <<header, mode, memory, cursor, ret, tail, done>>
      /\ \/ page' = Written(EndPid, n) /\ call' = SiblingDone
         \/ page' = page /\ call' = Up(c)
  BY DEF WriteSibling, SiblingDone
<1>2. /\ call \in CallSet /\ call.rid < tail /\ mode = "w" /\ treeHeight > 0
      /\ page \in Seq(ProperNodes) /\ EndPid \in Nat
  BY <1>1, NodesFacts
<1>3. n \in ProperNodes
  BY <1>1, NodesFacts, NextFieldFacts
<1>4. c \in CallSet /\ c.pc = "nodes" /\ c.rid < tail
  BY <1>1, <1>2 DEF CallSet
<1> HIDE DEF c, n
<1>5. page' \in Seq(ProperNodes)
  <2>1. Written(EndPid, n) \in Seq(ProperNodes)
    BY <1>2, <1>3, WrittenFacts, Zenon
  <2> QED BY <1>1, <1>2, <2>1
<1>6. /\ call' \in CallSet /\ call'.rid < tail
      /\ call'.pc \in {"nodes", "root", "return"}
      /\ call'.pc = "nodes" => call'.node \in ProperNodes
  BY <1>1, <1>2, <1>4, UpTyped, SiblingDoneFacts
<1>7. CallOK' /\ MemoryOK' /\ DoneOK'
  BY <1>1, <1>2, <1>6 DEF TypeInv, CallOK, memory, MemoryOK, DoneOK
<1> QED BY <1>1, <1>5, <1>7 DEF TypeInv

LEMMA WriteNodeTyped ==
  ASSUME TypeInv, WriteNode
  PROVE  TypeInv'
<1> DEFINE c == [call EXCEPT !.rc = IF call.node.kind = "leaf" THEN "1" ELSE @]
<1>1. /\ call.pc = "nodes"
      /\ UNCHANGED <<header, mode, memory, cursor, ret, tail, done>>
      /\ \/ page' = Written(call.pid, call.node) /\ call' = Up(call)
         \/ page' = page /\ call' = Up(c)
  BY DEF WriteNode
<1>2. /\ call \in CallSet /\ call.rid < tail /\ mode = "w" /\ treeHeight > 0
      /\ page \in Seq(ProperNodes) /\ call.pid \in Nat /\ call.node \in ProperNodes
  BY <1>1, NodesFacts
<1>3. c \in CallSet /\ c.pc = "nodes" /\ c.rid < tail
  BY <1>1, <1>2 DEF CallSet
<1> HIDE DEF c
<1>4. page' \in Seq(ProperNodes)
  BY <1>1, <1>2, WrittenFacts
<1>5. /\ call' \in CallSet /\ call'.rid < tail
      /\ call'.pc \in {"nodes", "root", "return"}
      /\ call'.pc = "nodes" => call'.node \in ProperNodes
  BY <1>1, <1>2, <1>3, UpTyped
<1>6. CallOK' /\ MemoryOK' /\ DoneOK'
  BY <1>1, <1>2, <1>5 DEF TypeInv, CallOK, memory, MemoryOK, DoneOK
<1> QED BY <1>1, <1>4, <1>6 DEF TypeInv

LEMMA NewRootFacts ==
  ASSUME TypeInv, call.pc = "root"
  PROVE  /\ RootNode(rootPid, call.sepKey, call.sepPid) \in ProperNodes
         /\ RootNode(rootPid, call.sepKey, call.sepPid).kind = "inner"
<1>1. rootPid \in Nat /\ call.sepKey \in Int /\ call.sepPid \in Nat
  BY CallFields DEF TypeInv, CallOK, MemoryOK
<1> QED BY <1>1, RootFacts DEF ProperNodes, Fits

LEMMA WriteRootTyped ==
  ASSUME TypeInv, WriteRoot
  PROVE  TypeInv'
<1>1. /\ call.pc = "root" /\ rootPid' = EndPid /\ treeHeight' = treeHeight + 1
      /\ call' = [call EXCEPT !.pc = "return"]
      /\ UNCHANGED <<header, mode, cursor, ret, tail, done>>
      /\ \/ page' = Written(EndPid, RootNode(rootPid, call.sepKey, call.sepPid))
         \/ page' = page
  BY DEF WriteRoot
<1>2. page' \in Seq(ProperNodes) /\ MemoryOK'
  <2> DEFINE n == RootNode(rootPid, call.sepKey, call.sepPid)
  <2>1. n \in ProperNodes
    BY <1>1, NewRootFacts
  <2>2. page' = Written(EndPid, n) \/ page' = page
    BY <1>1
  <2> HIDE DEF n
  <2>3. page \in Seq(ProperNodes) /\ EndPid \in Nat
    BY EndPidFacts DEF TypeInv
  <2>4. Written(EndPid, n) \in Seq(ProperNodes)
    BY <2>1, <2>3, WrittenFacts, Zenon
  <2> QED BY <1>1, <2>2, <2>3, <2>4 DEF TypeInv, MemoryOK
<1>3. call \in CallSet /\ call.rid < tail /\ mode = "w"
  BY <1>1 DEF TypeInv, CallOK
<1>4. call' \in CallSet /\ call'.pc = "return" /\ call'.rid = call.rid
  BY <1>1, <1>3 DEF CallSet
<1>5. CallOK' /\ DoneOK'
  BY <1>1, <1>3, <1>4 DEF TypeInv, CallOK, DoneOK
<1> QED BY <1>1, <1>2, <1>5 DEF TypeInv

LEMMA ReturnTyped ==
  ASSUME TypeInv, Return
  PROVE  TypeInv'
<1> DEFINE e == Entry(call.key, call.rid)
<1>1. /\ call' = Idle /\ UNCHANGED <<header, page, mode, memory, cursor, tail>>
      /\ done' = done \/ done' = done \cup {e}
  BY DEF Return
<1>2. call \in CallSet /\ call.rid < tail /\ tail \in Nat /\ 0 < tail
  BY DEF TypeInv, CallOK, DoneOK
<1>3. e \in NodeEntries /\ e.ptr < tail
  BY <1>2, CallFields DEF Entry, NodeEntries
<1> HIDE DEF e
<1>4. DoneOK'
  BY <1>1, <1>3 DEF TypeInv, DoneOK
<1>5. CallOK' /\ MemoryOK'
  BY <1>1, <1>2, IdleFacts DEF TypeInv, CallOK, MemoryOK, memory
<1> QED BY <1>1, <1>4, <1>5 DEF TypeInv
-----------------------------------------------------------------------------
(* Searches and cursors.                                                   *)

LEMMA LocateTyped ==
  ASSUME TypeInv, NEW k \in Searched, Locate(k)
  PROVE  TypeInv'
<1>1. /\ OnTrack(k) /\ UNCHANGED <<header, page, mode, memory, call, tail, done>>
  BY DEF Locate
<1>2. k \in Int
  BY BTreeIndexAssumption
<1>3. page \in Seq(ProperNodes) /\ MemoryOK /\ treeHeight \in Nat /\ rootPid \in Int
  BY DEF TypeInv, MemoryOK
<1>4. cursor' \in [pid : Int, eid : Int]
  <2>1. CASE treeHeight = 0
    BY <1>3, <2>1 DEF Locate
  <2>2. CASE treeHeight # 0
    <3> DEFINE p == LeafFor(k)
               n == InnerAt(Descent(k)[treeHeight - 1])
    <3>1. p \in Int /\ (Exists(p) => UpTo(page[p].entries, k) \in Int)
      BY <1>1, <1>2, <1>3, <2>2, DescentFacts, PageFacts, ProperFacts, NodeFacts, UpToFacts
    <3>2. Len(n.entries) \in Int
      BY <1>3, PageFacts, ProperFacts, NewNodes, NodeFacts DEF InnerAt
    <3>3. \/ Exists(p) /\ cursor' = [pid |-> p, eid |-> UpTo(page[p].entries, k)]
          \/ cursor' = [pid |-> p, eid |-> 0]
          \/ cursor' = [pid |-> p, eid |-> Len(n.entries)]
      BY <2>2 DEF Locate
    <3> HIDE DEF p, n
    <3> QED BY <3>1, <3>2, <3>3
  <2> QED BY <2>1, <2>2
<1>5. CallOK' /\ MemoryOK' /\ DoneOK'
  BY <1>1 DEF TypeInv, CallOK, memory, MemoryOK, DoneOK
<1> QED BY <1>1, <1>4, <1>5 DEF TypeInv

LEMMA ReadTyped ==
  ASSUME TypeInv, ReadForward \/ ReadHeader
  PROVE  TypeInv'
<1>1. UNCHANGED <<header, page, mode, memory, call, tail, done>>
  BY DEF ReadForward, ReadHeader
<1>2. cursor' \in [pid : Int, eid : Int]
  <2>1. CASE ReadForward
    <3>1. page[cursor.pid].next \in Nat
      BY <2>1, PageFacts, ProperFacts, NodeFacts DEF ReadForward, TypeInv
    <3>2. cursor' = Advance(page[cursor.pid])
      BY <2>1 DEF ReadForward
    <3> QED BY <3>1, <3>2 DEF TypeInv, Advance
  <2>2. CASE ReadHeader
    BY <2>2 DEF ReadHeader, LostCursor
  <2> QED BY <2>1, <2>2
<1>3. CallOK' /\ MemoryOK' /\ DoneOK'
  BY <1>1 DEF TypeInv, CallOK, memory, MemoryOK, DoneOK
<1> QED BY <1>1, <1>2, <1>3 DEF TypeInv

\* Going astray, a call or a read that fails.
LEMMA OthersTyped ==
  ASSUME TypeInv, UNCHANGED <<header, page, memory, call, cursor, tail, done>>,
         mode' = mode \/ (mode' = "wild" /\ call.pc = "idle")
  PROVE  TypeInv'
<1>1. CallOK' /\ MemoryOK' /\ DoneOK'
  BY DEF TypeInv, CallOK, memory, MemoryOK, DoneOK
<1> QED BY <1>1 DEF TypeInv

LEMMA StepTyped == TypeInv /\ [Next]_vars => TypeInv'
<1> SUFFICES ASSUME TypeInv, [Next]_vars PROVE TypeInv'
  OBVIOUS
<1>1. ASSUME NEW m \in {"r", "w"}, OpenOK(m) \/ OpenFails(m) PROVE TypeInv'
  BY <1>1, ObjectTyped
<1>2. CASE OpenNew \/ OpenGarbage \/ Close \/ Drop
  <2>1. "r" \in {"r", "w"}
    OBVIOUS
  <2> QED BY <1>2, <2>1, ObjectTyped, Zenon
<1>3. ASSUME NEW k \in Keys, BeginEmpty(k) \/ Begin(k) PROVE TypeInv'
  BY <1>3, BeginEmptyTyped, BeginTyped
<1>4. CASE WriteFirst \/ WriteSibling \/ WriteNode \/ WriteRoot \/ Return
  BY <1>4, WriteFirstTyped, WriteSiblingTyped, WriteNodeTyped, WriteRootTyped, ReturnTyped
<1>5. ASSUME NEW k \in Searched, Locate(k) PROVE TypeInv'
  BY <1>5, LocateTyped
<1>6. ASSUME NEW k \in Keys \cup Searched, Astray(k) PROVE TypeInv'
  BY <1>6, OthersTyped DEF Astray
<1>7. CASE LocateFails
  BY <1>7, OthersTyped DEF LocateFails
<1>8. CASE ReadForward \/ ReadHeader
  BY <1>8, ReadTyped
<1>9. CASE ReadFails
  BY <1>9, OthersTyped DEF ReadFails
<1>10. CASE UNCHANGED vars
  BY <1>10, OthersTyped DEF vars
<1> QED BY <1>1, <1>2, <1>3, <1>4, <1>5, <1>6, <1>7, <1>8, <1>9, <1>10 DEF Next
-----------------------------------------------------------------------------
(* What follows.                                                           *)

LEMMA TypeInvFacts == TypeInv => TypeOK /\ NodesSorted
<1> SUFFICES ASSUME TypeInv PROVE TypeOK /\ NodesSorted
  OBVIOUS
<1>1. ASSUME NEW p \in 1 .. Len(page)
      PROVE  /\ page[p].kind \in {"leaf", "inner"}
             /\ page[p].entries # <<>> /\ Len(page[p].entries) <= Capacity(page[p])
             /\ \A e \in Entries(p) : e.key \in Int /\ e.ptr \in Nat
             /\ page[p].next \in Nat
             /\ SortedKeys(page[p].entries)
  <2>1. page[p] \in ProperNodes
    BY PageFacts DEF TypeInv, Exists
  <2>2. /\ page[p].entries \in Seq(NodeEntries) /\ page[p].kind \in {"leaf", "inner"}
        /\ page[p].next \in Nat /\ Capacity(page[p]) \in Nat
        /\ Len(page[p].entries) \in 1 .. Capacity(page[p])
        /\ page[p].entries # <<>> /\ SortedKeys(page[p].entries)
    BY <2>1, ProperFacts, NodeFacts
  <2>3. \A e \in Entries(p) : e \in NodeEntries
    BY <2>2, KeysAreInts DEF Entries, ToSet
  <2> QED BY <2>2, <2>3 DEF NodeEntries
<1>2. header \in [rootPid : Int, treeHeight : Nat] /\ rootPid \in Int /\ treeHeight \in Nat
  BY DEF TypeInv, Roots, MemoryOK
<1>3. call.pc \in {"idle", "first", "nodes", "root", "return"}
  BY CallFields DEF TypeInv, CallOK
<1> QED BY <1>1, <1>2, <1>3 DEF TypeInv, DoneOK, TypeOK, NodesSorted

\* Every variable keeps its type and no node on disk has more keys than its
\* page has room for (BTLeafNode, BTNonLeafNode: maxNumKeys), whichever page
\* writes and reads fail and whenever the object is lost.
THEOREM TypeCorrect == Spec => []TypeOK
<1>1. TypeInv => TypeOK
  BY TypeInvFacts
<1> QED BY <1>1, InitTyped, StepTyped, PTL DEF Spec

\* The keys in a node on disk are in order, with the same faults.
THEOREM Sorted == Spec => []NodesSorted
<1>1. TypeInv => NodesSorted
  BY TypeInvFacts
<1> QED BY <1>1, InitTyped, StepTyped, PTL DEF Spec
-----------------------------------------------------------------------------
(* No pair is lost when page writes and reads succeed, whenever the object *)
(* is lost: the pairs that a leaf has on disk are, until it is written     *)
(* again, in the buffers that replace it.                                  *)

LeafPairs == UNION {Entries(p) : p \in LeafPages}
OtherPairs(p) == UNION {Entries(q) : q \in LeafPages \ {p}}
Pair == Entry(call.key, call.rid)
Buffers == Buffered(call)

\* The nodes above are nonleaf pages on disk.
PathPages ==
  call.pc = "nodes" =>
    \A h \in 1 .. Len(call.path) :
      /\ Exists(call.path[h].pid) /\ page[call.path[h].pid].kind = "inner"
      /\ call.path[h].node.kind = "inner"

SiblingAlike ==
  call.pc = "nodes" /\ call.sibling # NoNode => call.sibling.kind = call.node.kind

CoversLeaf ==
  call.pc = "nodes" /\ call.node.kind = "leaf" =>
    /\ Exists(call.pid) => page[call.pid].kind = "leaf"
    /\ Exists(call.pid) => Entries(call.pid) \subseteq Buffers \cup OtherPairs(call.pid)
    /\ Pair \in Buffers \cup OtherPairs(call.pid)
    /\ call.sibling # NoNode => Exists(call.pid)

AboveLeaf ==
  call.pc = "nodes" /\ call.node.kind = "inner" =>
    Exists(call.pid) /\ page[call.pid].kind = "inner" /\ Pair \in LeafPairs

Returned == call.pc \in {"root", "return"} => Pair \in LeafPairs

CallCovers == PathPages /\ SiblingAlike /\ CoversLeaf /\ AboveLeaf /\ Returned

KeptInv == TypeInv /\ CallCovers /\ done \subseteq LeafPairs

LEMMA KeptInvFacts == KeptInv => Kept
BY DEF KeptInv, Kept, LeafPairs

\* What is on the leaves after a page has been written.
LEMMA WrittenPairs ==
  ASSUME TypeInv, NEW p \in Nat, NEW n \in ProperNodes, page' = Written(p, n)
  PROVE  /\ \A q : Exists(q) => Exists(q)' /\ page'[q] = IF q = p THEN n ELSE page[q]
         /\ OtherPairs(p) \subseteq LeafPairs'
         /\ n.kind = "leaf" => ToSet(n.entries) \subseteq LeafPairs'
         /\ \A r : Exists(r) /\ ~Exists(p) =>
              /\ OtherPairs(r) \subseteq OtherPairs(r)'
              /\ n.kind = "leaf" => ToSet(n.entries) \subseteq OtherPairs(r)'
<1>1. /\ \A q \in 1 .. Len(page) : q \in 1 .. Len(page') /\ page'[q] = IF q = p THEN n ELSE page[q]
      /\ \E q \in 1 .. Len(page') : page'[q] = n /\ q = IF Exists(p) THEN p ELSE EndPid
  <2> DEFINE w == Written(p, n)
  <2>1. page \in Seq(ProperNodes)
    BY DEF TypeInv
  <2>2. /\ \A q \in 1 .. Len(page) : q \in 1 .. Len(w) /\ w[q] = IF q = p THEN n ELSE page[q]
        /\ \E q \in 1 .. Len(w) : w[q] = n /\ q = IF Exists(p) THEN p ELSE EndPid
    BY <2>1, WrittenFacts, Zenon
  <2>3. page' = w
    OBVIOUS
  <2> HIDE DEF w
  <2> QED BY <2>2, <2>3
<1>2. \A q \in LeafPages : q # p => q \in LeafPages' /\ Entries(q)' = Entries(q)
  BY <1>1 DEF LeafPages, Entries
<1>3. PICK w \in 1 .. Len(page') : page'[w] = n /\ w = IF Exists(p) THEN p ELSE EndPid
  BY <1>1
<1>4. n.kind = "leaf" => w \in LeafPages' /\ Entries(w)' = ToSet(n.entries)
  BY <1>3 DEF LeafPages, Entries
<1>5. ~Exists(EndPid) /\ \A r : Exists(r) /\ ~Exists(p) => w # r /\ p \notin LeafPages
  BY <1>3, EndPidFacts DEF TypeInv, LeafPages, Exists
<1>6. OtherPairs(p) \subseteq LeafPairs'
  BY <1>2 DEF OtherPairs, LeafPairs
<1>7. n.kind = "leaf" => ToSet(n.entries) \subseteq LeafPairs'
  BY <1>4 DEF LeafPairs
<1>8. ASSUME NEW r, Exists(r), ~Exists(p)
      PROVE  /\ OtherPairs(r) \subseteq OtherPairs(r)'
             /\ n.kind = "leaf" => ToSet(n.entries) \subseteq OtherPairs(r)'
  <2>1. OtherPairs(r) \subseteq OtherPairs(r)'
    BY <1>2, <1>5, <1>8 DEF OtherPairs
  <2>2. n.kind = "leaf" => ToSet(n.entries) \subseteq OtherPairs(r)'
    BY <1>4, <1>5, <1>8 DEF OtherPairs
  <2> QED BY <2>1, <2>2
<1>9. \A q : Exists(q) => Exists(q)' /\ page'[q] = IF q = p THEN n ELSE page[q]
  BY <1>1 DEF Exists
<1> QED BY <1>6, <1>7, <1>8, <1>9

\* A page at the end of the file: the leaves keep what they have.
LEMMA AppendedPairs ==
  ASSUME TypeInv, NEW n \in ProperNodes, page' = Written(EndPid, n)
  PROVE  /\ LeafPairs \subseteq LeafPairs'
         /\ n.kind = "leaf" => ToSet(n.entries) \subseteq LeafPairs'
<1>1. EndPid \in Nat /\ ~Exists(EndPid)
  BY EndPidFacts DEF TypeInv
<1>2. LeafPairs \subseteq OtherPairs(EndPid)
  BY <1>1 DEF LeafPairs, OtherPairs, LeafPages, Exists
<1>3. /\ OtherPairs(EndPid) \subseteq LeafPairs'
      /\ n.kind = "leaf" => ToSet(n.entries) \subseteq LeafPairs'
  BY <1>1, WrittenPairs, Zenon
<1> QED BY <1>2, <1>3

\* Steps that leave the pages alone.
LEMMA SameKept ==
  ASSUME KeptInv, TypeInv', UNCHANGED <<page, done>>,
         call' = call \/ call' = Idle \/ call'.pc = "first"
  PROVE  KeptInv'
<1>1. done' \subseteq LeafPairs'
  BY DEF KeptInv, LeafPairs, LeafPages, Entries
<1>2. CASE call' = call
  BY <1>1, <1>2 DEF KeptInv, CallCovers, PathPages, SiblingAlike, CoversLeaf, AboveLeaf,
    Returned, Buffers, Pair, OtherPairs, LeafPairs, LeafPages, Entries, Exists
<1>3. CASE call'.pc \in {"idle", "first"}
  BY <1>1, <1>3 DEF KeptInv, CallCovers, PathPages, SiblingAlike, CoversLeaf, AboveLeaf, Returned
<1> QED BY <1>2, <1>3, IdleFacts

\* The leaf found is on disk, or there is none and the buffer is empty.
LEMMA BeginKept ==
  ASSUME KeptInv, TypeInv', "read" \notin Faults, NEW k \in Keys, Begin(k)
  PROVE  KeptInv'
<1> DEFINE p == LeafFor(k)
           e == Entry(k, tail)
<1>1. TypeInv /\ page \in Seq(ProperNodes) /\ Calls(k)
  BY DEF KeptInv, TypeInv, Begin
<1>2. page' = page /\ done' = done /\ e \in NodeEntries
  BY <1>1, CallsFacts
<1>3. PICK c \in CallSet :
        /\ call' = Place(c, p, LeafAt(p), e)
        /\ c.pc = "nodes" /\ c.key = k /\ c.rid = tail
        /\ \A h \in 1 .. Len(c.path) :
             /\ Exists(c.path[h].pid) /\ c.path[h].node = page[c.path[h].pid]
             /\ c.path[h].node.kind = "inner"
        /\ LeafAt(p) \in Nodes /\ Len(LeafAt(p).entries) <= Capacity(LeafAt(p))
        /\ SortedKeys(LeafAt(p).entries) /\ LeafAt(p).kind = "leaf"
        /\ p \in Nat /\ (Exists(p) => page[p].kind = "leaf")
  <2>1. PICK leaf \in {LeafAt(p)}, c \in CallSet :
          /\ call' = Place(c, p, leaf, e)
          /\ c.pc = "nodes" /\ c.key = k /\ c.rid = tail
          /\ \A h \in 1 .. Len(c.path) :
               /\ Exists(c.path[h].pid) /\ c.path[h].node = page[c.path[h].pid]
               /\ c.path[h].node.kind = "inner"
          /\ leaf \in Nodes /\ Len(leaf.entries) <= Capacity(leaf)
          /\ SortedKeys(leaf.entries) /\ leaf.kind = "leaf"
          /\ p \in Nat /\ (Exists(p) => page[p].kind = "leaf")
    BY <1>1, BeginFacts
  <2>2. leaf = LeafAt(p)
    OBVIOUS
  <2> HIDE DEF p, e
  <2> QED BY <2>1, <2>2
<1> HIDE DEF p, e
<1>4. /\ call'.pc = "nodes" /\ call'.path = c.path /\ call'.key = k /\ call'.rid = tail
      /\ call'.pid = p /\ call'.node.kind = "leaf"
      /\ call'.sibling # NoNode => Full(LeafAt(p)) /\ call'.sibling.kind = "leaf"
      /\ Buffered(call') = ToSet(LeafAt(p).entries) \cup {e}
  <2> DEFINE n == LeafAt(p)
             d == Place(c, p, n, e)
  <2>1. /\ n \in Nodes /\ Len(n.entries) <= Capacity(n) /\ SortedKeys(n.entries)
        /\ p \in Nat /\ n.kind = "leaf" /\ call' = d
    BY <1>3
  <2> HIDE DEF n
  <2>2. /\ d.pc = c.pc /\ d.path = c.path /\ d.key = c.key /\ d.rid = c.rid
        /\ d.pid = p /\ d.node.kind = n.kind
        /\ d.sibling # NoNode => Full(n) /\ d.sibling.kind = n.kind
        /\ Buffered(d) = ToSet(n.entries) \cup {e}
    BY <1>2, <2>1, PlaceFacts
  <2> HIDE DEF d
  <2>3. n = LeafAt(p)
    BY DEF n
  <2> QED BY <1>3, <2>1, <2>2, <2>3
<1>5. Full(LeafAt(p)) => Exists(p)
  BY NewNodes, NodeFacts DEF LeafAt, Full
<1>6. Exists(p) => LeafAt(p) = page[p]
  BY DEF LeafAt
<1>7. Pair' = e /\ Buffers' = ToSet(LeafAt(p).entries) \cup {e}
  BY <1>4 DEF Pair, Buffers, e
<1>8. PathPages' /\ SiblingAlike' /\ AboveLeaf' /\ Returned'
  BY <1>2, <1>3, <1>4 DEF PathPages, SiblingAlike, AboveLeaf, Returned, Exists
<1>9. CoversLeaf'
  BY <1>2, <1>3, <1>4, <1>5, <1>6, <1>7 DEF CoversLeaf, Entries, Exists
<1>10. done' \subseteq LeafPairs'
  BY <1>2 DEF KeptInv, LeafPairs, LeafPages, Entries
<1> QED BY <1>8, <1>9, <1>10 DEF KeptInv, CallCovers

LEMMA WriteFirstKept ==
  ASSUME KeptInv, TypeInv', "write" \notin Faults, WriteFirst
  PROVE  KeptInv'
<1> DEFINE n == Insert(NewLeaf, Entry(call.key, call.rid))
<1>1. /\ page' = Written(EndPid, n) /\ done' = done
      /\ call' = [call EXCEPT !.pc = "return"]
  BY DEF WriteFirst
<1>2. TypeInv /\ call \in CallSet
  BY DEF KeptInv, TypeInv, CallOK
<1>3. n \in ProperNodes /\ n.kind = "leaf" /\ ToSet(n.entries) = {Pair}
  BY <1>2, FirstLeaf DEF Pair
<1> HIDE DEF n
<1>4. LeafPairs \subseteq LeafPairs' /\ Pair \in LeafPairs'
  BY <1>1, <1>2, <1>3, AppendedPairs
<1>5. call'.pc = "return" /\ Pair' = Pair
  BY <1>1, <1>2 DEF Pair, CallSet
<1>6. CallCovers'
  BY <1>4, <1>5 DEF CallCovers, PathPages, SiblingAlike, CoversLeaf, AboveLeaf, Returned
<1> QED BY <1>1, <1>4, <1>6 DEF KeptInv

LEMMA WriteRootKept ==
  ASSUME KeptInv, TypeInv', "write" \notin Faults, WriteRoot
  PROVE  KeptInv'
<1> DEFINE n == RootNode(rootPid, call.sepKey, call.sepPid)
<1>1. /\ call.pc = "root" /\ page' = Written(EndPid, n) /\ done' = done
      /\ call' = [call EXCEPT !.pc = "return"]
  BY DEF WriteRoot
<1>2. TypeInv /\ call \in CallSet /\ Pair \in LeafPairs
  BY <1>1 DEF KeptInv, TypeInv, CallOK, CallCovers, Returned
<1>3. n \in ProperNodes
  BY <1>1, <1>2, NewRootFacts
<1> HIDE DEF n
<1>4. LeafPairs \subseteq LeafPairs'
  BY <1>1, <1>2, <1>3, AppendedPairs
<1>5. call'.pc = "return" /\ Pair' = Pair
  BY <1>1, <1>2 DEF Pair, CallSet
<1>6. CallCovers'
  BY <1>2, <1>4, <1>5 DEF CallCovers, PathPages, SiblingAlike, CoversLeaf, AboveLeaf, Returned
<1> QED BY <1>1, <1>4, <1>6 DEF KeptInv

LEMMA ReturnKept ==
  ASSUME KeptInv, TypeInv', Return
  PROVE  KeptInv'
<1>1. /\ call.pc = "return" /\ call' = Idle /\ page' = page
      /\ done' = done \/ done' = done \cup {Pair}
  BY DEF Return, Pair
<1>2. LeafPairs' = LeafPairs
  BY <1>1 DEF LeafPairs, LeafPages, Entries
<1>3. Pair \in LeafPairs /\ done \subseteq LeafPairs
  BY <1>1 DEF KeptInv, CallCovers, Returned
<1>4. CallCovers'
  BY <1>1, IdleFacts DEF CallCovers, PathPages, SiblingAlike, CoversLeaf, AboveLeaf, Returned
<1> QED BY <1>1, <1>2, <1>3, <1>4 DEF KeptInv

\* A sibling that is written moves its entries to a leaf of their own; no
\* other page is touched.
LEMMA WriteSiblingKept ==
  ASSUME KeptInv, TypeInv', "write" \notin Faults, WriteSibling
  PROVE  KeptInv'
<1> DEFINE n == [call.sibling EXCEPT !.next = call.node.next]
<1>1. /\ call.pc = "nodes" /\ call.sibling # NoNode /\ page' = Written(EndPid, n)
      /\ call' = SiblingDone /\ done' = done
  BY DEF WriteSibling, SiblingDone
<1>2. TypeInv /\ EndPid \in Nat /\ ~Exists(EndPid) /\ page \in Seq(ProperNodes)
  BY EndPidFacts DEF KeptInv, TypeInv
<1>3. /\ n \in ProperNodes /\ n.kind = call.node.kind
      /\ ToSet(n.entries) = ToSet(call.sibling.entries)
  BY <1>1, <1>2, NodesFacts, NextFieldFacts DEF KeptInv, CallCovers, SiblingAlike
<1> HIDE DEF n
<1>4. /\ call'.pc = "nodes" /\ call'.path = call.path /\ call'.pid = call.pid
      /\ call'.node.kind = call.node.kind /\ call'.node.entries = call.node.entries
      /\ call'.sibling = NoNode /\ Pair' = Pair
  BY <1>1, <1>2, SiblingDoneFacts DEF Pair
<1>5. LeafPairs \subseteq LeafPairs'
  BY <1>1, <1>2, <1>3, AppendedPairs
<1>6. /\ \A q : Exists(q) => Exists(q)' /\ page'[q] = IF q = EndPid THEN n ELSE page[q]
      /\ \A r : Exists(r) /\ ~Exists(EndPid) =>
           /\ OtherPairs(r) \subseteq OtherPairs(r)'
           /\ n.kind = "leaf" => ToSet(n.entries) \subseteq OtherPairs(r)'
  BY <1>1, <1>2, <1>3, WrittenPairs, Zenon
<1>7. \A q : Exists(q) => Exists(q)' /\ page'[q] = page[q]
  BY <1>2, <1>6
<1>8. PathPages' /\ SiblingAlike' /\ Returned'
  BY <1>1, <1>4, <1>7 DEF KeptInv, CallCovers, PathPages, SiblingAlike, Returned
<1>9. AboveLeaf'
  BY <1>1, <1>4, <1>5, <1>7 DEF KeptInv, CallCovers, AboveLeaf
<1>10. CoversLeaf'
  <2> SUFFICES ASSUME call.node.kind = "leaf" PROVE CoversLeaf'
    BY <1>4 DEF CoversLeaf
  <2>1. /\ Exists(call.pid) /\ page[call.pid].kind = "leaf"
        /\ Entries(call.pid) \subseteq Buffers \cup OtherPairs(call.pid)
        /\ Pair \in Buffers \cup OtherPairs(call.pid)
    BY <1>1 DEF KeptInv, CallCovers, CoversLeaf
  <2>2. Exists(call.pid)' /\ page'[call.pid] = page[call.pid]
    BY <1>4, <1>7, <2>1 DEF Exists
  <2>3. page'[call'.pid].kind = "leaf"
    BY <1>4, <2>1, <2>2
  <2>4. OtherPairs(call.pid) \subseteq OtherPairs(call.pid)'
    <3>1. \A r : r = call.pid => OtherPairs(r) \subseteq OtherPairs(r)'
      BY <1>2, <1>6, <2>1
    <3> QED BY <1>4, <3>1 DEF OtherPairs
  <2>5. ToSet(call.sibling.entries) \subseteq OtherPairs(call.pid)'
    <3>1. \A r : r = call.pid => ToSet(n.entries) \subseteq OtherPairs(r)'
      BY <1>2, <1>3, <1>6, <2>1
    <3> QED BY <1>3, <1>4, <3>1 DEF OtherPairs
  <2>6. Buffers \subseteq Buffers' \cup OtherPairs(call.pid)'
    BY <1>4, <2>5 DEF Buffers, Buffered
  <2>7. Entries(call.pid)' = Entries(call.pid)
    BY <1>4, <2>2 DEF Entries
  <2> QED BY <1>4, <2>1, <2>2, <2>3, <2>4, <2>6, <2>7 DEF CoversLeaf
<1>11. done' \subseteq LeafPairs'
  BY <1>1, <1>5 DEF KeptInv
<1> QED BY <1>8, <1>9, <1>10, <1>11 DEF KeptInv, CallCovers

\* The state of the call one level up.
LEMMA UpCovers ==
  ASSUME TypeInv, call.pc = "nodes", PathPages, call' = Up(call),
         \A q : Exists(q) /\ page[q].kind = "inner" =>
                 Exists(q)' /\ page'[q].kind = "inner",
         Pair \in LeafPairs'
  PROVE  CallCovers'
<1>1. call \in CallSet /\ call.path \in Seq(Path) /\ Len(call.path) \in Nat
  BY CallFields DEF TypeInv, CallOK
<1>2. /\ call'.key = call.key /\ call'.rid = call.rid
      /\ call.path = <<>> => call'.pc \in {"root", "return"}
      /\ call.path # <<>> =>
           /\ call'.pc = "nodes" /\ call'.path = Front(call.path)
           /\ call'.pid = Last(call.path).pid
           /\ call'.node.kind = Last(call.path).node.kind
           /\ call'.sibling # NoNode => call'.sibling.kind = call'.node.kind
  BY <1>1, UpFacts
<1>3. Pair' = Pair
  BY <1>2 DEF Pair
<1>4. CASE call.path = <<>>
  BY <1>2, <1>3, <1>4
     DEF CallCovers, PathPages, SiblingAlike, CoversLeaf, AboveLeaf, Returned
<1>5. CASE call.path # <<>>
  <2>1. Len(call.path) \in 1 .. Len(call.path)
    BY <1>1, <1>5
  <2>2. \A h \in 1 .. Len(call.path) :
          /\ call.path[h].pid \in 1 .. Len(page')
          /\ page'[call.path[h].pid].kind = "inner"
          /\ call.path[h].node.kind = "inner"
    BY DEF PathPages, Exists
  <2>3. /\ Last(call.path).pid \in 1 .. Len(page')
        /\ page'[Last(call.path).pid].kind = "inner"
        /\ Last(call.path).node.kind = "inner"
    BY <2>1, <2>2 DEF Last
  <2>4. /\ Len(Front(call.path)) = Len(call.path) - 1
        /\ \A h \in 1 .. Len(call.path) - 1 : Front(call.path)[h] = call.path[h]
    BY <1>1, <2>1 DEF Front
  <2>5. PathPages'
    <3> SUFFICES ASSUME NEW h \in 1 .. Len(call'.path)
                 PROVE  /\ call'.path[h].pid \in 1 .. Len(page')
                        /\ page'[call'.path[h].pid].kind = "inner"
                        /\ call'.path[h].node.kind = "inner"
      BY DEF PathPages, Exists
    <3>1. h \in 1 .. Len(call.path) /\ call'.path[h] = call.path[h]
      BY <1>1, <1>2, <1>5, <2>4
    <3> QED BY <2>2, <3>1
  <2>6. AboveLeaf' /\ CoversLeaf' /\ SiblingAlike' /\ Returned'
    BY <1>2, <1>3, <1>5, <2>3 DEF AboveLeaf, CoversLeaf, SiblingAlike, Returned, Exists
  <2> QED BY <2>5, <2>6 DEF CallCovers
<1> QED BY <1>4, <1>5

\* The node takes the place of the page it was read from, all of whose
\* entries it holds unless they are on another leaf by now.
LEMMA WriteNodeKept ==
  ASSUME KeptInv, TypeInv', "write" \notin Faults, WriteNode
  PROVE  KeptInv'
<1> DEFINE p == call.pid
           n == call.node
<1>1. /\ call.pc = "nodes" /\ call.sibling = NoNode /\ page' = Written(p, n)
      /\ call' = Up(call) /\ done' = done
  BY DEF WriteNode
<1>2. TypeInv /\ p \in Nat /\ n \in ProperNodes /\ n.kind \in {"leaf", "inner"}
  BY <1>1, NodesFacts, ProperFacts, NodeFacts DEF KeptInv
<1> HIDE DEF p, n
<1>3. /\ \A q : Exists(q) => Exists(q)' /\ page'[q] = IF q = p THEN n ELSE page[q]
      /\ OtherPairs(p) \subseteq LeafPairs'
      /\ n.kind = "leaf" => ToSet(n.entries) \subseteq LeafPairs'
  BY <1>1, <1>2, WrittenPairs, Zenon
<1>4. /\ LeafPairs \subseteq LeafPairs' /\ Pair \in LeafPairs'
      /\ Exists(p) => page[p].kind = n.kind
  <2>1. CASE n.kind = "leaf"
    <3>1. /\ Exists(p) => page[p].kind = "leaf" /\ Entries(p) \subseteq Buffers \cup OtherPairs(p)
          /\ Pair \in Buffers \cup OtherPairs(p)
      BY <1>1, <2>1 DEF KeptInv, CallCovers, CoversLeaf, n, p
    <3>2. Buffers = ToSet(n.entries)
      <4>1. ToSet(NoNode.entries) = {}
        BY DEF NoNode, Node, ToSet
      <4> QED BY <1>1, <4>1 DEF Buffers, Buffered, n
    <3>3. LeafPairs \subseteq OtherPairs(p) \cup (IF Exists(p) THEN Entries(p) ELSE {})
      BY DEF LeafPairs, OtherPairs, LeafPages, Exists
    <3> QED BY <1>3, <2>1, <3>1, <3>2, <3>3
  <2>2. CASE n.kind = "inner"
    <3>1. Exists(p) /\ page[p].kind = "inner" /\ Pair \in LeafPairs
      BY <1>1, <2>2 DEF KeptInv, CallCovers, AboveLeaf, n, p
    <3>2. LeafPairs \subseteq OtherPairs(p)
      BY <3>1 DEF LeafPairs, OtherPairs, LeafPages
    <3> QED BY <1>3, <2>2, <3>1, <3>2
  <2> QED BY <1>2, <2>1, <2>2
<1>5. \A q : Exists(q) /\ page[q].kind = "inner" => Exists(q)' /\ page'[q].kind = "inner"
  BY <1>3, <1>4
<1>6. CallCovers'
  BY <1>1, <1>2, <1>4, <1>5, UpCovers DEF KeptInv, CallCovers
<1> QED BY <1>1, <1>4, <1>6 DEF KeptInv

LEMMA StepKept ==
  ASSUME "read" \notin Faults, "write" \notin Faults
  PROVE  KeptInv /\ [Next]_vars => KeptInv'
<1> SUFFICES ASSUME KeptInv, [Next]_vars PROVE KeptInv'
  OBVIOUS
<1>1. TypeInv'
  BY StepTyped DEF KeptInv
<1>2. ASSUME NEW m \in {"r", "w"}, OpenOK(m) \/ OpenFails(m) PROVE KeptInv'
  BY <1>1, <1>2, SameKept DEF OpenOK, OpenFails
<1>3. CASE OpenNew \/ OpenGarbage \/ Close \/ Drop
  BY <1>1, <1>3, SameKept DEF OpenNew, OpenGarbage, Close, Drop
<1>4. ASSUME NEW k \in Keys, BeginEmpty(k) PROVE KeptInv'
  BY <1>1, <1>4, IdleFacts, SameKept DEF BeginEmpty, Calls, CallSet
<1>5. ASSUME NEW k \in Keys, Begin(k) PROVE KeptInv'
  BY <1>1, <1>5, BeginKept
<1>6. CASE WriteFirst \/ WriteSibling \/ WriteNode \/ WriteRoot \/ Return
  BY <1>1, <1>6, WriteFirstKept, WriteSiblingKept, WriteNodeKept, WriteRootKept, ReturnKept
<1>7. ASSUME NEW k \in Searched, Locate(k) PROVE KeptInv'
  BY <1>1, <1>7, SameKept DEF Locate
<1>8. ASSUME NEW k \in Keys \cup Searched, Astray(k) PROVE KeptInv'
  BY <1>1, <1>8, SameKept DEF Astray
<1>9. CASE LocateFails \/ ReadForward \/ ReadHeader \/ ReadFails
  BY <1>1, <1>9, SameKept DEF LocateFails, ReadForward, ReadHeader, ReadFails
<1>10. CASE UNCHANGED vars
  BY <1>1, <1>10, SameKept DEF vars
<1> QED BY <1>2, <1>3, <1>4, <1>5, <1>6, <1>7, <1>8, <1>9, <1>10 DEF Next

\* When page reads and writes succeed, a pair whose insert() returned 0 is on
\* a leaf of the file for ever: no split, no later insertion and no loss of
\* the object between two page writes takes it away.
THEOREM NothingLost ==
  ASSUME "read" \notin Faults, "write" \notin Faults
  PROVE  Spec => []Kept
<1>1. Init => KeptInv
  BY InitTyped DEF Init, Idle, KeptInv, CallCovers, PathPages, SiblingAlike, CoversLeaf,
    AboveLeaf, Returned
<1>2. KeptInv /\ [Next]_vars => KeptInv'
  BY StepKept
<1>3. KeptInv => Kept
  BY KeptInvFacts
<1> QED BY <1>1, <1>2, <1>3, PTL DEF Spec
-----------------------------------------------------------------------------
(***************************************************************************)
(* The levels of the B+tree, when page writes succeed.  d gives each page  *)
(* on disk its level, counted from the leaves; a page keeps its level for  *)
(* ever, and the pages below a node are one level lower.                   *)
(***************************************************************************)
At(d, p, l) == p \in DOMAIN d /\ d[p] = l

\* n may be written to a page of level l.
NodeAt(d, n, l) ==
  /\ l \in Nat \ {0}
  /\ n.kind \in {"leaf", "inner"}
  /\ n.kind = "leaf" <=> l = 1
  /\ n.kind = "inner" => \A e \in ToSet(n.entries) : At(d, e.ptr, l - 1)

Levels(d) ==
  /\ d \in [1 .. Len(page) -> Nat]
  /\ \A p \in 1 .. Len(page) : NodeAt(d, page[p], d[p])

TreeAt(d, root, height) == height > 0 => At(d, root, height)

\* The level of the node that is about to be written.
Here == treeHeight - Len(call.path)

CallAt(d) ==
  /\ call.pc = "first" => treeHeight = 0
  /\ call.pc = "root" => At(d, call.sepPid, treeHeight)
  /\ call.pc = "nodes" =>
       /\ At(d, call.pid, Here) /\ NodeAt(d, call.node, Here)
       /\ call.sibling # NoNode => NodeAt(d, call.sibling, Here)
       /\ call.sibling = NoNode /\ call.sepKey > 0 => At(d, call.sepPid, Here)
       /\ \A h \in 1 .. Len(call.path) :
            /\ At(d, call.path[h].pid, treeHeight - h + 1)
            /\ NodeAt(d, call.path[h].node, treeHeight - h + 1)

ObjectAt(d) == mode \in {"r", "w"} => TreeAt(d, rootPid, treeHeight)
HeaderAt(d) ==
  header \notin {NoFile, Garbage} => TreeAt(d, header.rootPid, header.treeHeight)

DepthOK(d) == Levels(d) /\ CallAt(d) /\ ObjectAt(d) /\ HeaderAt(d)

BalanceInv == TypeInv /\ \E d : DepthOK(d)
-----------------------------------------------------------------------------
(* Levels of a file that grows.                                            *)

Grown(d, l) == [p \in 1 .. Len(page) + 1 |-> IF p = Len(page) + 1 THEN l ELSE d[p]]

LEMMA GrownFacts ==
  ASSUME page \in Seq(ProperNodes), NEW d \in [1 .. Len(page) -> Nat], NEW l \in Nat
  PROVE  /\ Grown(d, l) \in [1 .. Len(page) + 1 -> Nat]
         /\ At(Grown(d, l), EndPid, l)
         /\ \A p, m : At(d, p, m) => At(Grown(d, l), p, m)
         /\ \A p \in 1 .. Len(page) : Grown(d, l)[p] = d[p]
<1>1. Len(page) \in Nat
  OBVIOUS
<1>2. \A p \in 1 .. Len(page) : p \in 1 .. Len(page) + 1 /\ p # Len(page) + 1
  BY <1>1
<1>3. Len(page) + 1 \in 1 .. Len(page) + 1
  BY <1>1
<1>4. Grown(d, l) \in [1 .. Len(page) + 1 -> Nat]
  <2>1. \A p \in 1 .. Len(page) + 1 : p # Len(page) + 1 => p \in 1 .. Len(page)
    BY <1>1
  <2> QED BY <2>1 DEF Grown
<1>5. \A p \in 1 .. Len(page) : Grown(d, l)[p] = d[p]
  BY <1>2 DEF Grown
<1>6. Grown(d, l)[Len(page) + 1] = l
  BY <1>3 DEF Grown
<1> QED BY <1>2, <1>3, <1>4, <1>5, <1>6 DEF At, EndPid

\* Where a node may be written it may be written in a larger file.
LEMMA NodeStays ==
  ASSUME NEW d, NEW f, \A p, m : At(d, p, m) => At(f, p, m)
  PROVE  \A n, l : NodeAt(d, n, l) => NodeAt(f, n, l)
BY DEF NodeAt

\* A node at the end of the file, and a node in place of one of its level.
LEMMA AppendLevels ==
  ASSUME page \in Seq(ProperNodes), NEW d, Levels(d), NEW l \in Nat,
         NEW n \in ProperNodes, NodeAt(d, n, l), page' = Written(EndPid, n)
  PROVE  /\ \E f : /\ Levels(f)' /\ At(f, EndPid, l)
                   /\ \A p, m : At(d, p, m) => At(f, p, m)
                   /\ \A k, m : NodeAt(d, k, m) => NodeAt(f, k, m)
<1>1. d \in [1 .. Len(page) -> Nat] /\ Len(page) \in Nat
  BY DEF Levels
<1>2. PICK f : /\ f \in [1 .. Len(page) + 1 -> Nat] /\ At(f, EndPid, l)
               /\ \A p, m : At(d, p, m) => At(f, p, m)
               /\ \A p \in 1 .. Len(page) : f[p] = d[p]
  <2> DEFINE g == Grown(d, l)
  <2>1. /\ g \in [1 .. Len(page) + 1 -> Nat] /\ At(g, EndPid, l)
        /\ \A p, m : At(d, p, m) => At(g, p, m)
        /\ \A p \in 1 .. Len(page) : g[p] = d[p]
    BY <1>1, GrownFacts
  <2> HIDE DEF g
  <2> QED BY <2>1
<1>3. \A k, m : NodeAt(d, k, m) => NodeAt(f, k, m)
  BY <1>2, NodeStays
<1>4. page' = Append(page, n)
  BY EndPidFacts DEF Written
<1>5. /\ Len(page') = Len(page) + 1 /\ page'[Len(page) + 1] = n
      /\ \A p \in 1 .. Len(page) : page'[p] = page[p]
  BY <1>4
<1>6. f[Len(page) + 1] = l
  BY <1>2 DEF At, EndPid
<1>7. ASSUME NEW p \in 1 .. Len(page) + 1 PROVE NodeAt(f, page'[p], f[p])
  <2>1. CASE p = Len(page) + 1
    BY <1>3, <1>5, <1>6, <2>1
  <2>2. CASE p # Len(page) + 1
    <3>1. p \in 1 .. Len(page)
      BY <1>1, <2>2
    <3>2. NodeAt(d, page[p], d[p])
      BY <3>1 DEF Levels
    <3> QED BY <1>2, <1>3, <1>5, <3>1, <3>2
  <2> QED BY <2>1, <2>2
<1>8. Levels(f)'
  BY <1>2, <1>5, <1>7 DEF Levels
<1> QED BY <1>2, <1>3, <1>8

LEMMA ReplaceLevels ==
  ASSUME page \in Seq(ProperNodes), NEW d, Levels(d), NEW l, NEW p, At(d, p, l),
         NEW n \in ProperNodes, NodeAt(d, n, l), page' = Written(p, n)
  PROVE  Levels(d)'
<1>1. d \in [1 .. Len(page) -> Nat] /\ p \in 1 .. Len(page) /\ d[p] = l
  BY DEF Levels, At
<1>2. page' = [page EXCEPT ![p] = n]
  BY <1>1 DEF Written, Exists
<1>3. Len(page') = Len(page) /\ \A q \in 1 .. Len(page) : page'[q] = IF q = p THEN n ELSE page[q]
  BY <1>1, <1>2
<1> QED BY <1>1, <1>3 DEF Levels
-----------------------------------------------------------------------------
(* The way down.                                                           *)

LEMMA ChildLevel ==
  ASSUME NEW d, NEW n \in ProperNodes, NEW l, NodeAt(d, n, l), n.kind = "inner", NEW k \in Int
  PROVE  At(d, ChildFor(n, k), l - 1)
<1>1. n \in Nodes /\ n.entries # <<>>
  BY ProperFacts
<1>2. \E e \in ToSet(n.entries) : ChildFor(n, k) = e.ptr
  BY <1>1, ChildFacts
<1> QED BY <1>2 DEF NodeAt

LEMMA DescentLevels ==
  ASSUME TypeInv, NEW d, Levels(d), TreeAt(d, rootPid, treeHeight), treeHeight > 0,
         NEW k \in Int, OnTrack(k)
  PROVE  \A h \in 1 .. treeHeight : At(d, Descent(k)[h], treeHeight - h + 1)
<1> DEFINE way == Descent(k)
           Right == {m \in Nat : m + 1 <= treeHeight => At(d, way[m + 1], treeHeight - m)}
<1>1. page \in Seq(ProperNodes) /\ MemoryOK /\ treeHeight \in Nat
  BY DEF TypeInv, MemoryOK
<1>2. \A h \in 1 .. treeHeight :
        way[h] = IF h = 1 THEN rootPid ELSE ChildFor(InnerAt(way[h - 1]), k)
  BY <1>1, DescentDef
<1>3. \A h \in 1 .. treeHeight - 1 :
        /\ Exists(way[h]) /\ InnerAt(way[h]) = page[way[h]] /\ page[way[h]].kind = "inner"
  BY <1>1, DescentFacts
<1> HIDE DEF way
<1>4. 0 \in Right
  <2>1. way[0 + 1] = rootPid
    BY <1>1, <1>2
  <2>2. At(d, way[0 + 1], treeHeight - 0)
    BY <1>1, <2>1 DEF TreeAt
  <2> QED BY <2>2
<1>5. ASSUME NEW m \in Nat, m \in Right PROVE m + 1 \in Right
  <2> SUFFICES ASSUME (m + 1) + 1 <= treeHeight
               PROVE  At(d, way[(m + 1) + 1], treeHeight - (m + 1))
    OBVIOUS
  <2>1. /\ m + 1 <= treeHeight /\ m + 1 \in 1 .. treeHeight - 1
        /\ (m + 1) + 1 \in 1 .. treeHeight /\ (m + 1) + 1 # 1 /\ ((m + 1) + 1) - 1 = m + 1
    BY <1>1
  <2>2. At(d, way[m + 1], treeHeight - m)
    BY <1>5, <2>1
  <2> DEFINE n == page[way[m + 1]]
  <2>3. n \in ProperNodes /\ n.kind = "inner"
    BY <1>1, <1>3, <2>1, PageFacts
  <2>4. NodeAt(d, n, treeHeight - m)
    BY <2>2 DEF Levels, At
  <2>5. way[(m + 1) + 1] = ChildFor(n, k)
    BY <1>2, <1>3, <2>1
  <2> HIDE DEF n
  <2>6. At(d, ChildFor(n, k), treeHeight - m - 1)
    BY <2>3, <2>4, ChildLevel
  <2>7. treeHeight - m - 1 = treeHeight - (m + 1)
    BY <1>1
  <2> QED BY <2>5, <2>6, <2>7
<1> HIDE DEF Right
<1>6. Nat \subseteq Right
  BY <1>4, <1>5, Induction
<1>7. ASSUME NEW h \in 1 .. treeHeight PROVE At(d, way[h], treeHeight - h + 1)
  <2>1. h - 1 \in Nat /\ (h - 1) + 1 = h /\ h <= treeHeight
        /\ treeHeight - (h - 1) = treeHeight - h + 1
    BY <1>1
  <2>2. h - 1 \in Right
    BY <1>6, <2>1
  <2>3. (h - 1) + 1 <= treeHeight => At(d, way[(h - 1) + 1], treeHeight - (h - 1))
    BY <2>2 DEF Right
  <2> QED BY <2>1, <2>3
<1> QED BY <1>7 DEF way
-----------------------------------------------------------------------------
(* Each step keeps the levels.                                             *)

\* Steps that leave the pages alone.
LEMMA SamePages ==
  ASSUME NEW d, Levels(d), UNCHANGED page
  PROVE  Levels(d)'
BY DEF Levels

LEMMA ObjectLevels ==
  ASSUME BalanceInv, TypeInv', "write" \notin Faults, NEW m \in {"r", "w"},
         OpenOK(m) \/ OpenFails(m) \/ OpenNew \/ OpenGarbage \/ Close \/ Drop
  PROVE  BalanceInv'
<1>1. PICK d : DepthOK(d)
  BY DEF BalanceInv
<1>2. page' = page /\ (call' = call \/ call' = Idle)
  BY DEF OpenOK, OpenFails, OpenNew, OpenGarbage, Close, Drop
<1>3. Levels(d)'
  BY <1>1, <1>2, SamePages DEF DepthOK
<1>4. mode = "closed" => call.pc = "idle"
  BY DEF BalanceInv, TypeInv, CallOK
<1>5. ObjectAt(d)' /\ HeaderAt(d)' /\ CallAt(d)'
  <2>1. CASE OpenOK(m)
    BY <1>1, <1>4, <2>1 DEF OpenOK, DepthOK, ObjectAt, HeaderAt, CallAt, TreeAt
  <2>2. CASE OpenFails(m)
    BY <1>1, <1>4, <2>2 DEF OpenFails, memory, DepthOK, ObjectAt, HeaderAt, CallAt, TreeAt
  <2>3. CASE OpenNew
    BY <1>1, <1>4, <2>3 DEF OpenNew, DepthOK, ObjectAt, HeaderAt, CallAt, TreeAt
  <2>4. CASE OpenGarbage
    BY <1>1, <1>4, <2>4 DEF OpenGarbage, memory, DepthOK, ObjectAt, HeaderAt, CallAt, TreeAt
  <2>5. CASE Close
    <3>1. CallAt(d)'
      BY <2>5 DEF Close, CallAt
    <3>2. ObjectAt(d)' /\ HeaderAt(d)'
      BY <1>1, <2>5 DEF Close, memory, DepthOK, ObjectAt, HeaderAt, TreeAt
    <3> QED BY <3>1, <3>2
  <2>6. CASE Drop
    BY <1>1, <2>6, IdleFacts DEF Drop, DepthOK, ObjectAt, HeaderAt, CallAt, TreeAt
  <2> QED BY <2>1, <2>2, <2>3, <2>4, <2>5, <2>6
<1> QED BY <1>3, <1>5 DEF BalanceInv, DepthOK

\* Steps that change none of what the levels are about.
LEMMA OthersLevels ==
  ASSUME BalanceInv, TypeInv', UNCHANGED <<header, page, memory>>,
         mode' = mode \/ mode' = "wild", call' = call \/ call' = Idle
  PROVE  BalanceInv'
<1>1. PICK d : DepthOK(d)
  BY DEF BalanceInv
<1>2. Levels(d)'
  BY <1>1, SamePages DEF DepthOK
<1>3. ObjectAt(d)' /\ HeaderAt(d)'
  BY <1>1 DEF DepthOK, ObjectAt, HeaderAt, TreeAt, memory
<1>4. CallAt(d)'
  BY <1>1, IdleFacts DEF DepthOK, CallAt, Here, memory
<1> QED BY <1>2, <1>3, <1>4 DEF BalanceInv, DepthOK

LEMMA BeginEmptyLevels ==
  ASSUME BalanceInv, TypeInv', NEW k \in Keys, BeginEmpty(k)
  PROVE  BalanceInv'
<1>1. PICK d : DepthOK(d)
  BY DEF BalanceInv
<1>2. /\ UNCHANGED <<header, page, mode, memory>> /\ treeHeight = 0
      /\ call' = [Idle EXCEPT !.pc = "first", !.key = k, !.rid = tail]
  BY DEF BeginEmpty, Calls
<1>3. Levels(d)'
  BY <1>1, <1>2, SamePages DEF DepthOK
<1>4. ObjectAt(d)' /\ HeaderAt(d)'
  BY <1>1, <1>2 DEF DepthOK, ObjectAt, HeaderAt, TreeAt, memory
<1>5. call'.pc = "first"
  BY <1>2 DEF Idle
<1>6. CallAt(d)'
  BY <1>2, <1>5 DEF CallAt, memory
<1> QED BY <1>3, <1>4, <1>6 DEF BalanceInv, DepthOK

\* An entry whose page is one level lower may be put into a node.
LEMMA PlaceLevels ==
  ASSUME NEW d, NEW n, NEW l, NodeAt(d, n, l), NEW e,
         n.kind = "inner" => At(d, e.ptr, l - 1), NEW c,
         Buffered(c) \subseteq ToSet(n.entries) \cup {e},
         c.node.kind = n.kind, c.sibling # NoNode => c.sibling.kind = n.kind
  PROVE  NodeAt(d, c.node, l) /\ (c.sibling # NoNode => NodeAt(d, c.sibling, l))
BY DEF NodeAt, Buffered

LEMMA BeginLevels ==
  ASSUME BalanceInv, TypeInv', NEW k \in Keys, Begin(k)
  PROVE  BalanceInv'
<1>1. PICK d : DepthOK(d)
  BY DEF BalanceInv
<1>2. TypeInv /\ Calls(k) /\ treeHeight > 0 /\ OnTrack(k) /\ treeHeight \in Nat
  BY DEF BalanceInv, TypeInv, MemoryOK, Begin
<1>3. /\ mode = "w" /\ k \in Int /\ Entry(k, tail) \in NodeEntries
      /\ UNCHANGED <<header, page, mode, memory>>
  BY <1>2, CallsFacts
<1>4. /\ At(d, LeafFor(k), 1)
      /\ \A h \in 1 .. treeHeight - 1 : At(d, Descent(k)[h], treeHeight - h + 1)
  <2>1. \A h \in 1 .. treeHeight : At(d, Descent(k)[h], treeHeight - h + 1)
    BY <1>1, <1>2, <1>3, DescentLevels DEF DepthOK, ObjectAt
  <2>2. treeHeight \in 1 .. treeHeight /\ treeHeight - treeHeight + 1 = 1
    BY <1>2
  <2>3. At(d, LeafFor(k), treeHeight - treeHeight + 1)
    BY <2>1, <2>2 DEF LeafFor
  <2>4. \A h \in 1 .. treeHeight - 1 : h \in 1 .. treeHeight
    BY <1>2
  <2> QED BY <2>1, <2>2, <2>3, <2>4
<1>5. PICK leaf \in Nodes, c \in CallSet :
        /\ call' = Place(c, LeafFor(k), leaf, Entry(k, tail))
        /\ c.pc = "nodes" /\ Len(c.path) = treeHeight - 1
        /\ \A h \in 1 .. Len(c.path) :
             /\ c.path[h].pid = Descent(k)[h] /\ Exists(c.path[h].pid)
             /\ c.path[h].node = page[c.path[h].pid]
        /\ Len(leaf.entries) <= Capacity(leaf) /\ SortedKeys(leaf.entries)
        /\ leaf.kind = "leaf" /\ LeafFor(k) \in Nat
  BY <1>2, BeginFacts
<1>6. /\ call'.pc = "nodes" /\ call'.path = c.path /\ call'.pid = LeafFor(k)
      /\ call'.node.kind = "leaf"
      /\ call'.sibling # NoNode => call'.sibling.kind = "leaf"
      /\ call'.sibling = NoNode => call'.sepKey = -1
  BY <1>3, <1>5, PlaceFacts
<1>7. Here' = 1
  BY <1>2, <1>3, <1>5, <1>6 DEF Here, memory
<1>8. ASSUME NEW h \in 1 .. Len(c.path)
      PROVE  /\ At(d, c.path[h].pid, treeHeight - h + 1)
             /\ NodeAt(d, c.path[h].node, treeHeight - h + 1)
  <2>1. At(d, c.path[h].pid, treeHeight - h + 1)
    BY <1>4, <1>5
  <2>2. NodeAt(d, page[c.path[h].pid], treeHeight - h + 1)
    BY <1>1, <2>1 DEF DepthOK, Levels, At
  <2> QED BY <1>5, <2>1, <2>2
<1>9. CallAt(d)'
  <2>1. At(d, call'.pid, 1) /\ NodeAt(d, call'.node, 1)
        /\ (call'.sibling # NoNode => NodeAt(d, call'.sibling, 1))
    BY <1>4, <1>6 DEF NodeAt
  <2>2. call'.sibling = NoNode => ~(call'.sepKey > 0)
    BY <1>6
  <2>3. treeHeight' = treeHeight
    BY <1>3 DEF memory
  <2> QED BY <1>6, <1>7, <1>8, <2>1, <2>2, <2>3 DEF CallAt
<1>10. Levels(d)' /\ ObjectAt(d)' /\ HeaderAt(d)'
  BY <1>1, <1>3, SamePages DEF DepthOK, ObjectAt, HeaderAt, TreeAt, memory
<1> QED BY <1>9, <1>10 DEF BalanceInv, DepthOK

LEMMA WriteFirstLevels ==
  ASSUME BalanceInv, TypeInv', "write" \notin Faults, WriteFirst
  PROVE  BalanceInv'
<1>1. PICK d : DepthOK(d)
  BY DEF BalanceInv
<1> DEFINE n == Insert(NewLeaf, Entry(call.key, call.rid))
<1>2. /\ call.pc = "first" /\ page' = Written(EndPid, n)
      /\ call' = [call EXCEPT !.pc = "return"] /\ rootPid' = EndPid
      /\ treeHeight' = treeHeight + 1 /\ header' = header
  BY DEF WriteFirst
<1>3. TypeInv /\ page \in Seq(ProperNodes) /\ treeHeight = 0 /\ Levels(d)
  BY <1>1, <1>2 DEF BalanceInv, TypeInv, DepthOK, CallAt
<1>4. n \in ProperNodes /\ n.kind = "leaf"
  BY <1>3, FirstLeaf
<1>5. NodeAt(d, n, 1)
  BY <1>4 DEF NodeAt
<1> HIDE DEF n
<1>6. PICK f : /\ Levels(f)' /\ At(f, EndPid, 1)
               /\ \A p, m : At(d, p, m) => At(f, p, m)
  BY <1>2, <1>3, <1>4, <1>5, AppendLevels
<1>7. ObjectAt(f)' /\ HeaderAt(f)'
  BY <1>1, <1>2, <1>3, <1>6 DEF DepthOK, ObjectAt, HeaderAt, TreeAt
<1>8. CallAt(f)'
  <2>1. call'.pc = "return"
    BY <1>2, <1>3 DEF TypeInv, CallOK, CallSet
  <2> QED BY <2>1 DEF CallAt
<1> QED BY <1>6, <1>7, <1>8 DEF BalanceInv, DepthOK

LEMMA WriteRootLevels ==
  ASSUME BalanceInv, TypeInv', "write" \notin Faults, WriteRoot
  PROVE  BalanceInv'
<1>1. PICK d : DepthOK(d)
  BY DEF BalanceInv
<1> DEFINE n == RootNode(rootPid, call.sepKey, call.sepPid)
<1>2. /\ call.pc = "root" /\ page' = Written(EndPid, n)
      /\ call' = [call EXCEPT !.pc = "return"] /\ rootPid' = EndPid
      /\ treeHeight' = treeHeight + 1 /\ header' = header
  BY DEF WriteRoot
<1>3. /\ TypeInv /\ page \in Seq(ProperNodes) /\ treeHeight \in Nat /\ treeHeight > 0
      /\ mode = "w" /\ Levels(d)
  BY <1>1, <1>2 DEF BalanceInv, TypeInv, CallOK, MemoryOK, DepthOK
<1>4. At(d, rootPid, treeHeight) /\ At(d, call.sepPid, treeHeight)
  BY <1>1, <1>2, <1>3 DEF DepthOK, ObjectAt, TreeAt, CallAt
<1>5. n \in ProperNodes /\ n.kind = "inner"
  BY <1>2, <1>3, NewRootFacts
<1>6. \A x \in ToSet(n.entries) : x.ptr \in {rootPid, call.sepPid}
  <2>1. rootPid \in Nat /\ call.sepKey \in Int /\ call.sepPid \in Nat
    BY <1>3, CallFields DEF TypeInv, CallOK, MemoryOK
  <2> QED BY <2>1, RootFacts
<1> HIDE DEF n
<1>7. NodeAt(d, n, treeHeight + 1)
  BY <1>3, <1>4, <1>5, <1>6 DEF NodeAt
<1>8. PICK f : /\ Levels(f)' /\ At(f, EndPid, treeHeight + 1)
               /\ \A p, m : At(d, p, m) => At(f, p, m)
  <2>1. treeHeight + 1 \in Nat
    BY <1>3
  <2> QED BY <1>2, <1>3, <1>5, <1>7, <2>1, AppendLevels
<1>9. ObjectAt(f)' /\ HeaderAt(f)'
  BY <1>1, <1>2, <1>8 DEF DepthOK, ObjectAt, HeaderAt, TreeAt
<1>10. CallAt(f)'
  <2>1. call'.pc = "return"
    BY <1>2, <1>3 DEF TypeInv, CallOK, CallSet
  <2> QED BY <2>1 DEF CallAt
<1> QED BY <1>8, <1>9, <1>10 DEF BalanceInv, DepthOK

LEMMA WriteSiblingLevels ==
  ASSUME BalanceInv, TypeInv', "write" \notin Faults, WriteSibling
  PROVE  BalanceInv'
<1>1. PICK d : DepthOK(d)
  BY DEF BalanceInv
<1> DEFINE n == [call.sibling EXCEPT !.next = call.node.next]
<1>2. /\ call.pc = "nodes" /\ call.sibling # NoNode /\ page' = Written(EndPid, n)
      /\ call' = SiblingDone /\ UNCHANGED <<header, mode, memory>>
  BY DEF WriteSibling, SiblingDone
<1>3. TypeInv /\ page \in Seq(ProperNodes) /\ Levels(d)
  BY <1>1 DEF BalanceInv, TypeInv, DepthOK
<1>4. /\ n \in ProperNodes /\ n.kind = call.sibling.kind
      /\ n.entries = call.sibling.entries
  BY <1>2, <1>3, NodesFacts, NextFieldFacts
<1> HIDE DEF n
<1>5. /\ call'.pc = "nodes" /\ call'.path = call.path /\ call'.pid = call.pid
      /\ call'.node.kind = call.node.kind /\ call'.node.entries = call.node.entries
      /\ call'.sibling = NoNode /\ call'.sepPid = EndPid
  BY <1>2, <1>3, NodesFacts, SiblingDoneFacts DEF SiblingDone, CallSet
<1>6. /\ At(d, call.pid, Here) /\ NodeAt(d, call.node, Here)
      /\ NodeAt(d, call.sibling, Here)
      /\ \A h \in 1 .. Len(call.path) :
           /\ At(d, call.path[h].pid, treeHeight - h + 1)
           /\ NodeAt(d, call.path[h].node, treeHeight - h + 1)
  BY <1>1, <1>2 DEF DepthOK, CallAt
<1>7. Here \in Nat /\ NodeAt(d, n, Here)
  BY <1>4, <1>6 DEF NodeAt
<1>8. PICK f : /\ Levels(f)' /\ At(f, EndPid, Here)
               /\ \A p, m : At(d, p, m) => At(f, p, m)
               /\ \A k, m : NodeAt(d, k, m) => NodeAt(f, k, m)
  BY <1>2, <1>3, <1>4, <1>7, AppendLevels
<1>9. Here' = Here /\ treeHeight' = treeHeight
  BY <1>2, <1>5 DEF Here, memory
<1>10. NodeAt(f, call'.node, Here)
  <2>1. NodeAt(f, call.node, Here)
    BY <1>6, <1>8
  <2> QED BY <1>5, <2>1 DEF NodeAt
<1>11. CallAt(f)'
  BY <1>5, <1>6, <1>8, <1>9, <1>10 DEF CallAt
<1>12. ObjectAt(f)' /\ HeaderAt(f)'
  BY <1>1, <1>2, <1>8 DEF DepthOK, ObjectAt, HeaderAt, TreeAt, memory
<1> QED BY <1>8, <1>11, <1>12 DEF BalanceInv, DepthOK

\* One level up the node takes the separator of the page that was split.
LEMMA UpLevels ==
  ASSUME TypeInv, call.pc = "nodes", call.sibling = NoNode, NEW d, CallAt(d),
         call' = Up(call), treeHeight' = treeHeight
  PROVE  CallAt(d)'
<1>1. /\ call \in CallSet /\ call.path \in Seq(Path) /\ Len(call.path) \in Nat
      /\ treeHeight \in Nat
  BY CallFields DEF TypeInv, CallOK, MemoryOK
<1>2. CASE call.path = <<>>
  <2>1. /\ call'.pc \in {"root", "return"}
        /\ call'.pc = "root" => call.sepKey > 0 /\ call'.sepPid = call.sepPid
    BY <1>1, <1>2, UpFacts
  <2>2. Here = treeHeight
    BY <1>1, <1>2 DEF Here
  <2>3. call.sepKey > 0 => At(d, call.sepPid, treeHeight)
    BY <2>2 DEF CallAt
  <2> QED BY <2>1, <2>3 DEF CallAt
<1>3. CASE call.path # <<>>
  <2> DEFINE above == Last(call.path)
             e == Entry(call.sepKey, call.sepPid)
  <2>1. /\ call'.pc = "nodes" /\ call'.path = Front(call.path)
        /\ call'.pid = above.pid /\ call'.node.kind = above.node.kind
        /\ call'.sibling # NoNode => call'.sibling.kind = call'.node.kind
        /\ call'.sibling = NoNode => ~(call'.sepKey > 0)
        /\ Buffered(call') \subseteq ToSet(above.node.entries) \cup
             (IF call.sepKey > 0 THEN {e} ELSE {})
    BY <1>1, <1>3, UpFacts
  <2>2. Len(call.path) \in 1 .. Len(call.path)
    BY <1>1, <1>3
  <2>3. /\ Len(Front(call.path)) = Len(call.path) - 1
        /\ \A h \in 1 .. Len(call.path) - 1 : Front(call.path)[h] = call.path[h]
    BY <1>1, <2>2 DEF Front
  <2>4. Here' = Here + 1 /\ Here' = treeHeight - Len(call.path) + 1 /\ Here' - 1 = Here
    BY <1>1, <2>1, <2>2, <2>3 DEF Here
  <2>5. \A h \in 1 .. Len(call.path) :
          /\ At(d, call.path[h].pid, treeHeight - h + 1)
          /\ NodeAt(d, call.path[h].node, treeHeight - h + 1)
    BY DEF CallAt
  <2>6. At(d, above.pid, Here') /\ NodeAt(d, above.node, Here')
    BY <2>2, <2>4, <2>5 DEF Last
  <2>7. call.sepKey > 0 => At(d, call.sepPid, Here)
    BY DEF CallAt
  <2>8. e.ptr = call.sepPid
    BY DEF Entry
  <2> HIDE DEF above, e
  <2>9. /\ \A x \in ToSet(call'.node.entries) :
             x \in ToSet(above.node.entries) \/ (call.sepKey > 0 /\ x = e)
        /\ \A x \in ToSet(call'.sibling.entries) :
             x \in ToSet(above.node.entries) \/ (call.sepKey > 0 /\ x = e)
    BY <2>1 DEF Buffered
  <2>10. NodeAt(d, call'.node, Here')
    BY <2>1, <2>4, <2>6, <2>7, <2>8, <2>9 DEF NodeAt
  <2>11. call'.sibling # NoNode => NodeAt(d, call'.sibling, Here')
    BY <2>1, <2>4, <2>6, <2>7, <2>8, <2>9 DEF NodeAt
  <2>12. ASSUME NEW h \in 1 .. Len(call'.path)
         PROVE  /\ At(d, call'.path[h].pid, treeHeight' - h + 1)
                /\ NodeAt(d, call'.path[h].node, treeHeight' - h + 1)
    <3>1. h \in 1 .. Len(call.path) /\ call'.path[h] = call.path[h]
      BY <1>1, <2>1, <2>3
    <3> QED BY <2>5, <3>1
  <2> QED BY <2>1, <2>6, <2>10, <2>11, <2>12 DEF CallAt, above
<1> QED BY <1>2, <1>3

LEMMA WriteNodeLevels ==
  ASSUME BalanceInv, TypeInv', "write" \notin Faults, WriteNode
  PROVE  BalanceInv'
<1>1. PICK d : DepthOK(d)
  BY DEF BalanceInv
<1>2. /\ call.pc = "nodes" /\ call.sibling = NoNode
      /\ page' = Written(call.pid, call.node) /\ call' = Up(call)
      /\ UNCHANGED <<header, mode, memory>>
  BY DEF WriteNode
<1>3. TypeInv /\ page \in Seq(ProperNodes) /\ call.node \in ProperNodes
  BY <1>2, NodesFacts DEF BalanceInv
<1>4. Levels(d) /\ At(d, call.pid, Here) /\ NodeAt(d, call.node, Here)
  BY <1>1, <1>2 DEF DepthOK, CallAt
<1>5. Levels(d)'
  BY <1>2, <1>3, <1>4, ReplaceLevels
<1>6. CallAt(d)'
  BY <1>1, <1>2, <1>3, UpLevels DEF DepthOK, memory
<1>7. ObjectAt(d)' /\ HeaderAt(d)'
  BY <1>1, <1>2 DEF DepthOK, ObjectAt, HeaderAt, TreeAt, memory
<1> QED BY <1>5, <1>6, <1>7 DEF BalanceInv, DepthOK

LEMMA StepLevels ==
  ASSUME "write" \notin Faults
  PROVE  BalanceInv /\ [Next]_vars => BalanceInv'
<1> SUFFICES ASSUME BalanceInv, [Next]_vars PROVE BalanceInv'
  OBVIOUS
<1>1. TypeInv'
  BY StepTyped DEF BalanceInv
<1>2. ASSUME NEW m \in {"r", "w"}, OpenOK(m) \/ OpenFails(m) PROVE BalanceInv'
  BY <1>1, <1>2, ObjectLevels
<1>3. CASE OpenNew \/ OpenGarbage \/ Close \/ Drop
  <2>1. "r" \in {"r", "w"}
    OBVIOUS
  <2> QED BY <1>1, <1>3, <2>1, ObjectLevels, Zenon
<1>4. ASSUME NEW k \in Keys, BeginEmpty(k) \/ Begin(k) PROVE BalanceInv'
  BY <1>1, <1>4, BeginEmptyLevels, BeginLevels
<1>5. CASE WriteFirst \/ WriteSibling \/ WriteNode \/ WriteRoot
  BY <1>1, <1>5, WriteFirstLevels, WriteSiblingLevels, WriteNodeLevels, WriteRootLevels
<1>6. CASE Return
  BY <1>1, <1>6, OthersLevels DEF Return
<1>7. ASSUME NEW k \in Searched, Locate(k) PROVE BalanceInv'
  BY <1>1, <1>7, OthersLevels DEF Locate
<1>8. ASSUME NEW k \in Keys \cup Searched, Astray(k) PROVE BalanceInv'
  BY <1>1, <1>8, OthersLevels DEF Astray
<1>9. CASE LocateFails \/ ReadForward \/ ReadHeader \/ ReadFails
  BY <1>1, <1>9, OthersLevels DEF LocateFails, ReadForward, ReadHeader, ReadFails
<1>10. CASE UNCHANGED vars
  BY <1>1, <1>10, OthersLevels DEF vars
<1> QED BY <1>2, <1>3, <1>4, <1>5, <1>6, <1>7, <1>8, <1>9, <1>10 DEF Next
-----------------------------------------------------------------------------
(* What follows for the trees.                                             *)

\* Level is what its recursion says.
LEMMA LevelDef ==
  ASSUME NEW root, NEW height \in Nat
  PROVE  Level(root, height) = [h \in 1 .. height |->
           IF h = 1 THEN {root} ELSE Under(Level(root, height)[h - 1])]
<1> DEFINE first == {root}
           IsLevel(f, m) == f = [h \in 1 .. m |-> IF h = 1 THEN first ELSE Under(f[h - 1])]
           Defined == {m \in Nat : \E f : IsLevel(f, m)}
<1>1. Level(root, height) = CHOOSE f : IsLevel(f, height)
  BY DEF Level
<1> HIDE DEF first
<1>2. Nat \subseteq Defined
  <2>1. 0 \in Defined
    <3> DEFINE f == [h \in 1 .. 0 |-> 0]
    <3>1. IsLevel(f, 0)
      OBVIOUS
    <3> HIDE DEF f, IsLevel
    <3> QED BY <3>1
  <2>2. ASSUME NEW m \in Nat, m \in Defined PROVE m + 1 \in Defined
    <3>1. PICK f : IsLevel(f, m)
      BY <2>2
    <3> DEFINE g == [h \in 1 .. m + 1 |-> IF h = 1 THEN first ELSE Under(f[h - 1])]
    <3>2. \A h \in 1 .. m : g[h] = f[h]
      BY <3>1
    <3>3. \A h \in 1 .. m + 1 : h # 1 => h - 1 \in 1 .. m
      OBVIOUS
    <3>4. IsLevel(g, m + 1)
      <4>1. \A h \in 1 .. m + 1 : g[h] = IF h = 1 THEN first ELSE Under(g[h - 1])
        BY <3>2, <3>3
      <4> QED BY <4>1
    <3> HIDE DEF g, IsLevel
    <3> QED BY <3>4
  <2> HIDE DEF Defined
  <2> QED BY <2>1, <2>2, Induction
<1>3. \E f : IsLevel(f, height)
  BY <1>2
<1>4. IsLevel(CHOOSE f : IsLevel(f, height), height)
  BY <1>3
<1> QED BY <1>1, <1>4 DEF first

\* Level h of a tree of known height consists of pages that know it.
LEMMA TreeLevels ==
  ASSUME page \in Seq(ProperNodes), NEW d, Levels(d), NEW root, NEW height \in Nat,
         TreeAt(d, root, height)
  PROVE  \A h \in 1 .. height : \A p \in Level(root, height)[h] : At(d, p, height - h + 1)
<1> DEFINE at == Level(root, height)
           Right == {m \in Nat : m + 1 <= height =>
                       \A p \in at[m + 1] : At(d, p, height - m)}
<1>1. \A h \in 1 .. height :
        at[h] = IF h = 1 THEN {root} ELSE Under(at[h - 1])
  <2> DEFINE first == {root}
  <2>1. at = [h \in 1 .. height |-> IF h = 1 THEN first ELSE Under(at[h - 1])]
    BY LevelDef
  <2> HIDE DEF at, first
  <2>2. \A h \in 1 .. height : at[h] = IF h = 1 THEN first ELSE Under(at[h - 1])
    BY <2>1
  <2> QED BY <2>2 DEF first
<1> HIDE DEF at
<1>2. 0 \in Right
  <2> SUFFICES ASSUME 1 <= height PROVE \A p \in at[0 + 1] : At(d, p, height - 0)
    OBVIOUS
  <2>1. at[1] = {root} /\ At(d, root, height) /\ 0 + 1 = 1 /\ height - 0 = height
    BY <1>1 DEF TreeAt
  <2> QED BY <2>1
<1>3. ASSUME NEW m \in Nat, m \in Right PROVE m + 1 \in Right
  <2> SUFFICES ASSUME (m + 1) + 1 <= height, NEW p \in at[(m + 1) + 1]
               PROVE  At(d, p, height - (m + 1))
    OBVIOUS
  <2>1. /\ m + 1 <= height /\ (m + 1) + 1 \in 1 .. height
        /\ (m + 1) + 1 # 1 /\ ((m + 1) + 1) - 1 = m + 1 /\ height - m # 1
        /\ height - (m + 1) = (height - m) - 1
    OBVIOUS
  <2>2. PICK q \in at[m + 1] : Exists(q) /\ \E e \in Entries(q) : p = e.ptr
    <3>1. p \in Under(at[m + 1])
      BY <1>1, <2>1
    <3> QED BY <3>1 DEF Under
  <2>3. At(d, q, height - m)
    BY <1>3, <2>1, <2>2
  <2>4. NodeAt(d, page[q], height - m)
    BY <2>3 DEF Levels, At
  <2>5. page[q].kind = "inner"
    BY <2>1, <2>4 DEF NodeAt
  <2>6. At(d, p, (height - m) - 1)
    BY <2>2, <2>4, <2>5 DEF NodeAt, Entries
  <2> QED BY <2>1, <2>6
<1> HIDE DEF Right
<1>4. Nat \subseteq Right
  BY <1>2, <1>3, Induction
<1>5. ASSUME NEW h \in 1 .. height, NEW p \in at[h] PROVE At(d, p, height - h + 1)
  <2>1. /\ h - 1 \in Nat /\ (h - 1) + 1 = h /\ h <= height
        /\ height - (h - 1) = height - h + 1
    OBVIOUS
  <2>2. h - 1 \in Right
    BY <1>4, <2>1
  <2>3. (h - 1) + 1 <= height => \A q \in at[(h - 1) + 1] : At(d, q, height - (h - 1))
    BY <2>2 DEF Right
  <2> QED BY <2>1, <2>3
<1> QED BY <1>5 DEF at

LEMMA TreeBalanced ==
  ASSUME page \in Seq(ProperNodes), NEW d, Levels(d), NEW root, NEW height \in Nat,
         TreeAt(d, root, height)
  PROVE  BalancedFrom(root, height)
<1> SUFFICES ASSUME NEW h \in 1 .. height, NEW p \in Level(root, height)[h]
             PROVE  Exists(p) /\ page[p].kind = IF h = height THEN "leaf" ELSE "inner"
  BY DEF BalancedFrom
<1>1. At(d, p, height - h + 1)
  BY TreeLevels
<1>2. Exists(p) /\ NodeAt(d, page[p], height - h + 1)
  BY <1>1 DEF At, Levels, Exists
<1>3. height - h + 1 = 1 <=> h = height
  OBVIOUS
<1> QED BY <1>2, <1>3 DEF NodeAt

\* When page writes succeed, every leaf of the tree in memory and of the tree
\* that the next open() finds is as deep as treeHeight says, between any two
\* page writes of an insertion and whenever an object is lost: locate() and
\* insertAtLevel(), which count levels, never take one kind of node for the
\* other.
THEOREM LevelsRight ==
  ASSUME "write" \notin Faults
  PROVE  Spec => []Balanced
<1>1. Init => BalanceInv
  <2> SUFFICES ASSUME Init PROVE BalanceInv
    OBVIOUS
  <2> DEFINE d == [p \in 1 .. 0 |-> 0]
  <2>1. Levels(d)
    BY DEF Init, Levels
  <2>2. CallAt(d) /\ ObjectAt(d) /\ HeaderAt(d)
    BY IdleFacts DEF Init, CallAt, ObjectAt, HeaderAt, NoFile
  <2> HIDE DEF d
  <2> QED BY <2>1, <2>2, InitTyped DEF BalanceInv, DepthOK
<1>2. BalanceInv /\ [Next]_vars => BalanceInv'
  BY StepLevels
<1>3. BalanceInv => Balanced
  <2> SUFFICES ASSUME BalanceInv PROVE Balanced
    OBVIOUS
  <2>1. PICK d : DepthOK(d)
    BY DEF BalanceInv
  <2>2. /\ page \in Seq(ProperNodes) /\ treeHeight \in Nat /\ header.treeHeight \in Nat
    BY DEF BalanceInv, TypeInv, MemoryOK, Roots
  <2> QED BY <2>1, <2>2, TreeBalanced DEF Balanced, DepthOK, ObjectAt, HeaderAt
<1> QED BY <1>1, <1>2, <1>3, PTL DEF Spec
=============================================================================
