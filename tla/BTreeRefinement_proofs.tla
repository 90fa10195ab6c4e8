------------------------ MODULE BTreeRefinement_proofs ------------------------
(***************************************************************************)
(* BTreeIndex implements OrderedIndex, with the hypotheses of              *)
(* BTreeOrder_proofs: what each action does to the pairs on the chain of   *)
(* leaves and to the number of them that the cursor has behind it.         *)
(***************************************************************************)
EXTENDS BTreeOrder_proofs, FiniteSetTheorems

-----------------------------------------------------------------------------
(* What the leaves hold, put together from the parts of the chain.         *)

\* Sequences that are put together.
LEMMA ToSetJoined ==
  ASSUME NEW s \in Seq(NodeEntries), NEW t \in Seq(NodeEntries)
  PROVE  /\ s \o t \in Seq(NodeEntries) /\ Len(s \o t) = Len(s) + Len(t)
         /\ ToSet(s \o t) = ToSet(s) \cup ToSet(t)
         /\ \A i \in 1 .. Len(s) : (s \o t)[i] = s[i]
         /\ \A i \in 1 .. Len(t) : (s \o t)[Len(s) + i] = t[i]
<1> DEFINE c == s \o t
           m == Len(s)
           n == Len(t)
<1>1. /\ c \in Seq(NodeEntries) /\ Len(c) = m + n /\ m \in Nat /\ n \in Nat
      /\ DOMAIN s = 1 .. m /\ DOMAIN t = 1 .. n /\ DOMAIN c = 1 .. Len(c)
  OBVIOUS
<1>2. \A i \in 1 .. m : c[i] = s[i]
  OBVIOUS
<1>3. \A i \in 1 .. m + n : i > m => c[i] = t[i - m]
  OBVIOUS
<1>4. \A i \in 1 .. n : c[m + i] = t[i]
  OBVIOUS
<1>5. /\ \A i \in 1 .. m : s[i] \in ToSet(s)
      /\ \A i \in 1 .. n : t[i] \in ToSet(t)
  BY <1>1 DEF ToSet
<1> HIDE DEF c, m, n
<1>6. m \in Nat /\ n \in Nat /\ Len(c) = m + n
  BY <1>1
<1>7. ToSet(c) = ToSet(s) \cup ToSet(t)
  <2>1. \A i \in 1 .. m + n : i > m => i - m \in 1 .. n
    BY <1>6
  <2>2. \A i \in 1 .. n : m + i \in 1 .. m + n
    BY <1>6
  <2>3. \A i \in 1 .. m : i \in 1 .. m + n
    BY <1>6
  <2>4. \A i \in 1 .. m + n : i > m \/ i \in 1 .. m
    BY <1>6
  <2>5. ToSet(c) \subseteq ToSet(s) \cup ToSet(t)
    BY <1>1, <1>2, <1>3, <1>5, <1>6, <2>1, <2>4 DEF ToSet
  <2>6. ToSet(s) \subseteq ToSet(c)
    BY <1>1, <1>2, <1>6, <2>3 DEF ToSet
  <2>7. ToSet(t) \subseteq ToSet(c)
    BY <1>1, <1>4, <1>6, <2>2 DEF ToSet
  <2> QED BY <2>5, <2>6, <2>7
<1> QED BY <1>1, <1>2, <1>4, <1>7 DEF c, m, n

LEMMA OneMore ==
  ASSUME NEW s \in Seq(NodeEntries), NEW t \in Seq(NodeEntries),
         IsInjective(s), IsInjective(t),
         NEW e, e \notin ToSet(s), ToSet(t) = ToSet(s) \cup {e}
  PROVE  Len(t) = Len(s) + 1
<1>1. ASSUME NEW u \in Seq(NodeEntries), IsInjective(u)
      PROVE  IsFiniteSet(ToSet(u)) /\ Cardinality(ToSet(u)) = Len(u)
  <2>1. Len(u) \in Nat /\ DOMAIN u = 1 .. Len(u) /\ u \in [1 .. Len(u) -> ToSet(u)]
    BY DEF ToSet
  <2>2. \A x \in ToSet(u) : \E i \in 1 .. Len(u) : u[i] = x
    BY <2>1 DEF ToSet
  <2>3. \A i, j \in 1 .. Len(u) : u[i] = u[j] => i = j
    BY <1>1, <2>1 DEF IsInjective
  <2>4. u \in Bijection(1 .. Len(u), ToSet(u))
    BY <2>1, <2>2, <2>3 DEF Bijection, Injection, Surjection, IsInjective
  <2>5. ExistsBijection(1 .. Len(u), ToSet(u))
    BY <2>4 DEF ExistsBijection
  <2> QED BY <2>1, <2>5, FS_CountingElements, FS_NatBijection
<1>2. Cardinality(ToSet(t)) = Cardinality(ToSet(s)) + 1
  BY <1>1, FS_AddElement
<1> QED BY <1>1, <1>2
-----------------------------------------------------------------------------
(* The chain as the way along next pointers, on whatever pages it lies.     *)

\* f lists from each leaf of L on, ent and nx the entries and the next leaf.
Follows(f, m, L, ent, nx) ==
  /\ \A n \in 0 .. m : f[n][0] = <<>>
  /\ \A i \in 1 .. m : \A n : n = i - 1 =>
       \A q \in L : f[i][q] = ent[q] \o f[n][nx[q]]

\* far counts the leaves.
Counts(far, L, nx) ==
  \A q \in L :
    /\ far[q] \in Nat /\ far[q] > 0
    /\ nx[q] = 0 => far[q] = 1
    /\ nx[q] # 0 => nx[q] \in L /\ far[q] = far[nx[q]] + 1

LEMMA SameWalk ==
  ASSUME NEW L, NEW ent, NEW nx, NEW far, Counts(far, L, nx),
         NEW m \in Nat, NEW f, Follows(f, m, L, ent, nx),
         NEW k \in Nat, NEW g, Follows(g, k, L, ent, nx)
  PROVE  \A q \in L : \A i \in 0 .. m : \A j \in 0 .. k :
           far[q] <= i /\ far[q] <= j => f[i][q] = g[j][q]
<1> DEFINE Same(q) == \A i \in 0 .. m : \A j \in 0 .. k :
                        far[q] <= i /\ far[q] <= j => f[i][q] = g[j][q]
           S == {n \in Nat : \A q \in L : far[q] <= n => Same(q)}
<1>1. 0 \in S
  BY DEF Counts
<1>2. ASSUME NEW n \in Nat, n \in S PROVE n + 1 \in S
  <2> SUFFICES ASSUME NEW q \in L, far[q] <= n + 1, NEW i \in 0 .. m, NEW j \in 0 .. k,
                      far[q] <= i, far[q] <= j
               PROVE  f[i][q] = g[j][q]
    OBVIOUS
  <2>1. far[q] \in Nat /\ far[q] > 0
    BY DEF Counts
  <2> DEFINE a == i - 1
             b == j - 1
  <2>2. i \in 1 .. m /\ j \in 1 .. k /\ a \in 0 .. m /\ b \in 0 .. k /\ a = i - 1 /\ b = j - 1
    BY <2>1
  <2> HIDE DEF a, b
  <2>3. f[i][q] = ent[q] \o f[a][nx[q]] /\ g[j][q] = ent[q] \o g[b][nx[q]]
    BY <2>2 DEF Follows
  <2>4. CASE nx[q] = 0
    BY <2>2, <2>3, <2>4 DEF Follows
  <2>5. CASE nx[q] # 0
    <3>1. nx[q] \in L /\ far[q] = far[nx[q]] + 1 /\ far[nx[q]] \in Nat
      BY <2>5 DEF Counts
    <3>2. far[nx[q]] <= n /\ far[nx[q]] <= a /\ far[nx[q]] <= b
      BY <2>1, <2>2, <3>1
    <3>3. Same(nx[q])
      BY <1>2, <3>1, <3>2
    <3>4. f[a][nx[q]] = g[b][nx[q]]
      BY <2>2, <3>2, <3>3
    <3> QED BY <2>3, <3>4
  <2> QED BY <2>4, <2>5
<1>3. Nat \subseteq S
  <2> HIDE DEF S
  <2> QED BY <1>1, <1>2, Induction
<1> SUFFICES ASSUME NEW q \in L PROVE Same(q)
  OBVIOUS
<1>4. far[q] \in S /\ far[q] <= far[q]
  BY <1>3 DEF Counts
<1> HIDE DEF Same
<1> QED BY <1>4

-----------------------------------------------------------------------------
(* The chain of the pages.                                                 *)

Ent == [x \in Linked |-> page[x].entries]
Nxt == [x \in Linked |-> page[x].next]

WalkOK(lo, hi, far, f) ==
  /\ Len(page) \in Nat
  /\ Leaves(lo, hi, far) /\ Counts(far, Linked, Nxt)
  /\ \A q \in Linked : far[q] <= Len(page)
  /\ page # <<>> => 1 \in Linked /\ \A q \in Linked : far[q] <= far[1]
  /\ Follows(f, Len(page), Linked, Ent, Nxt)
  /\ \A q : ChainFrom(q) = f[Len(page)][q]

HasWalk == \E lo, hi, far, f : WalkOK(lo, hi, far, f)

LEMMA WalkHolds ==
  ASSUME OrderInv, NEW lo, NEW hi, NEW far, Leaves(lo, hi, far)
  PROVE  \E f : WalkOK(lo, hi, far, f)
<1> DEFINE m == Len(page)
<1>1. Leaves(lo, hi, far)
  OBVIOUS
<1>2. m \in Nat
  BY DEF OrderInv, BalanceInv, TypeInv
<1> HIDE DEF m
<1>3. PICK f : IsWalk(f, m) /\ \A p : ChainFrom(p) = f[m][p]
  BY <1>2, WalkDef DEF m
<1>4. \A q \in Linked : Ent[q] = page[q].entries /\ Nxt[q] = page[q].next
  BY DEF Ent, Nxt
<1>5. \A q \in Linked : q \in Int /\ Exists(q) /\ far[q] \in Nat
  <2>1. \A q \in Linked : q \in Nat /\ Exists(q)
    BY <1>1 DEF Leaves
  <2> QED BY <1>1, <2>1 DEF Leaves
<1>6. Counts(far, Linked, Nxt)
  BY <1>1, <1>4, <1>5 DEF Counts, Leaves, LinksIn
<1>7. Follows(f, m, Linked, Ent, Nxt)
  <2>1. \A x \in Int :
          /\ \A n \in 0 .. m : ~Exists(x) => f[n][x] = <<>>
          /\ \A n \in 1 .. m : Exists(x) =>
               f[n][x] = page[x].entries \o f[n - 1][page[x].next]
    BY <1>2, <1>3, WalkFacts
  <2>2. ~Exists(0) /\ 0 \in Int
    BY DEF Exists
  <2>3. \A n \in 0 .. m : f[n][0] = <<>>
    BY <2>1, <2>2
  <2>4. \A i \in 1 .. m : \A n : n = i - 1 =>
          \A q \in Linked : f[i][q] = page[q].entries \o f[n][page[q].next]
    BY <1>5, <2>1
  <2>5. \A i \in 1 .. m : \A n : n = i - 1 =>
          \A q \in Linked : f[i][q] = Ent[q] \o f[n][Nxt[q]]
    <3> SUFFICES ASSUME NEW i \in 1 .. m, NEW n, n = i - 1, NEW q \in Linked
                 PROVE  f[i][q] = Ent[q] \o f[n][Nxt[q]]
      OBVIOUS
    <3>1. f[i][q] = page[q].entries \o f[n][page[q].next]
      BY <2>4
    <3>2. Ent[q] = page[q].entries /\ Nxt[q] = page[q].next
      BY <1>4
    <3> QED BY <3>1, <3>2, Zenon
  <2> QED BY <2>3, <2>5 DEF Follows
<1>8. \A q \in Linked : far[q] <= m
  <2>1. \A q \in Linked : far[q] <= IF Orphan = {} THEN m ELSE m - 1
    BY <1>1 DEF Leaves, LinksIn, m
  <2> QED BY <1>2, <1>5, <2>1
<1>9. page # <<>> => 1 \in Linked /\ \A q \in Linked : far[q] <= far[1]
  BY <1>1 DEF Leaves, LinksIn
<1> QED BY <1>1, <1>2, <1>3, <1>6, <1>7, <1>8, <1>9 DEF WalkOK, m

LEMMA WalkIs == OrderInv => HasWalk
BY LeavesHold, WalkHolds DEF HasWalk

\* One leaf, then the chain from the next.
LEMMA ChainHead ==
  ASSUME NEW lo, NEW hi, NEW far, NEW f, WalkOK(lo, hi, far, f), NEW q \in Linked
  PROVE  ChainFrom(q) = page[q].entries \o ChainFrom(page[q].next)
<1> DEFINE m == Len(page)
           a == m - 1
           r == page[q].next
<1>1. /\ m \in Nat /\ Counts(far, Linked, Nxt) /\ \A x \in Linked : far[x] <= m
      /\ Follows(f, m, Linked, Ent, Nxt)
      /\ \A x : ChainFrom(x) = f[m][x]
  BY DEF WalkOK
<1>2. Ent[q] = page[q].entries /\ Nxt[q] = r
  BY DEF Ent, Nxt
<1> HIDE DEF m, r
<1>3. far[q] \in Nat /\ far[q] > 0 /\ far[q] <= m
  BY <1>1 DEF Counts
<1>4. m \in 1 .. m /\ m \in 0 .. m /\ a \in 0 .. m /\ a = m - 1
  BY <1>1, <1>3
<1>5. f[m][q] = Ent[q] \o f[a][Nxt[q]]
  <2> HIDE DEF a
  <2> QED BY <1>1, <1>4 DEF Follows
<1>6. f[a][r] = f[m][r]
  <2>1. CASE r = 0
    <3> HIDE DEF a
    <3> QED BY <1>1, <1>4, <2>1 DEF Follows
  <2>2. CASE r # 0
    <3>1. r \in Linked /\ far[q] = far[r] + 1 /\ far[r] \in Nat
      BY <1>1, <1>2, <2>2 DEF Counts
    <3>2. far[r] <= a /\ far[r] <= m
      BY <1>1, <1>3, <3>1
    <3> HIDE DEF a
    <3> QED BY <1>1, <1>4, <3>1, <3>2, SameWalk
  <2> QED BY <2>1, <2>2
<1> QED BY <1>1, <1>2, <1>5, <1>6 DEF r

\* What the chain has from q on, and from behind q on.
LEMMA ChainParts ==
  ASSUME NEW lo, NEW hi, NEW far, NEW f, WalkOK(lo, hi, far, f), NEW q \in Linked
  PROVE  /\ InChain(far, ChainFrom(q), q)
         /\ ChainFrom(page[q].next) \in Seq(NodeEntries)
         /\ \A e \in ToSet(ChainFrom(page[q].next)) :
              \E x \in Linked : far[q] > far[x] /\ e \in Entries(x)
<1> DEFINE m == Len(page)
           r == page[q].next
<1>1. /\ m \in Nat /\ Counts(far, Linked, Nxt) /\ \A x \in Linked : far[x] <= m
      /\ Leaves(lo, hi, far)
  BY DEF WalkOK
<1>2. ASSUME NEW x \in Linked PROVE InChain(far, ChainFrom(x), x)
  <2>1. PICK g : IsWalk(g, m) /\ \A p : ChainFrom(p) = g[m][p]
    BY <1>1, WalkDef
  <2>2. far[x] <= m /\ m \in 0 .. m
    BY <1>1
  <2> HIDE DEF m
  <2>3. InChain(far, g[m][x], x)
    BY <1>1, <2>1, <2>2, WalkOrder
  <2> QED BY <2>1, <2>3
<1>3. Nxt[q] = r
  BY DEF Nxt
<1> HIDE DEF r
<1>4. CASE r = 0
  <2>1. ChainFrom(0) = <<>>
    BY <1>1 DEF WalkOK, Follows
  <2>2. ChainFrom(r) = <<>>
    BY <1>4, <2>1
  <2>3. <<>> \in Seq(NodeEntries) /\ ToSet(<<>>) = {}
    BY DEF ToSet
  <2> QED BY <1>2, <2>2, <2>3 DEF r
<1>5. CASE r # 0
  <2>1. r \in Linked /\ far[q] = far[r] + 1 /\ far[r] \in Nat
    BY <1>1, <1>3, <1>5 DEF Counts
  <2>2. InChain(far, ChainFrom(r), r)
    BY <1>2, <2>1
  <2>3. \A x \in Rest(far, r) : x \in Linked /\ far[q] > far[x]
    <3>1. \A x \in Linked : far[x] \in Nat
      BY <1>1 DEF Counts
    <3>2. \A x \in Linked : far[x] <= far[r] => far[q] > far[x]
      BY <2>1, <3>1
    <3> QED BY <3>2 DEF Rest
  <2>4. \A e \in ToSet(ChainFrom(r)) : \E x \in Linked : far[q] > far[x] /\ e \in Entries(x)
    BY <2>2, <2>3 DEF InChain
  <2> QED BY <1>2, <2>2, <2>4 DEF InChain, r
<1> QED BY <1>4, <1>5

Before(far, p, s) ==
  /\ s \in Seq(NodeEntries)
  /\ ChainFrom(1) = s \o ChainFrom(p)
  /\ \A e \in ToSet(s) : \E x \in Linked : far[x] > far[p] /\ e \in Entries(x)

LEMMA ChainDown ==
  ASSUME NEW lo, NEW hi, NEW far, NEW f, WalkOK(lo, hi, far, f), NEW p \in Linked
  PROVE  \E s : Before(far, p, s)
<1>1. /\ Len(page) \in Nat /\ Counts(far, Linked, Nxt) /\ Leaves(lo, hi, far)
      /\ 1 \in Linked /\ \A q \in Linked : far[q] <= far[1]
  <2>1. page # <<>>
    BY DEF Linked, Tree
  <2> QED BY <2>1 DEF WalkOK
<1>2. /\ \A q \in Linked : far[q] \in Nat /\ far[q] > 0
      /\ \A q, x \in Linked : far[q] = far[x] => q = x
  BY <1>1 DEF Counts, Leaves, LinksIn
<1> DEFINE D == {n \in Nat : n < far[1] =>
                   \E q \in Linked : far[q] = far[1] - n /\ \E s : Before(far, q, s)}
<1>3. 0 \in D
  <2>1. far[1] = far[1] - 0
    BY <1>1, <1>2
  <2>2. ChainFrom(1) \in Seq(NodeEntries)
    BY <1>1, ChainParts DEF InChain
  <2>3. ChainFrom(1) = <<>> \o ChainFrom(1) /\ ToSet(<<>>) = {}
    BY <2>2 DEF ToSet
  <2>4. Before(far, 1, <<>>)
    BY <2>3 DEF Before
  <2> QED BY <1>1, <2>1, <2>4
<1>4. ASSUME NEW n \in Nat, n \in D PROVE n + 1 \in D
  <2> SUFFICES ASSUME n + 1 < far[1]
               PROVE  \E q \in Linked : far[q] = far[1] - (n + 1) /\ \E s : Before(far, q, s)
    OBVIOUS
  <2>1. PICK q \in Linked : far[q] = far[1] - n /\ \E s : Before(far, q, s)
    BY <1>1, <1>2, <1>4
  <2>2. PICK s : Before(far, q, s)
    BY <2>1
  <2> DEFINE r == page[q].next
             t == page[q].entries
  <2>3. Nxt[q] = r
    BY DEF Nxt
  <2> HIDE DEF D
  <2>4. far[q] > 1
    BY <1>1, <1>2, <2>1
  <2>5. r \in Linked /\ far[q] = far[r] + 1 /\ far[r] \in Nat
    BY <1>1, <1>2, <2>3, <2>4 DEF Counts
  <2>6. ChainFrom(q) = t \o ChainFrom(r)
    BY ChainHead
  <2>7. ChainFrom(r) \in Seq(NodeEntries)
    BY ChainParts
  <2>8. page[q] \in ProperNodes
    BY <1>1 DEF Leaves
  <2>9. t \in Seq(NodeEntries)
    BY <2>8, ProperFacts, NodeFacts
  <2>10. s \in Seq(NodeEntries)
    BY <2>2 DEF Before
  <2>11. ToSet(t) = Entries(q)
    BY DEF Entries
  <2> HIDE DEF t, r
  <2>12. ChainFrom(1) = (s \o t) \o ChainFrom(r)
    <3>1. ChainFrom(1) = s \o ChainFrom(q)
      BY <2>2 DEF Before
    <3>2. s \o (t \o ChainFrom(r)) = (s \o t) \o ChainFrom(r)
      BY <2>7, <2>9, <2>10, ConcatAssociative
    <3> QED BY <2>6, <3>1, <3>2
  <2>13. s \o t \in Seq(NodeEntries) /\ ToSet(s \o t) = ToSet(s) \cup ToSet(t)
    BY <2>9, <2>10, ToSetJoined
  <2>14. \A e \in ToSet(s) : \E x \in Linked : far[x] > far[r] /\ e \in Entries(x)
    <3>1. \A x \in Linked : far[x] > far[q] => far[x] > far[r]
      BY <1>2, <2>5
    <3> QED BY <2>2, <3>1 DEF Before
  <2>15. far[q] > far[r]
    BY <2>5
  <2>16. Before(far, r, s \o t)
    BY <2>11, <2>12, <2>13, <2>14, <2>15 DEF Before
  <2>17. far[r] = far[1] - (n + 1)
    BY <1>1, <1>2, <2>1, <2>5
  <2> QED BY <2>5, <2>16, <2>17
<1>5. Nat \subseteq D
  <2> HIDE DEF D
  <2> QED BY <1>3, <1>4, Induction
<1> DEFINE n == far[1] - far[p]
<1>6. n \in Nat /\ n < far[1] /\ far[1] - n = far[p]
  BY <1>1, <1>2
<1> HIDE DEF n
<1>7. PICK q \in Linked : far[q] = far[1] - n /\ \E s : Before(far, q, s)
  BY <1>5, <1>6
<1>8. q = p
  BY <1>2, <1>6, <1>7
<1> QED BY <1>7, <1>8

-----------------------------------------------------------------------------
(* Where a cursor is on the chain.                                         *)

\* c is s, then the entries t of the leaf q, then r.
Parted(far, q, c, s, t, r) ==
  /\ c = ChainFrom(1) /\ t = page[q].entries /\ r = ChainFrom(page[q].next)
  /\ c \in Seq(NodeEntries)
  /\ s \in Seq(NodeEntries) /\ t \in Seq(NodeEntries) /\ r \in Seq(NodeEntries)
  /\ Len(c) = Len(s) + Len(t) + Len(r)
  /\ Len(ChainFrom(q)) = Len(t) + Len(r)
  /\ \A i \in 1 .. Len(s) : c[i] = s[i]
  /\ \A i \in 1 .. Len(t) : c[Len(s) + i] = t[i]
  /\ \A i \in 1 .. Len(r) : c[Len(s) + Len(t) + i] = r[i]
  /\ \A e \in ToSet(s) : \E x \in Linked : far[x] > far[q] /\ e \in Entries(x)
  /\ \A e \in ToSet(r) : \E x \in Linked : far[q] > far[x] /\ e \in Entries(x)

LEMMA ChainParted ==
  ASSUME OrderInv, NEW lo, NEW hi, NEW far, Leaves(lo, hi, far), NEW q \in Linked
  PROVE  \E c, s, t, r : Parted(far, q, c, s, t, r)
<1> DEFINE c == ChainFrom(1)
           t == page[q].entries
           r == ChainFrom(page[q].next)
<1>1. PICK f : WalkOK(lo, hi, far, f)
  BY WalkHolds
<1>2. PICK s : Before(far, q, s)
  BY <1>1, ChainDown
<1>3. ChainFrom(q) = t \o r
  BY <1>1, ChainHead
<1>4. /\ r \in Seq(NodeEntries)
      /\ \A e \in ToSet(r) : \E x \in Linked : far[q] > far[x] /\ e \in Entries(x)
  BY <1>1, ChainParts
<1>5. t \in Seq(NodeEntries)
  BY ProperFacts, NodeFacts DEF Leaves
<1>6. /\ s \in Seq(NodeEntries) /\ c = s \o ChainFrom(q)
      /\ \A e \in ToSet(s) : \E x \in Linked : far[x] > far[q] /\ e \in Entries(x)
  BY <1>2 DEF Before
<1> HIDE DEF c, t, r
<1>7. c = s \o (t \o r)
  BY <1>3, <1>6
<1>8. /\ t \o r \in Seq(NodeEntries) /\ Len(t \o r) = Len(t) + Len(r)
      /\ \A i \in 1 .. Len(t) : (t \o r)[i] = t[i]
      /\ \A i \in 1 .. Len(r) : (t \o r)[Len(t) + i] = r[i]
  BY <1>4, <1>5, ToSetJoined
<1> DEFINE w == t \o r
           a == Len(s)
           b == Len(t)
           z == Len(r)
<1>9. w \in Seq(NodeEntries) /\ c = s \o w /\ Len(w) = b + z
  BY <1>7, <1>8
<1> HIDE DEF w
<1>10. /\ c \in Seq(NodeEntries) /\ Len(c) = a + Len(w)
       /\ \A i \in 1 .. a : c[i] = s[i]
       /\ \A i \in 1 .. Len(w) : c[a + i] = w[i]
  <2> DEFINE v == s \o w
  <2>1. /\ v \in Seq(NodeEntries) /\ Len(v) = Len(s) + Len(w)
        /\ \A i \in 1 .. Len(s) : v[i] = s[i]
        /\ \A i \in 1 .. Len(w) : v[Len(s) + i] = w[i]
    BY <1>6, <1>9, ToSetJoined
  <2> HIDE DEF v
  <2>2. c = v
    BY <1>9 DEF v
  <2> QED BY <2>1, <2>2
<1>11. /\ \A i \in 1 .. b : w[i] = t[i]
       /\ \A i \in 1 .. z : w[b + i] = r[i]
  BY <1>8 DEF w
<1>12. a \in Nat /\ b \in Nat /\ z \in Nat
  BY <1>4, <1>5, <1>6
<1> HIDE DEF a, b, z
<1>13. Len(c) = a + b + z
  BY <1>9, <1>10, <1>12
<1>14. \A i \in 1 .. b : c[a + i] = t[i]
  <2>1. \A i \in 1 .. b : i \in 1 .. Len(w)
    BY <1>9, <1>12
  <2> QED BY <1>10, <1>11, <2>1
<1>15. \A i \in 1 .. z : c[a + b + i] = r[i]
  <2> SUFFICES ASSUME NEW i \in 1 .. z PROVE c[a + b + i] = r[i]
    OBVIOUS
  <2>1. b + i \in 1 .. Len(w) /\ a + b + i = a + (b + i)
    BY <1>9, <1>12
  <2>2. c[a + (b + i)] = w[b + i]
    BY <1>10, <2>1
  <2> QED BY <1>11, <2>1, <2>2
<1>16. Parted(far, q, c, s, t, r)
  <2>1. c = ChainFrom(1) /\ t = page[q].entries /\ r = ChainFrom(page[q].next)
    BY DEF c, t, r
  <2>2. Len(ChainFrom(q)) = b + z
    BY <1>3, <1>8 DEF b, z
  <2> QED BY <1>4, <1>5, <1>6, <1>10, <1>13, <1>14, <1>15, <2>1, <2>2 DEF Parted, a, b, z
<1> QED BY <1>16

\* The chain ends at page 0.
LEMMA ChainEnds ==
  ASSUME OrderInv
  PROVE  ChainFrom(0) = <<>> /\ ChainFrom(1) \in Seq(NodeEntries)
         /\ (page = <<>> => ChainFrom(1) = <<>>)
         /\ (page # <<>> => 1 \in Linked)
<1>1. PICK lo, hi, far, f : WalkOK(lo, hi, far, f)
  BY WalkIs DEF HasWalk
<1>2. ChainFrom(0) = <<>>
  BY <1>1 DEF WalkOK, Follows
<1>3. page # <<>> => 1 \in Linked
  BY <1>1 DEF WalkOK
<1>4. page = <<>> => ChainFrom(1) = <<>>
  <2> SUFFICES ASSUME page = <<>> PROVE ChainFrom(1) = <<>>
    OBVIOUS
  <2> DEFINE m == Len(page)
  <2>1. m = 0 /\ m \in Nat
    OBVIOUS
  <2> HIDE DEF m
  <2>2. PICK g : IsWalk(g, m) /\ \A p : ChainFrom(p) = g[m][p]
    BY <2>1, WalkDef DEF m
  <2>3. 1 \in Int
    OBVIOUS
  <2>4. g[0][1] = <<>>
    BY <2>1, <2>2, <2>3, WalkFacts
  <2> QED BY <2>1, <2>2, <2>4
<1>5. ChainFrom(1) \in Seq(NodeEntries)
  <2>1. CASE page = <<>>
    <3>1. <<>> \in Seq(NodeEntries)
      OBVIOUS
    <3> QED BY <1>4, <2>1, <3>1, Zenon
  <2>2. CASE page # <<>>
    BY <1>1, <1>3, <2>2, ChainParts DEF InChain
  <2> QED BY <2>1, <2>2
<1> QED BY <1>2, <1>3, <1>4, <1>5

-----------------------------------------------------------------------------
(* The cursor is on the chain, at most behind the last entry of a leaf     *)
(* where locate() has left it, or it is lost.                              *)

AtEnd == cursor = [pid |-> -1, eid |-> 0] /\ page = <<>>
AtHeader == cursor = [pid |-> 0, eid |-> 0] /\ page # <<>>
OnLeaf ==
  /\ cursor.pid \in Linked
  /\ cursor.eid \in 0 .. Len(page[cursor.pid].entries)
  /\ cursor.eid = Len(page[cursor.pid].entries) => ret.op = "locate"

CursorIn ==
  \/ cursor = NoCursor
  \/ mode = "r" /\ (cursor = LostCursor \/ AtEnd \/ AtHeader \/ OnLeaf)

\* The root of an empty index.
EmptyRoots ==
  /\ mode # "closed" /\ treeHeight = 0 => rootPid = -1
  /\ header \notin {NoFile, Garbage} /\ header.treeHeight = 0 => header.rootPid = -1

SeekInv == SearchInv /\ EmptyRoots /\ CursorIn

LEMMA InitSeek == Init => SeekInv
<1>1. Init => EmptyRoots /\ CursorIn
  BY DEF Init, EmptyRoots, CursorIn
<1> QED BY <1>1, InitSearch DEF SeekInv

LEMMA StepRoots ==
  ASSUME Faults = {}, SearchInv, EmptyRoots, [Next]_vars
  PROVE  EmptyRoots'
<1>1. treeHeight \in Nat /\ mode # "wild" /\ (call.pc \in {"nodes", "root"} => treeHeight > 0)
      /\ (mode = "closed" => header # Garbage) /\ (mode = "r" => Saved)
  BY DEF SearchInv, OrderInv, NoFaultYet, BalanceInv, TypeInv, MemoryOK, CallOK
<1>2. CASE \E m \in {"r", "w"} : OpenOK(m) \/ OpenFails(m)
  BY <1>1, <1>2 DEF OpenOK, OpenFails, memory, EmptyRoots
<1>3. CASE OpenNew \/ OpenGarbage
  BY <1>1, <1>3 DEF OpenNew, OpenGarbage, EmptyRoots
<1>4. CASE Close
  <2>1. /\ mode # "closed" /\ UNCHANGED memory
        /\ header' = header \/ header' = [rootPid |-> rootPid, treeHeight |-> treeHeight]
    BY <1>4 DEF Close
  <2> QED BY <2>1 DEF EmptyRoots, memory
<1>5. CASE Drop
  BY <1>5 DEF Drop, EmptyRoots
<1>6. CASE WriteFirst \/ WriteRoot
  <2>1. /\ treeHeight' = treeHeight + 1 /\ header' = header
    BY <1>6 DEF WriteFirst, WriteRoot
  <2>2. treeHeight' # 0
    BY <1>1, <2>1
  <2> QED BY <2>1, <2>2 DEF EmptyRoots
<1>7. CASE \E k \in Keys \cup Searched : Astray(k)
  BY <1>7 DEF Astray, memory, EmptyRoots
<1>8. CASE UNCHANGED <<header, mode, memory>>
  BY <1>8 DEF memory, EmptyRoots
<1>9. CASE (\E k \in Keys : BeginEmpty(k) \/ Begin(k)) \/ WriteSibling \/ WriteNode \/ Return
           \/ (\E k \in Searched : Locate(k)) \/ LocateFails \/ ReadForward \/ ReadHeader \/ ReadFails
           \/ UNCHANGED vars
  <2>1. UNCHANGED <<header, mode, memory>>
    BY <1>9 DEF BeginEmpty, Begin, Calls, WriteSibling, WriteNode, Return, Locate, LocateFails,
                ReadForward, ReadHeader, ReadFails, vars
  <2> QED BY <1>8, <2>1
<1> QED BY <1>2, <1>3, <1>4, <1>5, <1>6, <1>7, <1>9 DEF Next

\* A position that locate() finds.
LEMMA LocateFacts ==
  ASSUME Faults = {}, SearchedInts, SearchInv, EmptyRoots, NEW k \in Searched, Locate(k)
  PROVE  /\ mode = "r" /\ call.pc = "idle"
         /\ page = <<>> => cursor' = [pid |-> -1, eid |-> 0]
         /\ page # <<>> =>
              \E lo, hi, far :
                 \E p \in Linked :
                   /\ Leaves(lo, hi, far) /\ lo[p] <= k /\ k < hi[p]
                   /\ cursor' = [pid |-> p, eid |-> UpTo(page[p].entries, k)]
<1>1. treeHeight \in Nat /\ k \in Int /\ INT_MIN <= k /\ k < Top
  <2>1. treeHeight \in Nat /\ k \in INT_MIN .. Top - 1
    BY DEF SearchInv, OrderInv, BalanceInv, TypeInv, MemoryOK, SearchedInts
  <2> QED BY <2>1, Bounds
<1>2. mode = "r" /\ call.pc = "idle"
  BY DEF Locate, SearchInv, OrderInv, BalanceInv, TypeInv, CallOK
<1>3. treeHeight = 0 <=> page = <<>>
  BY <1>2 DEF SearchInv, OrderInv, NoFaultYet, Height
<1>4. CASE treeHeight = 0
  BY <1>2, <1>3, <1>4 DEF Locate, EmptyRoots
<1>5. CASE treeHeight # 0
  <2>1. PICK lo, hi, far : SearchOK(lo, hi, far)
    BY <1>2, SearchFacts
  <2> DEFINE p == LeafFor(k)
  <2>2. p \in Linked /\ Exists(p) /\ lo[p] <= k /\ k < hi[p]
    BY <1>1, <1>5, <2>1 DEF SearchOK
  <2>3. cursor' = [pid |-> p, eid |-> UpTo(page[p].entries, k)]
    BY <1>5, <2>2 DEF Locate
  <2> HIDE DEF p
  <2> QED BY <1>2, <1>3, <1>5, <2>1, <2>2, <2>3 DEF SearchOK
<1> QED BY <1>4, <1>5

\* What readForward does on a leaf of the chain.
LEMMA ReadFacts ==
  ASSUME SearchInv, CursorIn, ReadForward
  PROVE  /\ mode = "r" /\ OnLeaf
         /\ page[cursor.pid] \in ProperNodes
         /\ LET q == cursor.pid
                n == page[q]
            IN /\ cursor.eid < Len(n.entries) =>
                    ret' = [op |-> "read", rc |-> "OK", entry |-> n.entries[cursor.eid + 1]]
               /\ cursor.eid = Len(n.entries) =>
                    /\ ret'.op = "read"
                    /\ ret'.entry \in {ZeroEntry, Entry(n.next, Junk)}
               /\ cursor.eid + 1 < Len(n.entries) => cursor' = [pid |-> q, eid |-> cursor.eid + 1]
               /\ ~(cursor.eid + 1 < Len(n.entries)) => cursor' = [pid |-> n.next, eid |-> 0]
               /\ n.next = 0 \/ n.next \in Linked
<1>1. mode = "r" /\ Exists(cursor.pid) /\ page \in Seq(ProperNodes)
      /\ cursor \in [pid : Int, eid : Int]
  BY DEF ReadForward, SearchInv, OrderInv, BalanceInv, TypeInv
<1>2. cursor.pid \in 1 .. Len(page) /\ Len(page) \in Nat
  BY <1>1 DEF Exists
<1>3. OnLeaf
  <2>1. cursor.pid # -1 /\ cursor.pid # -2 /\ cursor.pid # 0
    BY <1>2
  <2> QED BY <2>1 DEF CursorIn, NoCursor, LostCursor, AtEnd, AtHeader
<1> DEFINE q == cursor.pid
           n == page[q]
<1>4. n \in ProperNodes
  BY <1>1, <1>2
<1>5. PICK lo, hi, far : Leaves(lo, hi, far)
  BY LeavesHold DEF SearchInv
<1>6. n.next = 0 \/ n.next \in Linked
  BY <1>3, <1>5 DEF OnLeaf, Leaves, LinksIn
<1>7. cursor' = Advance(n) /\ cursor = [pid |-> q, eid |-> cursor.eid]
      /\ ret' = [op |-> "read", rc |-> "OK", entry |->
                   IF CanRead(n, cursor.eid) THEN ReadEntry(n, cursor.eid) ELSE ZeroEntry]
  BY <1>1 DEF ReadForward
<1>8. Len(n.entries) \in Nat /\ cursor.eid \in 0 .. Len(n.entries)
  BY <1>3, <1>4, ProperFacts, NodeFacts DEF OnLeaf
<1> HIDE DEF n, q
<1>9. CanRead(n, cursor.eid)
  BY <1>8 DEF CanRead
<1>10. /\ cursor.eid < Len(n.entries) => ReadEntry(n, cursor.eid) = n.entries[cursor.eid + 1]
       /\ cursor.eid = Len(n.entries) => ReadEntry(n, cursor.eid) \in {ZeroEntry, Entry(n.next, Junk)}
  BY <1>8 DEF ReadEntry
<1>11. /\ cursor.eid + 1 < Len(n.entries) => cursor' = [pid |-> q, eid |-> cursor.eid + 1]
       /\ ~(cursor.eid + 1 < Len(n.entries)) => cursor' = [pid |-> n.next, eid |-> 0]
  BY <1>7 DEF Advance
<1>12. ret'.op = "read"
       /\ ret' = [op |-> "read", rc |-> "OK", entry |-> ReadEntry(n, cursor.eid)]
       /\ ret'.entry = ReadEntry(n, cursor.eid)
  BY <1>7, <1>9
<1> QED BY <1>1, <1>3, <1>4, <1>6, <1>10, <1>11, <1>12 DEF n, q

LEMMA StepCursor ==
  ASSUME Faults = {}, KeysPositive, SearchedInts, SearchInv, EmptyRoots, CursorIn, [Next]_vars
  PROVE  CursorIn'
<1>1. /\ mode \in {"closed", "r", "w"} /\ (call.pc # "idle" => mode = "w")
      /\ page \in Seq(ProperNodes) /\ cursor \in [pid : Int, eid : Int]
  BY DEF SearchInv, OrderInv, NoFaultYet, BalanceInv, TypeInv, CallOK
<1>2. mode # "r" => cursor = NoCursor
  BY DEF CursorIn
<1>3. ASSUME UNCHANGED <<page, call>> PROVE Linked' = Linked
  BY <1>3 DEF Linked, Tree, Orphan, Split, Working
<1>4. CASE mode # "r" /\ cursor' = cursor
  BY <1>2, <1>4 DEF CursorIn, NoCursor
<1>5. CASE cursor' = NoCursor
  BY <1>5 DEF CursorIn, NoCursor
<1>6. CASE \E m \in {"r", "w"} : OpenOK(m) \/ OpenFails(m)
  <2>1. mode # "r" /\ cursor' = cursor
    BY <1>6 DEF OpenOK, OpenFails
  <2> QED BY <1>4, <2>1
<1>7. CASE OpenNew \/ OpenGarbage \/ Close \/ Drop
  <2>1. (mode # "r" /\ cursor' = cursor) \/ cursor' = NoCursor
    BY <1>7 DEF OpenNew, OpenGarbage, Close, Drop
  <2> QED BY <1>4, <1>5, <2>1
<1>8. CASE (\E k \in Keys : BeginEmpty(k) \/ Begin(k)) \/ WriteFirst \/ WriteSibling \/ WriteNode
           \/ WriteRoot \/ Return
  <2>1. mode # "r" /\ cursor' = cursor
    BY <1>1, <1>8 DEF BeginEmpty, Begin, Calls, WriteFirst, WriteSibling, WriteNode, WriteRoot, Return
  <2> QED BY <1>4, <2>1
<1>9. CASE \E k \in Keys \cup Searched : Astray(k)
  BY <1>9, AstrayOrder DEF SearchInv
<1>10. ASSUME NEW k \in Searched, Locate(k) PROVE CursorIn'
  <2>1. UNCHANGED <<page, call, mode>> /\ mode = "r" /\ ret'.op = "locate"
    BY <1>10 DEF Locate, Result
  <2>2. CASE page = <<>>
    <3>1. cursor' = [pid |-> -1, eid |-> 0]
      BY <1>10, <2>2, LocateFacts
    <3> QED BY <2>1, <2>2, <3>1 DEF CursorIn, AtEnd
  <2>3. CASE page # <<>>
    <3>1. PICK p \in Linked : cursor' = [pid |-> p, eid |-> UpTo(page[p].entries, k)]
                              /\ page[p] \in ProperNodes
      BY <1>10, <2>3, LocateFacts DEF Leaves
    <3>2. k \in Int
      BY <1>10, Bounds DEF SearchedInts
    <3>3. UpTo(page[p].entries, k) \in 0 .. Len(page[p].entries)
      BY <3>1, <3>2, ProperFacts, NodeFacts, UpToFacts
    <3>4. cursor'.pid = p /\ cursor'.eid = UpTo(page[p].entries, k)
      BY <3>1
    <3>5. OnLeaf'
      BY <1>3, <2>1, <3>1, <3>3, <3>4 DEF OnLeaf
    <3> QED BY <2>1, <3>5 DEF CursorIn
  <2> QED BY <2>2, <2>3
<1>11. CASE ReadForward
  <2> DEFINE q == cursor.pid
             n == page[q]
  <2>1. UNCHANGED <<page, call, mode>> /\ mode = "r"
    BY <1>11 DEF ReadForward
  <2>2. q \in Linked /\ cursor.eid \in 0 .. Len(n.entries) /\ n \in ProperNodes
    BY <1>11, ReadFacts DEF OnLeaf
  <2>3. CASE cursor.eid + 1 < Len(n.entries)
    <3>1. cursor'.pid = q /\ cursor'.eid = cursor.eid + 1
      BY <2>2, <2>3, ReadFacts, <1>11
    <3>2. Len(n.entries) \in Nat
      BY <2>2, ProperFacts, NodeFacts
    <3> DEFINE z == Len(n.entries)
    <3>3. cursor.eid + 1 \in 0 .. z /\ cursor.eid + 1 # z
      <4>1. z \in Nat /\ cursor.eid \in 0 .. z /\ cursor.eid + 1 < z
        BY <2>2, <2>3, <3>2
      <4> HIDE DEF z
      <4> QED BY <4>1
    <3>4. OnLeaf'
      BY <1>3, <2>1, <2>2, <3>1, <3>3 DEF OnLeaf
    <3> QED BY <2>1, <3>4 DEF CursorIn
  <2>4. CASE ~(cursor.eid + 1 < Len(n.entries))
    <3>1. cursor' = [pid |-> n.next, eid |-> 0] /\ (n.next = 0 \/ n.next \in Linked)
      BY <1>11, <2>4, ReadFacts
    <3>2. CASE n.next = 0
      <4>1. page # <<>>
        <5>1. q \in 1 .. Len(page)
          BY <2>2 DEF Linked, Tree
        <5> QED BY <5>1
      <4> QED BY <2>1, <3>1, <3>2, <4>1 DEF CursorIn, AtHeader
    <3>3. CASE n.next \in Linked
      <4> DEFINE r == n.next
      <4>1. cursor'.pid = r /\ cursor'.eid = 0
        BY <3>1
      <4>2. page[r] \in ProperNodes
        BY <3>3, LeavesHold DEF Leaves, SearchInv
      <4>3. Len(page[r].entries) \in Nat /\ Len(page[r].entries) # 0
        BY <4>2, ProperFacts, NodeFacts
      <4> HIDE DEF r
      <4>4. r \in Linked
        BY <3>3 DEF r
      <4>5. OnLeaf'
        BY <1>3, <2>1, <4>1, <4>3, <4>4 DEF OnLeaf
      <4> QED BY <2>1, <4>5 DEF CursorIn
    <3> QED BY <3>1, <3>2, <3>3
  <2> QED BY <2>3, <2>4
<1>12. CASE ReadHeader
  BY <1>12 DEF ReadHeader, CursorIn
<1>13. CASE ReadFails
  <2>1. UNCHANGED <<page, mode, cursor>> /\ (cursor.pid = -1 \/ cursor.pid > Len(page))
    BY <1>13 DEF ReadFails
  <2>2. cursor.pid \notin 1 .. Len(page)
    BY <1>1, <2>1
  <2>3. ~OnLeaf
    BY <2>2 DEF OnLeaf, Linked, Tree
  <2> QED BY <2>1, <2>3 DEF CursorIn, AtEnd, AtHeader
<1>14. CASE LocateFails
  BY <1>14 DEF LocateFails
<1>15. CASE UNCHANGED vars
  <2>1. UNCHANGED <<page, mode, cursor, call, ret>>
    BY <1>15 DEF vars
  <2> QED BY <1>3, <2>1 DEF CursorIn, AtEnd, AtHeader, OnLeaf
<1> QED BY <1>6, <1>7, <1>8, <1>9, <1>10, <1>11, <1>12, <1>13, <1>14, <1>15 DEF Next

LEMMA StepSeek ==
  ASSUME Faults = {}, KeysPositive, SearchedInts
  PROVE  SeekInv /\ [Next]_vars => SeekInv'
BY StepSearch, StepRoots, StepCursor DEF SeekInv

-----------------------------------------------------------------------------
(* Steps that leave the chain alone, and steps that a pair joins it by.    *)

ChainGood ==
  /\ ChainFrom(1) \in Seq(NodeEntries) /\ SortedKeys(ChainFrom(1))
  /\ IsInjective(ChainFrom(1)) /\ ToSet(ChainFrom(1)) = LinkedPairs

LEMMA ChainIs == OrderInv => ChainGood
<1> SUFFICES ASSUME OrderInv PROVE ChainGood
  OBVIOUS
<1> DEFINE c == ChainFrom(1)
<1>1. PICK lo, hi, far, f : WalkOK(lo, hi, far, f)
  BY WalkIs DEF HasWalk
<1>2. CASE page = <<>>
  <2>1. c = <<>> /\ Linked = {}
    BY <1>2, ChainEnds DEF Linked, Tree
  <2>2. ToSet(<<>>) = {} /\ IsInjective(<<>>) /\ SortedKeys(<<>>) /\ <<>> \in Seq(NodeEntries)
    BY DEF ToSet, IsInjective, SortedKeys
  <2> HIDE DEF c
  <2> QED BY <2>1, <2>2 DEF ChainGood, LinkedPairs, c
<1>3. CASE page # <<>>
  <2>1. 1 \in Linked /\ \A q \in Linked : far[q] <= far[1]
    BY <1>1, <1>3 DEF WalkOK
  <2>2. InChain(far, c, 1)
    BY <1>1, <2>1, ChainParts
  <2>3. Rest(far, 1) = Linked
    BY <2>1 DEF Rest
  <2> QED BY <2>2, <2>3 DEF InChain, ChainGood, LinkedPairs
<1> QED BY <1>2, <1>3

LEMMA PagesKeepChain ==
  ASSUME UNCHANGED page
  PROVE  \A q : ChainFrom(q)' = ChainFrom(q)
BY DEF ChainFrom, Exists

LEMMA LinksKeepChain ==
  ASSUME OrderInv, OrderInv', Linked' = Linked, Len(page) <= Len(page'),
         \A x \in Linked : page'[x].entries = page[x].entries /\ page'[x].next = page[x].next
  PROVE  ChainFrom(1)' = ChainFrom(1)
<1>1. PICK lo, hi, far, f : WalkOK(lo, hi, far, f)
  BY WalkIs DEF HasWalk
<1>2. HasWalk'
  BY WalkIs, PTL
<1>3. PICK lo2, hi2, far2, g : WalkOK(lo2, hi2, far2, g)'
  BY <1>2 DEF HasWalk
<1>4. Ent' = Ent /\ Nxt' = Nxt
  BY DEF Ent, Nxt
<1> DEFINE m == Len(page)
           k == Len(page')
<1>5. /\ m \in Nat /\ Counts(far, Linked, Nxt) /\ Follows(f, m, Linked, Ent, Nxt)
      /\ \A q \in Linked : far[q] <= m
      /\ ChainFrom(1) = f[m][1]
  BY <1>1 DEF WalkOK
<1>6. /\ k \in Nat /\ Follows(g, k, Linked, Ent, Nxt)
      /\ ChainFrom(1)' = g[k][1]
  BY <1>3, <1>4 DEF WalkOK
<1>7. m <= k
  OBVIOUS
<1>8. page # <<>> => 1 \in Linked
  BY <1>1 DEF WalkOK
<1>9. page' # <<>> => 1 \in Linked
  BY <1>3 DEF WalkOK
<1>10. CASE page # <<>>
  <2>1. 1 \in Linked /\ far[1] \in Nat /\ far[1] <= m
    BY <1>5, <1>8, <1>10 DEF Counts
  <2> HIDE DEF m, k
  <2>2. m \in 0 .. m /\ k \in 0 .. k /\ far[1] <= k
    BY <1>5, <1>6, <1>7, <2>1
  <2>3. f[m][1] = g[k][1]
    <3>1. \A q \in Linked : \A i \in 0 .. m : \A j \in 0 .. k :
            far[q] <= i /\ far[q] <= j => f[i][q] = g[j][q]
      BY <1>5, <1>6, SameWalk
    <3> QED BY <2>1, <2>2, <3>1
  <2> QED BY <1>5, <1>6, <2>3
<1>11. CASE page = <<>>
  <2>1. Linked = {}
    BY <1>11 DEF Linked, Tree
  <2>2. page' = page
    BY <1>9, <1>11, <2>1
  <2> QED BY <2>2, PagesKeepChain
<1> QED BY <1>10, <1>11

\* Where the cursor is matters when the object is open for reading only.
LEMMA NoCursorNowhere == cursor = NoCursor => Behind = -1
BY DEF NoCursor, Behind

\* The list, the pair under way and the cursor are what they were.
LEMMA Unmoved ==
  ASSUME ChainFrom(1)' = ChainFrom(1), UNCHANGED <<mode, ret>>, InFlight' = InFlight,
         Behind' = Behind
  PROVE  UNCHANGED OI!vars
BY DEF OI!vars

\* A pair joins the list.
LEMMA Joins ==
  ASSUME OrderInv, OrderInv', call.pc # "idle", call'.pc # "idle", ~Placed, Placed',
         call'.key = call.key, call'.rid = call.rid, UNCHANGED <<mode, ret, done>>,
         Behind' = Behind
  PROVE  OI!Appear(Pair) /\ Pair \in InFlight
<1> DEFINE c == ChainFrom(1)
<1>1. ChainGood /\ ChainGood'
  BY ChainIs, PTL
<1>2. Pair' = Pair
  BY DEF Pair
<1>3. /\ LinkedPairs = done /\ LinkedPairs' = done \cup {Pair} /\ Pair \notin done
  <2>1. LinkedPairs = done /\ \A e \in done : e.ptr < call.rid
    BY DEF OrderInv, PairsIn
  <2>2. LinkedPairs' = done \cup {Pair}
    BY <1>2 DEF OrderInv, PairsIn
  <2>3. call.rid \in Nat /\ Pair.ptr = call.rid
    BY PairFacts, CallFields DEF OrderInv, BalanceInv, TypeInv, CallOK
  <2>4. ~(call.rid < call.rid)
    BY <2>3
  <2> QED BY <2>1, <2>2, <2>3, <2>4
<1>4. /\ c \in Seq(NodeEntries) /\ c' \in Seq(NodeEntries) /\ IsInjective(c) /\ IsInjective(c')
      /\ SortedKeys(c') /\ ToSet(c) = LinkedPairs /\ ToSet(c') = LinkedPairs'
  BY <1>1 DEF ChainGood, IsInjective, ToSet
<1> HIDE DEF c
<1>5. Pair \notin ToSet(c) /\ ToSet(c') = ToSet(c) \cup {Pair}
  BY <1>3, <1>4
<1>6. Len(c') = Len(c) + 1
  BY <1>4, <1>5, OneMore
<1>7. InFlight = {Pair} /\ InFlight' = {Pair}
  BY <1>2 DEF InFlight, Pair
<1>8. OI!Sorted(c')
  BY <1>4 DEF OI!Sorted, SortedKeys
<1>9. OI!ToSet(c') = OI!ToSet(c) \cup {Pair}
  BY <1>5 DEF OI!ToSet, ToSet
<1> QED BY <1>6, <1>7, <1>8, <1>9 DEF OI!Appear, c

-----------------------------------------------------------------------------
(* Each step of BTreeIndex is a step of OrderedIndex, or none.             *)

\* While a pair is inserted there is no cursor.
LEMMA CallStays ==
  ASSUME SeekInv, call.pc # "idle", UNCHANGED <<mode, cursor>>
  PROVE  /\ mode = "w" /\ cursor = NoCursor /\ Behind = -1 /\ Behind' = -1
         /\ call \in CallSet
<1>1. mode = "w" /\ call \in CallSet
  BY DEF SeekInv, SearchInv, OrderInv, BalanceInv, TypeInv, CallOK
<1>2. cursor = NoCursor /\ cursor' = NoCursor
  BY <1>1 DEF SeekInv, CursorIn
<1> QED BY <1>1, <1>2 DEF Behind, NoCursor

\* A page is written that no leaf of the chain is on.
LEMMA KeptIsUnmoved ==
  ASSUME SeekInv, SeekInv', LinksKept, call.pc # "idle", call'.pc # "idle",
         call'.key = call.key, call'.rid = call.rid, UNCHANGED <<mode, cursor, ret>>
  PROVE  UNCHANGED OI!vars
<1>1. ChainFrom(1)' = ChainFrom(1)
  BY LinksKeepChain DEF SeekInv, SearchInv, LinksKept
<1>2. InFlight' = InFlight
  BY DEF InFlight
<1> QED BY <1>1, <1>2, CallStays, Unmoved

LEMMA WriteFirstJoins ==
  ASSUME Faults = {}, SeekInv, SeekInv', WriteFirst
  PROVE  \E e \in InFlight : OI!Appear(e)
<1>1. /\ call.pc = "first" /\ call' = [call EXCEPT !.pc = "return"]
      /\ UNCHANGED <<mode, cursor, ret, done>>
  BY DEF WriteFirst
<1>2. /\ Behind' = Behind /\ call \in CallSet
  BY <1>1, CallStays
<1>3. call'.pc = "return" /\ call'.key = call.key /\ call'.rid = call.rid
  BY <1>1, <1>2 DEF CallSet
<1>4. ~Placed /\ Placed'
  BY <1>1, <1>3 DEF Placed, AtInner, Working
<1> QED BY <1>1, <1>2, <1>3, <1>4, Joins DEF SeekInv, SearchInv

LEMMA WriteSiblingKeeps ==
  ASSUME Faults = {}, SeekInv, SeekInv', WriteSibling
  PROVE  UNCHANGED OI!vars
<1>1. /\ call.pc = "nodes" /\ call' = SiblingDone /\ UNCHANGED <<mode, cursor, ret>>
  BY DEF WriteSibling, SiblingDone
<1>2. call'.pc = call.pc /\ call'.key = call.key /\ call'.rid = call.rid
  BY <1>1, SiblingDoneFacts DEF SeekInv, SearchInv, OrderInv, BalanceInv
<1>3. LinksKept
  BY WriteSiblingOrder DEF SeekInv, SearchInv, OrderInv
<1> QED BY <1>1, <1>2, <1>3, KeptIsUnmoved

LEMMA WriteRootKeeps ==
  ASSUME Faults = {}, SeekInv, SeekInv', WriteRoot
  PROVE  UNCHANGED OI!vars
<1>1. /\ call.pc = "root" /\ call' = [call EXCEPT !.pc = "return"]
      /\ UNCHANGED <<mode, cursor, ret>>
  BY DEF WriteRoot
<1>2. call'.pc = "return" /\ call'.key = call.key /\ call'.rid = call.rid
  BY <1>1, CallStays DEF CallSet
<1>3. LinksKept
  BY WriteRootOrder DEF SeekInv, SearchInv, OrderInv
<1> QED BY <1>1, <1>2, <1>3, KeptIsUnmoved

\* The pair joins the list when the leaf is written, and no earlier or later.
LEMMA WriteNodeJoins ==
  ASSUME Faults = {}, SeekInv, SeekInv', WriteNode
  PROVE  UNCHANGED OI!vars \/ \E e \in InFlight : OI!Appear(e)
<1>1. /\ NodeWritten /\ call.pc = "nodes" /\ Working /\ UNCHANGED <<mode, cursor, ret, done>>
  BY DEF WriteNode, NodeWritten, Working
<1>2. /\ call'.key = call.key /\ call'.rid = call.rid
      /\ call'.pc \in {"nodes", "root", "return"}
  BY <1>1, AfterWrite DEF SeekInv, SearchInv
<1>3. Placed' /\ (AtInner => LinksKept)
  BY WriteNodeOrder DEF SeekInv, SearchInv, OrderInv
<1>4. CASE AtInner
  BY <1>1, <1>2, <1>3, <1>4, KeptIsUnmoved
<1>5. CASE ~AtInner
  <2>1. ~Placed
    BY <1>1, <1>5 DEF Placed
  <2>2. Behind' = Behind
    BY <1>1, CallStays
  <2> QED BY <1>1, <1>2, <1>3, <2>1, <2>2, Joins DEF SeekInv, SearchInv
<1> QED BY <1>4, <1>5

LEMMA ReturnFinishes ==
  ASSUME SeekInv, Return
  PROVE  \E e \in InFlight : OI!Finish(e)
<1> DEFINE c == ChainFrom(1)
<1>1. /\ call.pc = "return" /\ call' = Idle /\ ret' = Result("insert", call.rc)
      /\ UNCHANGED <<page, mode, cursor>>
  BY DEF Return
<1>2. call.rc = "OK"
  BY DEF SeekInv, SearchInv, OrderInv, NoFaultYet
<1>3. InFlight = {Pair} /\ InFlight' = {}
  BY <1>1 DEF InFlight, Idle, Pair
<1>4. Pair \in LinkedPairs
  BY <1>1 DEF SeekInv, SearchInv, OrderInv, PairsIn, Placed
<1>5. Pair \in ToSet(c) /\ c \in Seq(NodeEntries)
  BY <1>4, ChainIs DEF SeekInv, SearchInv, ChainGood
<1>6. c' = c
  BY <1>1, PagesKeepChain
<1> HIDE DEF c
<1>7. \E i \in 1 .. Len(c) : c[i] = Pair
  BY <1>5 DEF ToSet
<1>8. Behind' = Behind
  BY <1>1, CallStays
<1> QED BY <1>1, <1>2, <1>3, <1>6, <1>7, <1>8 DEF OI!Finish, c, Result


LEMMA ObjectSteps ==
  ASSUME Faults = {}, SeekInv, NEW m \in {"r", "w"}
  PROVE  /\ OpenOK(m) \/ OpenFails(m) \/ OpenNew \/ OpenGarbage => OI!Open
         /\ Close => OI!Close
         /\ Drop => OI!Drop
<1>1. /\ mode = "closed" => header # Garbage /\ cursor = NoCursor
      /\ mode # "wild" /\ (mode # "r" => cursor = NoCursor)
      /\ (mode = "closed" => call.pc = "idle")
  BY DEF SeekInv, SearchInv, OrderInv, NoFaultYet, CursorIn, BalanceInv, TypeInv, CallOK
<1>2. cursor = NoCursor => Behind = -1
  BY NoCursorNowhere
<1>3. cursor' = NoCursor => Behind' = -1
  BY DEF Behind, NoCursor
<1>4. UNCHANGED page => ChainFrom(1)' = ChainFrom(1)
  BY PagesKeepChain
<1>5. UNCHANGED call => InFlight' = InFlight
  BY DEF InFlight
<1>6. call.pc = "idle" => InFlight = {}
  BY DEF InFlight
<1>7. ASSUME OpenOK(m) \/ OpenFails(m) \/ OpenNew \/ OpenGarbage PROVE OI!Open
  <2>1. /\ mode = "closed" /\ mode' \in {"closed", "r", "w"} /\ UNCHANGED <<page, call, cursor>>
        /\ ret'.op = "open" /\ (ret'.rc = "OK" <=> mode' # "closed")
    BY <1>1, <1>7 DEF OpenOK, OpenFails, OpenNew, OpenGarbage, Result
  <2>2. Behind' = Behind
    BY <1>1, <1>2, <1>3, <2>1
  <2> QED BY <1>4, <1>5, <2>1, <2>2 DEF OI!Open
<1>8. ASSUME Close PROVE OI!Close
  <2>1. /\ mode # "closed" /\ call.pc = "idle" /\ UNCHANGED <<page, call>> /\ ret'.op = "close"
        /\ \/ mode' = mode /\ mode # "r" /\ cursor' = cursor /\ ret'.rc # "OK"
           \/ mode' = "closed" /\ cursor' = NoCursor /\ ret'.rc = "OK"
    BY <1>8 DEF Close, Result
  <2>2. Behind' = IF mode' = "closed" THEN -1 ELSE Behind
    BY <1>1, <1>2, <1>3, <2>1
  <2> QED BY <1>4, <1>5, <1>6, <2>1, <2>2 DEF OI!Close
<1>9. ASSUME Drop PROVE OI!Drop
  <2>1. /\ call.pc = "idle" /\ call' = Idle /\ mode' = "closed" /\ cursor' = NoCursor
        /\ UNCHANGED <<page, ret>>
    BY <1>1, <1>9 DEF Drop
  <2>2. InFlight = {} /\ InFlight' = {}
    BY <2>1 DEF InFlight, Idle
  <2> QED BY <1>3, <1>4, <2>1, <2>2 DEF OI!Drop
<1> QED BY <1>7, <1>8, <1>9

LEMMA BeginSteps ==
  ASSUME SeekInv, NEW k \in Keys, BeginEmpty(k) \/ Begin(k)
  PROVE  \E r \in 1 .. MaxInserts : OI!Begin(k, r)
<1>1. TypeInv
  BY DEF SeekInv, SearchInv, OrderInv, BalanceInv
<1>2. Calls(k)
  BY DEF BeginEmpty, Begin
<1>3. mode = "w" /\ call.pc = "idle" /\ tail <= MaxInserts /\ UNCHANGED <<page, mode, cursor, ret>>
  BY <1>2 DEF Calls
<1>4. tail \in 1 .. MaxInserts
  BY <1>1, <1>3, BTreeIndexAssumption DEF TypeInv, DoneOK
<1>5. call'.pc # "idle" /\ call'.key = k /\ call'.rid = tail
  <2>1. CASE BeginEmpty(k)
    <3>1. call' = [Idle EXCEPT !.pc = "first", !.key = k, !.rid = tail]
      BY <2>1 DEF BeginEmpty
    <3> QED BY <3>1 DEF Idle
  <2>2. CASE Begin(k)
    <3>1. PICK leaf \in Nodes, c \in CallSet :
             /\ call' = Place(c, LeafFor(k), leaf, Entry(k, tail))
             /\ c.pc = "nodes" /\ c.key = k /\ c.rid = tail
             /\ Len(leaf.entries) <= Capacity(leaf)
             /\ SortedKeys(leaf.entries) /\ LeafFor(k) \in Nat
      BY <1>1, <2>2, BeginFacts
    <3>2. Entry(k, tail) \in NodeEntries
      BY <1>1, <1>2, CallsFacts
    <3> QED BY <3>1, <3>2, PlaceFacts
  <2> QED BY <2>1, <2>2
<1>6. InFlight = {} /\ InFlight' = {[key |-> k, ptr |-> tail]}
  BY <1>3, <1>5 DEF InFlight, Entry
<1>7. ChainFrom(1)' = ChainFrom(1)
  BY <1>3, PagesKeepChain
<1>8. Behind' = Behind
  <2>1. cursor = NoCursor /\ cursor' = NoCursor
    BY <1>3 DEF SeekInv, CursorIn
  <2> QED BY <2>1 DEF Behind, NoCursor
<1> QED BY <1>3, <1>4, <1>6, <1>7, <1>8 DEF OI!Begin

\* How many pairs a cursor cu has behind it.
Spot(cu) ==
  IF cu.pid < 0 THEN IF cu.pid = -1 /\ cu.eid = 0 THEN 0 ELSE -1
  ELSE Len(ChainFrom(1)) - Len(ChainFrom(cu.pid)) + cu.eid

LEMMA SpotIs ==
  /\ Behind = Spot(cursor)
  /\ UNCHANGED page => Behind' = Spot(cursor')
<1>1. Behind = Spot(cursor)
  BY DEF Behind, Spot
<1>2. ASSUME UNCHANGED page PROVE Behind' = Spot(cursor')
  <2>1. \A q : ChainFrom(q)' = ChainFrom(q)
    BY <1>2, PagesKeepChain
  <2>2. Behind' = IF cursor'.pid < 0 THEN IF cursor'.pid = -1 /\ cursor'.eid = 0 THEN 0 ELSE -1
                  ELSE Len(ChainFrom(1)') - Len(ChainFrom(cursor.pid)') + cursor'.eid
    BY DEF Behind
  <2>3. ChainFrom(cursor.pid)' = ChainFrom(cursor'.pid)
    BY <1>2 DEF ChainFrom, Exists
  <2> QED BY <2>1, <2>2, <2>3 DEF Spot
<1> QED BY <1>1, <1>2

\* Where the cursors on the leaf q are, when the leaves before q hold s, and
\* where the one at the start of the next leaf is.
SpotsOn(q, s, t) ==
  /\ \A n \in Nat : Spot([pid |-> q, eid |-> n]) = Len(s) + n
  /\ Spot([pid |-> page[q].next, eid |-> 0]) = Len(s) + Len(t)

LEMMA SpotOnLeaf ==
  ASSUME NEW q \in Linked, NEW far, NEW c, NEW s, NEW t, NEW r,
         Parted(far, q, c, s, t, r),
         page[q].next = 0 \/ page[q].next \in Linked, Len(page) \in Nat
  PROVE  SpotsOn(q, s, t)
<1> SUFFICES ASSUME NEW n \in Nat
             PROVE  /\ Spot([pid |-> q, eid |-> n]) = Len(s) + n
                    /\ Spot([pid |-> page[q].next, eid |-> 0]) = Len(s) + Len(t)
  BY Zenon DEF SpotsOn
<1>1. /\ Len(s) \in Nat /\ Len(t) \in Nat /\ Len(r) \in Nat
      /\ Len(ChainFrom(1)) = Len(s) + Len(t) + Len(r)
      /\ Len(ChainFrom(q)) = Len(t) + Len(r)
      /\ Len(ChainFrom(page[q].next)) = Len(r)
  <2>1. /\ c = ChainFrom(1) /\ r = ChainFrom(page[q].next)
        /\ Len(c) = Len(s) + Len(t) + Len(r)
        /\ Len(ChainFrom(q)) = Len(t) + Len(r)
    BY DEF Parted
  <2>2. Len(s) \in Nat /\ Len(t) \in Nat /\ Len(r) \in Nat
    BY DEF Parted
  <2> QED BY <2>1, <2>2
<1>2. Linked \subseteq Nat
  BY DEF Linked, Tree
<1> DEFINE a == Len(s)
           b == Len(t)
           z == Len(r)
           x == page[q].next
           lc == Len(ChainFrom(1))
           lq == Len(ChainFrom(q))
           lx == Len(ChainFrom(x))
<1>3. q \in Nat /\ x \in Nat
  <2>1. x = 0 \/ x \in Linked
    OBVIOUS
  <2>2. 0 \in Nat
    OBVIOUS
  <2> HIDE DEF x, lc, lq, lx
  <2> QED BY <1>2, <2>1, <2>2, Zenon
<1>4. /\ Spot([pid |-> q, eid |-> n]) = lc - lq + n
      /\ Spot([pid |-> x, eid |-> 0]) = lc - lx + 0
  <2> HIDE DEF x
  <2>1. ~(q < 0) /\ ~(x < 0)
    BY <1>3
  <2> QED BY <2>1 DEF Spot
<1>5. a \in Nat /\ b \in Nat /\ z \in Nat /\ lc = a + b + z /\ lq = b + z /\ lx = z
  BY <1>1
<1> HIDE DEF a, b, z, lc, lq, lx
<1>6. lc - lq + n = a + n /\ lc - lx + 0 = a + b
  BY <1>5
<1> QED BY <1>4, <1>6 DEF a, b


\* The keys up to k are those before the leaf for k and the first ones of it.
LEMMA UpToSplits ==
  ASSUME NEW lo, NEW hi, NEW far, Leaves(lo, hi, far),
         NEW q \in Linked, NEW k \in Int, lo[q] <= k, k < hi[q],
         NEW c, NEW s, NEW t, NEW r, Parted(far, q, c, s, t, r)
  PROVE  /\ Len(s) + UpTo(t, k) \in 0 .. Len(c)
         /\ \A i \in 1 .. Len(c) : c[i].key <= k <=> i <= Len(s) + UpTo(t, k)
<1> DEFINE a == Len(s)
           b == Len(t)
           z == Len(r)
           u == UpTo(t, k)
<1>1. /\ c \in Seq(NodeEntries) /\ s \in Seq(NodeEntries)
      /\ t \in Seq(NodeEntries) /\ r \in Seq(NodeEntries)
  BY DEF Parted
<1>2. /\ Len(c) = a + b + z
      /\ \A i \in 1 .. a : c[i] = s[i]
      /\ \A i \in 1 .. b : c[a + i] = t[i]
      /\ \A i \in 1 .. z : c[a + b + i] = r[i]
      /\ \A e \in ToSet(s) : \E x \in Linked : far[x] > far[q] /\ e \in Entries(x)
      /\ \A e \in ToSet(r) : \E x \in Linked : far[q] > far[x] /\ e \in Entries(x)
      /\ t = page[q].entries
  BY DEF Parted
<1>3. /\ lo \in [Nat -> Int] /\ hi \in [Nat -> Int] /\ Linked \subseteq Nat
      /\ \A x \in Linked : page[x] \in ProperNodes /\ LeafIn(page[x], lo[x], hi[x])
      /\ \A x, y \in Linked : far[x] > far[y] => hi[x] <= lo[y]
  BY DEF Leaves, LinksIn
<1>4. \A x \in Linked : \A e \in Entries(x) : e.key \in Int /\ lo[x] <= e.key /\ e.key <= hi[x]
  <2> SUFFICES ASSUME NEW x \in Linked, NEW e \in Entries(x)
               PROVE  e.key \in Int /\ lo[x] <= e.key /\ e.key <= hi[x]
    OBVIOUS
  <2>1. page[x].entries \in Seq(NodeEntries)
    BY <1>3, ProperFacts, NodeFacts
  <2>2. PICK i \in 1 .. Len(page[x].entries) : page[x].entries[i] = e
    BY <2>1 DEF Entries, ToSet
  <2>3. e.key \in Int
    BY <2>1, <2>2, KeysAreInts
  <2> QED BY <1>3, <2>3 DEF LeafIn, Entries
<1>5. \A x \in Linked : lo[x] \in Int /\ hi[x] \in Int
  BY <1>3
<1>6. \A e \in ToSet(s) : e.key <= k
  <2> SUFFICES ASSUME NEW e \in ToSet(s) PROVE e.key <= k
    OBVIOUS
  <2>1. PICK x \in Linked : far[x] > far[q] /\ e \in Entries(x)
    BY <1>2
  <2>2. hi[x] <= lo[q] /\ e.key \in Int /\ e.key <= hi[x]
    BY <1>3, <1>4, <2>1
  <2> QED BY <1>5, <2>2
<1>7. \A e \in ToSet(r) : ~(e.key <= k)
  <2> SUFFICES ASSUME NEW e \in ToSet(r) PROVE ~(e.key <= k)
    OBVIOUS
  <2>1. PICK x \in Linked : far[q] > far[x] /\ e \in Entries(x)
    BY <1>2
  <2>2. hi[q] <= lo[x] /\ e.key \in Int /\ lo[x] <= e.key
    BY <1>3, <1>4, <2>1
  <2> QED BY <1>5, <2>2
<1>8. \A i \in 1 .. a : c[i].key <= k
  <2>1. \A i \in 1 .. a : s[i] \in ToSet(s)
    BY <1>1 DEF ToSet
  <2> QED BY <1>2, <1>6, <2>1
<1>9. \A i \in 1 .. z : ~(c[a + b + i].key <= k)
  <2>1. \A i \in 1 .. z : r[i] \in ToSet(r)
    BY <1>1 DEF ToSet
  <2> QED BY <1>2, <1>7, <2>1
<1>10. /\ u \in 0 .. b
       /\ \A i \in 1 .. b : t[i].key <= k <=> i <= u
  <2>1. /\ u \in 0 .. b /\ b \in Nat
        /\ \A i \in 1 .. u : t[i].key <= k
        /\ u < b => t[u + 1].key > k
    <3>1. t \in Seq(NodeEntries) /\ k \in Int
      BY <1>1
    <3>2. /\ u \in 0 .. b
          /\ \A i \in 1 .. u : t[i].key <= k
          /\ u < b => t[u + 1].key > k
      BY <3>1, UpToFacts, Zenon
    <3>3. b \in Nat
      BY <3>1
    <3> HIDE DEF u, b
    <3> QED BY <3>2, <3>3
  <2>2. SortedKeys(t) /\ \A i \in 1 .. b : t[i].key \in Int
    <3>1. SortedKeys(t)
      BY <1>2, <1>3, ProperFacts
    <3> QED BY <1>1, <3>1, KeysAreInts
  <2>3. \A i, j \in 1 .. b : i < j => t[i].key <= t[j].key
    BY <2>2 DEF SortedKeys
  <2> HIDE DEF u, b
  <2> DEFINE v == u + 1
  <2>4. u < b => v \in 1 .. b /\ t[v].key > k
    BY <2>1
  <2>5. \A i \in 1 .. b : ~(i <= u) => u < b /\ (i = v \/ v < i)
    BY <2>1
  <2>6. \A i \in 1 .. b : i <= u => i \in 1 .. u
    BY <2>1
  <2> HIDE DEF v
  <2>7. \A i \in 1 .. b : ~(i <= u) => ~(t[i].key <= k)
    BY <2>2, <2>3, <2>4, <2>5
  <2> QED BY <2>1, <2>6, <2>7
<1>11. a \in Nat /\ b \in Nat /\ z \in Nat
  BY <1>1
<1> DEFINE l == Len(c)
<1>12. l = a + b + z
  BY <1>2
<1> HIDE DEF a, b, z, u, l
<1>13. a + u \in 0 .. l
  BY <1>10, <1>11, <1>12
<1>14. \A i \in 1 .. l : c[i].key <= k <=> i <= a + u
  <2> SUFFICES ASSUME NEW i \in 1 .. l PROVE c[i].key <= k <=> i <= a + u
    OBVIOUS
  <2> DEFINE j == i - a
             h == i - (a + b)
  <2>1. CASE i <= a
    <3>1. i \in 1 .. a /\ i <= a + u
      BY <1>10, <1>11, <2>1
    <3> QED BY <1>8, <3>1
  <2>2. CASE a < i /\ i <= a + b
    <3>1. j \in 1 .. b /\ i = a + j /\ (i <= a + u <=> j <= u)
      BY <1>10, <1>11, <2>2
    <3> HIDE DEF j
    <3>2. c[i] = t[j]
      BY <1>2, <3>1 DEF a, b
    <3> QED BY <1>10, <3>1, <3>2
  <2>3. CASE a + b < i
    <3>1. h \in 1 .. z /\ i = a + b + h /\ ~(i <= a + u)
      BY <1>10, <1>11, <1>12, <2>3
    <3> HIDE DEF h
    <3> QED BY <1>9, <3>1
  <2> QED BY <1>11, <2>1, <2>2, <2>3
<1> QED BY <1>13, <1>14 DEF a, u, l


LEMMA LocateSteps ==
  ASSUME Faults = {}, SearchedInts, SeekInv, NEW k \in Searched, Locate(k)
  PROVE  OI!Locate(k)
<1> DEFINE l == ChainFrom(1)
<1>1. OrderInv /\ SearchInv /\ EmptyRoots
  BY DEF SeekInv, SearchInv
<1>2. /\ mode = "r" /\ UNCHANGED <<page, mode, call>>
      /\ ret' = [op |-> "locate", rc |-> "OK", entry |-> ZeroEntry]
  BY DEF Locate, Result
<1>3. l' = l /\ InFlight' = InFlight /\ Behind' = Spot(cursor')
  BY <1>2, PagesKeepChain, SpotIs DEF InFlight
<1>4. /\ Behind' \in 0 .. Len(l)
      /\ \A i \in 1 .. Len(l) : l[i].key <= k <=> i <= Behind'
  <2>1. CASE page = <<>>
    <3>1. cursor' = [pid |-> -1, eid |-> 0]
      BY <1>1, <2>1, LocateFacts
    <3>2. Behind' = 0
      BY <1>3, <3>1 DEF Spot
    <3>3. l = <<>>
      BY <1>1, <2>1, ChainEnds
    <3> HIDE DEF l
    <3> QED BY <3>2, <3>3
  <2>2. CASE page # <<>>
    <3>1. PICK lo, hi, far :
             \E p \in Linked :
               /\ Leaves(lo, hi, far) /\ lo[p] <= k /\ k < hi[p]
               /\ cursor' = [pid |-> p, eid |-> UpTo(page[p].entries, k)]
      BY <1>1, <2>2, LocateFacts
    <3>2. PICK p \in Linked :
             /\ Leaves(lo, hi, far) /\ lo[p] <= k /\ k < hi[p]
             /\ cursor' = [pid |-> p, eid |-> UpTo(page[p].entries, k)]
      BY <3>1
    <3>3. PICK c, s, t, r : Parted(far, p, c, s, t, r)
      BY <1>1, <3>2, ChainParted
    <3>4. k \in Int
      BY Bounds DEF SearchedInts
    <3>5. /\ Len(s) + UpTo(t, k) \in 0 .. Len(c)
          /\ \A i \in 1 .. Len(c) : c[i].key <= k <=> i <= Len(s) + UpTo(t, k)
      BY <3>2, <3>3, <3>4, UpToSplits
    <3>6. c = l /\ t = page[p].entries /\ t \in Seq(NodeEntries)
      BY <3>3 DEF Parted
    <3>7. page[p].next = 0 \/ page[p].next \in Linked
      BY <3>2 DEF Leaves, LinksIn
    <3>8. Len(page) \in Nat
      BY <1>1 DEF OrderInv, BalanceInv, TypeInv
    <3>9. UpTo(t, k) \in 0 .. Len(t)
      BY <3>4, <3>6, UpToFacts
    <3> DEFINE u == UpTo(t, k)
    <3>10. u \in Nat /\ cursor' = [pid |-> p, eid |-> u]
      BY <3>2, <3>6, <3>9
    <3> HIDE DEF u
    <3>11. Spot([pid |-> p, eid |-> u]) = Len(s) + u
      <4>1. SpotsOn(p, s, t)
        BY <3>2, <3>3, <3>7, <3>8, SpotOnLeaf
      <4> QED BY <3>10, <4>1, Zenon DEF SpotsOn
    <3>12. Behind' = Len(s) + u
      BY <1>3, <3>10, <3>11
    <3> HIDE DEF l
    <3> QED BY <3>5, <3>6, <3>12 DEF u
  <2> QED BY <2>1, <2>2
<1> QED BY <1>2, <1>3, <1>4 DEF OI!Locate

LEMMA ReadForwardSteps ==
  ASSUME SeekInv, ReadForward
  PROVE  OI!Forward \/ OI!LeafEnd
<1> DEFINE q == cursor.pid
           n == page[q]
           x == n.next
           d == cursor.eid
           l == ChainFrom(1)
<1>1. OrderInv /\ SearchInv /\ CursorIn
  BY DEF SeekInv, SearchInv
<1>2. /\ mode = "r" /\ UNCHANGED <<page, mode, call>>
  BY DEF ReadForward
<1>3. l' = l /\ InFlight' = InFlight /\ Behind = Spot(cursor) /\ Behind' = Spot(cursor')
  BY <1>2, PagesKeepChain, SpotIs DEF InFlight
<1>4. /\ OnLeaf
      /\ d < Len(n.entries) =>
           ret' = [op |-> "read", rc |-> "OK", entry |-> n.entries[d + 1]]
      /\ d = Len(n.entries) =>
           /\ ret'.op = "read"
           /\ ret'.entry \in {ZeroEntry, Entry(x, Junk)}
      /\ d + 1 < Len(n.entries) => cursor' = [pid |-> q, eid |-> d + 1]
      /\ ~(d + 1 < Len(n.entries)) => cursor' = [pid |-> x, eid |-> 0]
      /\ x = 0 \/ x \in Linked
  BY <1>1, ReadFacts
<1>5. PICK lo, hi, far : Leaves(lo, hi, far)
  BY <1>1, LeavesHold
<1>6. PICK c, s, t, r : Parted(far, q, c, s, t, r)
  BY <1>1, <1>4, <1>5, ChainParted DEF OnLeaf
<1>7. /\ c = l /\ t = n.entries /\ c \in Seq(NodeEntries)
      /\ Len(s) \in Nat /\ Len(t) \in Nat /\ Len(r) \in Nat
      /\ Len(c) = Len(s) + Len(t) + Len(r)
      /\ \A i \in 1 .. Len(t) : c[Len(s) + i] = t[i]
  <2>1. /\ c = l /\ t = n.entries /\ c \in Seq(NodeEntries)
        /\ Len(c) = Len(s) + Len(t) + Len(r)
        /\ \A i \in 1 .. Len(t) : c[Len(s) + i] = t[i]
    BY <1>6 DEF Parted
  <2>2. Len(s) \in Nat /\ Len(t) \in Nat /\ Len(r) \in Nat
    BY <1>6 DEF Parted
  <2> QED BY <2>1, <2>2
<1>8. /\ d \in 0 .. Len(t) /\ (d = Len(t) => ret.op = "locate") /\ q \in Linked
      /\ cursor = [pid |-> q, eid |-> d]
  <2>1. cursor \in [pid : Int, eid : Int]
    BY <1>1 DEF OrderInv, BalanceInv, TypeInv
  <2> QED BY <1>4, <1>7, <2>1 DEF OnLeaf
<1>9. Len(page) \in Nat
  BY <1>1 DEF OrderInv, BalanceInv, TypeInv
<1> DEFINE a == Len(s)
           b == Len(t)
           w == d + 1
<1>10. a \in Nat /\ b \in Nat /\ d \in Nat /\ d <= b /\ w \in Nat /\ w = d + 1
  BY <1>7, <1>8
<1> HIDE DEF a, b, w, d, x, n, q, l
<1>11. /\ Spot(cursor) = a + d
       /\ Spot([pid |-> q, eid |-> w]) = a + w
       /\ Spot([pid |-> x, eid |-> 0]) = a + b
  <2>1. page[q].next = x
    BY DEF x, n
  <2>2. SpotsOn(q, s, t)
    BY <1>4, <1>6, <1>8, <1>9, <2>1, SpotOnLeaf
  <2>3. /\ \A i \in Nat : Spot([pid |-> q, eid |-> i]) = a + i
        /\ Spot([pid |-> x, eid |-> 0]) = a + b
    BY <2>1, <2>2, Zenon DEF SpotsOn, a, b
  <2> QED BY <1>8, <1>10, <2>3, Zenon
<1>12. Behind = a + d
  BY <1>3, <1>11
<1>13. CASE d < b
  <2>1. Behind' = a + w
    <3>1. CASE w < b
      <4>1. cursor' = [pid |-> q, eid |-> w]
        BY <1>4, <1>7, <1>10, <3>1 DEF b, w
      <4> QED BY <1>3, <1>11, <4>1
    <3>2. CASE ~(w < b)
      <4>1. cursor' = [pid |-> x, eid |-> 0]
        BY <1>4, <1>7, <3>2 DEF b, w
      <4>2. w = b
        BY <1>10, <1>13, <3>2
      <4> QED BY <1>3, <1>11, <4>1, <4>2
    <3> QED BY <3>1, <3>2
  <2>2. w \in 1 .. b
    BY <1>10, <1>13
  <2>3. ret' = [op |-> "read", rc |-> "OK", entry |-> t[w]]
    BY <1>4, <1>7, <1>13 DEF b, w
  <2>4. l[a + w] = t[w]
    BY <1>7, <2>2 DEF a, b
  <2> DEFINE m == Len(l)
             z == Len(r)
  <2>5. m = a + b + z /\ z \in Nat
    BY <1>7 DEF a, b
  <2> HIDE DEF m, z
  <2>6. a + d \in 0 .. m - 1 /\ a + w = (a + d) + 1
    BY <1>10, <1>13, <2>5
  <2>7. Behind \in 0 .. Len(l) - 1 /\ Behind' = Behind + 1
    BY <1>12, <2>1, <2>6 DEF m
  <2>8. ret' = [op |-> "read", rc |-> "OK", entry |-> l[Behind + 1]]
    BY <1>12, <2>3, <2>4, <2>6
  <2>9. OI!Forward
    BY <1>2, <1>3, <2>7, <2>8 DEF OI!Forward, l
  <2> QED BY <2>9
<1>14. CASE ~(d < b)
  <2>1. d = b /\ ~(w < b)
    BY <1>10, <1>14
  <2>2. Behind' = Behind
    <3>1. cursor' = [pid |-> x, eid |-> 0]
      BY <1>4, <1>7, <2>1 DEF b, w
    <3> QED BY <1>3, <1>11, <1>12, <2>1, <3>1
  <2>3. ret.op = "locate"
    BY <1>8, <2>1 DEF b
  <2>4. ret'.op = "read" /\ ret'.entry \in {ZeroEntry, Entry(x, Junk)}
    BY <1>4, <1>7, <2>1 DEF b
  <2>5. \A i \in 1 .. Len(l) : l[i] # ZeroEntry /\ l[i] # Entry(x, Junk)
    <3> SUFFICES ASSUME NEW i \in 1 .. Len(l) PROVE l[i] # ZeroEntry /\ l[i] # Entry(x, Junk)
      OBVIOUS
    <3>1. l[i] \in ToSet(l) /\ ToSet(l) = LinkedPairs
      <4>1. ChainGood
        BY <1>1, ChainIs
      <4> QED BY <1>7, <4>1 DEF ChainGood, ToSet, l
    <3>2. l[i] \in NodeEntries
      BY <1>7
    <3>3. PICK y \in Linked : l[i] \in Entries(y)
      BY <3>1 DEF LinkedPairs
    <3>4. l[i].key > 0
      BY <1>5, <3>3 DEF Leaves, LeafIn, Entries
    <3>5. l[i].ptr \in Nat
      BY <3>2 DEF NodeEntries
    <3>6. ZeroEntry.key = 0 /\ Entry(x, Junk).ptr = -1
      BY DEF ZeroEntry, Entry, Junk
    <3>7. ~(0 > 0) /\ -1 \notin Nat
      OBVIOUS
    <3> QED BY <3>4, <3>5, <3>6, <3>7, Zenon
  <2>6. ret'.entry \notin {l[i] : i \in 1 .. Len(l)}
    BY <2>4, <2>5
  <2>7. OI!LeafEnd
    BY <1>2, <1>3, <2>2, <2>3, <2>4, <2>6 DEF OI!LeafEnd, l
  <2> QED BY <2>7
<1> QED BY <1>13, <1>14

LEMMA PastEndSteps ==
  ASSUME Faults = {}, SeekInv, ReadHeader \/ ReadFails
  PROVE  OI!PastEnd
<1> DEFINE l == ChainFrom(1)
<1>1. OrderInv /\ SearchInv /\ CursorIn
  BY DEF SeekInv, SearchInv
<1>2. /\ mode = "r" /\ UNCHANGED <<page, mode, call>> /\ ret'.op = "read"
  BY DEF ReadHeader, ReadFails, Result
<1>3. l' = l /\ InFlight' = InFlight /\ Behind = Spot(cursor) /\ Behind' = Spot(cursor')
  BY <1>2, PagesKeepChain, SpotIs DEF InFlight
<1>4. Linked \subseteq 1 .. Len(page) /\ Len(page) \in Nat
  BY <1>1 DEF Linked, Tree, OrderInv, BalanceInv, TypeInv
<1>5. ChainFrom(0) = <<>> /\ (page = <<>> => l = <<>>) /\ Len(l) \in Nat
  <2>1. ChainFrom(0) = <<>> /\ (page = <<>> => l = <<>>) /\ l \in Seq(NodeEntries)
    BY <1>1, ChainEnds
  <2> HIDE DEF l
  <2> QED BY <2>1
<1>6. CASE ReadHeader
  <2>1. cursor.pid = 0 /\ cursor' = LostCursor
    BY <1>6 DEF ReadHeader
  <2>2. 0 \notin Linked
    BY <1>4
  <2>3. cursor = [pid |-> 0, eid |-> 0]
    BY <1>1, <2>1, <2>2 DEF CursorIn, NoCursor, LostCursor, AtEnd, AtHeader, OnLeaf
  <2>4. Behind = Len(l) - Len(ChainFrom(0)) + 0
    BY <1>3, <2>3 DEF Spot
  <2>5. Len(<<>>) = 0
    OBVIOUS
  <2> DEFINE m == Len(l)
  <2>6. m \in Nat /\ Behind = m - 0 + 0
    BY <1>5, <2>4, <2>5
  <2> HIDE DEF m
  <2>7. Behind = m
    BY <2>6
  <2>8. Behind' = -1
    BY <1>3, <2>1 DEF Spot, LostCursor
  <2> QED BY <1>2, <1>3, <2>7, <2>8 DEF OI!PastEnd, m
<1>7. CASE ReadFails
  <2>1. /\ cursor \notin {NoCursor, LostCursor} /\ cursor' = cursor
        /\ cursor.pid = -1 \/ cursor.pid > Len(page)
    BY <1>7 DEF ReadFails
  <2>2. cursor.pid \notin Linked /\ cursor.pid # 0
    <3>1. cursor.pid \in Int
      BY <1>1 DEF OrderInv, BalanceInv, TypeInv
    <3> QED BY <1>4, <2>1, <3>1
  <2>3. cursor = [pid |-> -1, eid |-> 0] /\ page = <<>>
    BY <1>1, <2>1, <2>2 DEF CursorIn, AtEnd, AtHeader, OnLeaf
  <2>4. Behind = 0 /\ Behind' = 0
    BY <1>3, <2>1, <2>3 DEF Spot
  <2>5. Len(l) = 0
    BY <1>5, <2>3
  <2> QED BY <1>2, <1>3, <2>4, <2>5 DEF OI!PastEnd
<1> QED BY <1>6, <1>7


LEMMA InitMaps ==
  ASSUME Init
  PROVE  OI!Init
<1>1. /\ page = <<>> /\ mode = "closed" /\ call = Idle /\ cursor = NoCursor
      /\ ret = [op |-> "none", rc |-> "OK", entry |-> ZeroEntry]
  BY DEF Init, Result
<1>2. ChainFrom(1) = <<>>
  BY <1>1, InitSearch, ChainEnds DEF SearchInv
<1>3. InFlight = {}
  BY <1>1 DEF InFlight, Idle
<1>4. Behind = -1
  BY <1>1, NoCursorNowhere
<1> QED BY <1>1, <1>2, <1>3, <1>4 DEF OI!Init

LEMMA NextMaps ==
  ASSUME Faults = {}, KeysPositive, SearchedInts, SeekInv, SeekInv', [Next]_vars
  PROVE  [OI!Next]_(OI!vars)
<1>1. ASSUME \E m \in {"r", "w"} : OpenOK(m) \/ OpenFails(m) PROVE OI!Next
  BY <1>1, ObjectSteps DEF OI!Next
<1>2. ASSUME OpenNew \/ OpenGarbage \/ Close \/ Drop PROVE OI!Next
  <2>1. "r" \in {"r", "w"}
    OBVIOUS
  <2> QED BY <1>2, <2>1, ObjectSteps DEF OI!Next
<1>3. ASSUME NEW k \in Keys, BeginEmpty(k) \/ Begin(k) PROVE OI!Next
  BY <1>3, BeginSteps DEF OI!Next
<1>4. ASSUME WriteFirst \/ WriteNode \/ Return PROVE OI!Next \/ UNCHANGED OI!vars
  BY <1>4, WriteFirstJoins, WriteNodeJoins, ReturnFinishes DEF OI!Next
<1>5. ASSUME WriteSibling \/ WriteRoot PROVE UNCHANGED OI!vars
  BY <1>5, WriteSiblingKeeps, WriteRootKeeps
<1>6. ASSUME NEW k \in Searched, Locate(k) PROVE OI!Next
  BY <1>6, LocateSteps DEF OI!Next
<1>7. ASSUME ReadForward \/ ReadHeader \/ ReadFails PROVE OI!Next
  BY <1>7, ReadForwardSteps, PastEndSteps DEF OI!Next
<1>8. ASSUME NEW k \in Keys \cup Searched, Astray(k) PROVE FALSE
  BY <1>8, AstrayOrder DEF SeekInv, SearchInv
<1>9. ~LocateFails
  BY DEF LocateFails
<1>10. ASSUME UNCHANGED vars PROVE UNCHANGED OI!vars
  <2>1. UNCHANGED <<page, mode, call, cursor, ret>>
    BY <1>10 DEF vars
  <2>2. Behind = Spot(cursor) /\ Behind' = Spot(cursor)
    BY <2>1, SpotIs
  <2>3. ChainFrom(1)' = ChainFrom(1) /\ InFlight' = InFlight
    BY <2>1, PagesKeepChain DEF InFlight
  <2> QED BY <2>1, <2>2, <2>3, Unmoved
<1> QED BY <1>1, <1>2, <1>3, <1>4, <1>5, <1>6, <1>7, <1>8, <1>9, <1>10 DEF Next

\* BTreeIndex is an OrderedIndex: the pages, the levels and the order of the
\* writes in insertAtLevel and insertAndSplit come to a sorted list that a pair
\* joins in one step, and locate() and readForward() to a cursor on it.
THEOREM Refinement ==
  ASSUME Faults = {}, KeysPositive, SearchedInts
  PROVE  Spec => ImplementsOrderedIndex
<1>1. SeekInv /\ [Next]_vars => SeekInv'
  BY StepSeek
<1>2. SeekInv /\ SeekInv' /\ [Next]_vars => [OI!Next]_(OI!vars)
  BY NextMaps
<1> QED BY <1>1, <1>2, InitSeek, InitMaps, PTL DEF Spec, ImplementsOrderedIndex, OI!Spec
=============================================================================
