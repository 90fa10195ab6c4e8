-------------------------- MODULE BTreeOrder_proofs --------------------------
(***************************************************************************)
(* The order of the keys across the pages, when page reads and writes      *)
(* succeed and an object is not lost before close() has been called.  Each *)
(* page is for an interval of keys: lo and hi give its ends, up the page   *)
(* that holds its entry, and far how many leaves there are from it to the  *)
(* end of the chain.  Equal keys may be on both sides of a separator: they *)
(* are found on the right of it.                                           *)
(***************************************************************************)
EXTENDS BTreeIndex_proofs

\* No key is as large as Top.
Top == 2147483647 + 1

KeysPositive == Keys \subseteq 1 .. Top - 1
SearchedInts == Searched \subseteq INT_MIN .. Top - 1
-----------------------------------------------------------------------------
(* What a node may hold.                                                   *)

\* A leaf for the keys from l to h.
LeafIn(n, l, h) ==
  /\ \A e \in ToSet(n.entries) : e.key > 0 /\ l <= e.key /\ e.key <= h
  /\ Low(n.entries, Half(n), h)
  /\ l = INT_MIN \/ \E e \in ToSet(n.entries) : e.key = l

\* Where the interval of the i-th child ends.
EndOf(s, i, h) == IF i < Len(s) THEN s[i + 1].key ELSE h

\* The entries of a nonleaf node on page q for the keys from l to h.
KidsIn(lo, hi, up, q, s, l, h) ==
  /\ s[1].key = l
  /\ \A i \in 1 .. Len(s) :
       /\ i > 1 => s[i].key > 0
       /\ s[i].key <= h
       /\ lo[s[i].ptr] = s[i].key /\ hi[s[i].ptr] = EndOf(s, i, h) /\ up[s[i].ptr] = q
  /\ \A i, j \in 1 .. Len(s) : s[i].ptr = s[j].ptr => i = j

InnerIn(lo, hi, up, q, n, l, h) ==
  KidsIn(lo, hi, up, q, n.entries, l, h) /\ Low(n.entries, Half(n), h)

NodeIn(lo, hi, up, q, n, l, h) ==
  IF n.kind = "leaf" THEN LeafIn(n, l, h) ELSE InnerIn(lo, hi, up, q, n, l, h)
-----------------------------------------------------------------------------
(* The tree.                                                               *)

Working == call.pc = "nodes"
AtLeaf == Working /\ call.node.kind = "leaf"
AtInner == Working /\ call.node.kind = "inner"

\* The node under way has been split.  The sibling is in its buffer, or on a
\* page to which nothing leads yet.
Split == Working /\ call.sepKey > 0
SiblingPid == IF call.sibling # NoNode THEN EndPid ELSE call.sepPid
Sibling == IF call.sibling # NoNode THEN call.sibling ELSE page[call.sepPid]

Orphan == IF Split /\ call.sibling = NoNode THEN {call.sepPid} ELSE {}
Tree == (1 .. Len(page)) \ Orphan
Linked == {p \in Tree : page[p].kind = "leaf"}

\* Without a failure the header is as good as the object that was closed.
Root == IF mode = "closed" THEN header.rootPid ELSE rootPid
Height == IF mode = "closed" THEN header.treeHeight ELSE treeHeight

NoFaultYet ==
  /\ mode # "wild"
  /\ mode = "closed" => header # Garbage
  /\ mode # "closed" => [rootPid |-> rootPid, treeHeight |-> treeHeight] # Garbage
  /\ mode = "r" => Saved
  /\ Height = 0 <=> page = <<>>
  /\ call.pc = "first" => treeHeight = 0
  /\ call.rc = "OK"
  /\ call.pc # "idle" => call.key \in 1 .. Top - 1

Ghosts(lo, hi, up, far) ==
  lo \in [Nat -> Int] /\ hi \in [Nat -> Int] /\ up \in [Nat -> Nat] /\ far \in [Nat -> Nat]

RootIn(lo, hi, up) ==
  /\ Height > 0 =>
       /\ Root \in Tree /\ up[Root] = 0 /\ lo[Root] = INT_MIN
       /\ hi[Root] = IF call.pc = "root" THEN call.sepKey ELSE Top
  /\ call.pc = "root" =>
       /\ call.sepPid \in Tree /\ up[call.sepPid] = 0 /\ call.sepPid # Root
       /\ call.sepKey > 0 /\ lo[call.sepPid] = call.sepKey /\ hi[call.sepPid] = Top

\* Every page, but for a nonleaf page that is about to be written, whose
\* children are in its buffer.
PagesIn(lo, hi, up) ==
  /\ \A p \in Nat : p \notin Tree => up[p] = 0
  /\ \A p \in Tree :
       /\ lo[p] <= hi[p] /\ (lo[p] = INT_MIN \/ lo[p] > 0)
       /\ (AtInner /\ p = call.pid) \/ NodeIn(lo, hi, up, p, page[p], lo[p], hi[p])

\* The node under way, with its sibling, is for the keys that its page is for.
CallIn(lo, hi, up) ==
  Working =>
    LET p == call.pid
    IN /\ p \in Tree
       /\ call.sepKey > 0 =>
            /\ lo[p] <= call.sepKey /\ call.sepKey < hi[p]
            /\ Sibling.kind = call.node.kind
            /\ SiblingPid \in Nat /\ SiblingPid > 0
            /\ NodeIn(lo, hi, up, p, call.node, lo[p], call.sepKey)
            /\ NodeIn(lo, hi, up, SiblingPid, Sibling, call.sepKey, hi[p])
       /\ ~(call.sepKey > 0) =>
            call.sibling = NoNode /\ NodeIn(lo, hi, up, p, call.node, lo[p], hi[p])

\* The page under the h-th node of the path.
Next1(h) == IF h = Len(call.path) THEN call.pid ELSE call.path[h + 1].pid

PathIn ==
  Working =>
    /\ \A h \in 1 .. Len(call.path) :
         /\ call.path[h].pid \in Tree
         /\ call.path[h].node = page[call.path[h].pid]
         /\ \E e \in ToSet(call.path[h].node.entries) : e.ptr = Next1(h)
    /\ rootPid = IF call.path = <<>> THEN call.pid ELSE call.path[1].pid
-----------------------------------------------------------------------------
(* The chain.                                                              *)

LinksIn(lo, hi, far) ==
  /\ page # <<>> => 1 \in Linked
  /\ \A p \in Linked :
       /\ far[p] > 0 /\ far[p] <= far[1]
       /\ far[p] <= IF Orphan = {} THEN Len(page) ELSE Len(page) - 1
       /\ IF page[p].next = 0 THEN far[p] = 1
          ELSE page[p].next \in Linked /\ far[p] = far[page[p].next] + 1
  /\ \A p, q \in Linked :
       /\ far[p] = far[q] => p = q
       /\ far[p] > far[q] => hi[p] <= lo[q]

\* Each pair is on one leaf, once.
PairsApart ==
  \A p \in Linked :
    /\ IsInjective(page[p].entries)
    /\ \A q \in Linked : p # q => Entries(p) \cap Entries(q) = {}

LinkedPairs == UNION {Entries(p) : p \in Linked}

Placed == AtInner \/ call.pc \in {"root", "return"}

PairsIn ==
  /\ LinkedPairs = IF Placed THEN done \cup {Pair} ELSE done
  /\ call.pc # "idle" => \A e \in done : e.ptr < call.rid
  /\ PairsApart

\* What the buffers of a leaf owe the leaf.
LeafWork ==
  AtLeaf =>
    /\ page[call.pid].kind = "leaf"
    /\ IsInjective(call.node.entries)
    /\ ~Split =>
         /\ ToSet(call.node.entries) = Entries(call.pid) \cup {Pair}
         /\ call.node.next = page[call.pid].next
    /\ Split =>
         /\ ToSet(call.node.entries) \cup ToSet(Sibling.entries) = Entries(call.pid) \cup {Pair}
         /\ ToSet(call.node.entries) \cap ToSet(Sibling.entries) = {}
         /\ IsInjective(Sibling.entries)
         /\ IF call.sibling # NoNode THEN call.node.next = page[call.pid].next
            ELSE call.node.next = call.sepPid /\ Sibling.next = page[call.pid].next

InnerWork == AtInner => page[call.pid].kind = "inner"

OrderOK(lo, hi, up, far) ==
  /\ Ghosts(lo, hi, up, far)
  /\ RootIn(lo, hi, up) /\ PagesIn(lo, hi, up) /\ CallIn(lo, hi, up)
  /\ LinksIn(lo, hi, far)

OrderInv ==
  /\ BalanceInv
  /\ NoFaultYet /\ PathIn /\ PairsIn /\ LeafWork /\ InnerWork
  /\ \E lo, hi, up, far : OrderOK(lo, hi, up, far)
-----------------------------------------------------------------------------
(* Leaves.                                                                 *)

LEMMA HalfOfKind ==
  ASSUME NEW m, NEW n, m.kind = n.kind
  PROVE  Half(m) = Half(n) /\ Capacity(m) = Capacity(n)
BY DEF Half, Capacity

LEMMA LeafTakes ==
  ASSUME NEW n \in Nodes, Len(n.entries) < Capacity(n), SortedKeys(n.entries),
         NEW l \in Int, NEW h \in Int, LeafIn(n, l, h),
         NEW e \in NodeEntries, e.key > 0, l <= e.key, e.key < h
  PROVE  LeafIn(Insert(n, e), l, h)
<1> DEFINE t == Put(n.kind, n.entries, e)
<1>1. Insert(n, e).entries = t /\ Insert(n, e).kind = n.kind
  BY DEF Insert, Nodes
<1>2. n.entries \in Seq(NodeEntries) /\ Half(n) \in Nat /\ e.key \in Int
  BY NodeFacts DEF NodeEntries
<1>3. ToSet(t) = ToSet(n.entries) \cup {e}
  BY <1>2, PutFacts
<1>4. Low(t, Half(n), h)
  BY <1>2, PutLow DEF LeafIn
<1> HIDE DEF t
<1>5. \A x \in ToSet(t) : x.key > 0 /\ l <= x.key /\ x.key <= h
  BY <1>2, <1>3 DEF LeafIn
<1>6. l = INT_MIN \/ \E x \in ToSet(t) : x.key = l
  BY <1>3 DEF LeafIn
<1>7. Half(Insert(n, e)) = Half(n)
  BY <1>1, HalfOfKind
<1> QED BY <1>1, <1>4, <1>5, <1>6, <1>7 DEF LeafIn

LEMMA LeafSplits ==
  ASSUME NEW n \in Nodes, n.kind = "leaf", Len(n.entries) = Capacity(n),
         SortedKeys(n.entries), NEW l \in Int, NEW h \in Int, LeafIn(n, l, h),
         NEW e \in NodeEntries, e.key > 0, l <= e.key, e.key < h
  PROVE  /\ SplitKey(n) > 0 /\ l <= SplitKey(n) /\ SplitKey(n) < h
         /\ LeafIn(SplitNode(n, e), l, SplitKey(n))
         /\ LeafIn(SplitSibling(n, e), SplitKey(n), h)
         /\ IsInjective(n.entries) /\ e \notin ToSet(n.entries) =>
              /\ IsInjective(SplitNode(n, e).entries)
              /\ IsInjective(SplitSibling(n, e).entries)
              /\ ToSet(SplitNode(n, e).entries) \cap ToSet(SplitSibling(n, e).entries) = {}
<1> DEFINE s == n.entries
           m == Half(n)
           a == LeftPart(n)
           r == RightPart(n)
           b == PutAll("leaf", r)
           k == s[m + 1].key
           x == SplitNode(n, e).entries
           y == SplitSibling(n, e).entries
<1>1. /\ m \in Nat \ {0} /\ Len(s) = 2 * m + 1 /\ s \in Seq(NodeEntries)
      /\ a \in Seq(NodeEntries) /\ Len(a) = m /\ SortedKeys(a)
      /\ \A i \in 1 .. m : a[i] = s[i]
      /\ r \in Seq(NodeEntries) /\ Len(r) = m + 1 /\ SortedKeys(r)
      /\ \A i \in 1 .. m + 1 : r[i] = s[m + i]
      /\ IsInjective(s) => IsInjective(a) /\ IsInjective(r) /\ ToSet(a) \cap ToSet(r) = {}
      /\ ToSet(s) = ToSet(a) \cup ToSet(r)
  BY PartsFacts, NodeFacts
<1>2. SplitKey(n) = k /\ (GoesLeft(n, e) <=> e.key < k)
  BY DEF SplitKey, GoesLeft
<1>3. /\ x = IF GoesLeft(n, e) THEN Put("leaf", a, e) ELSE a
      /\ y = IF GoesLeft(n, e) THEN b ELSE Put("leaf", b, e)
      /\ SplitNode(n, e).kind = "leaf" /\ SplitSibling(n, e).kind = "leaf"
  BY SplitParts DEF SplitNode, SplitSibling, Node, Nodes
<1> HIDE DEF a, r
<1>4. /\ b \in Seq(NodeEntries) /\ Len(b) = m + 1 /\ ToSet(b) = ToSet(r) /\ SortedKeys(b)
      /\ IsInjective(r) => IsInjective(b)
  BY <1>1, PutAllFacts
<1> HIDE DEF b, x, y
<1>5. /\ e.key \in Int /\ \A i \in 1 .. 2 * m + 1 : s[i] \in ToSet(s) /\ s[i].key \in Int
      /\ 1 \in 1 .. 2 * m + 1 /\ m + 1 \in 1 .. 2 * m + 1
  <2>1. \A i \in 1 .. 2 * m + 1 : s[i].key \in Int
    BY <1>1, KeysAreInts
  <2>2. \A i \in 1 .. 2 * m + 1 : s[i] \in ToSet(s)
    BY <1>1 DEF ToSet
  <2>3. e.key \in Int
    BY DEF NodeEntries
  <2>4. m \in Nat \ {0}
    BY <1>1
  <2> HIDE DEF s, m
  <2>5. 1 \in 1 .. 2 * m + 1 /\ m + 1 \in 1 .. 2 * m + 1
    BY <2>4
  <2> QED BY <2>1, <2>2, <2>3, <2>5
<1>6. \A i, j \in 1 .. 2 * m + 1 : i <= j => s[i].key <= s[j].key
  <2>1. \A i, j \in 1 .. 2 * m + 1 : i < j => s[i].key <= s[j].key
    BY <1>1 DEF SortedKeys
  <2> HIDE DEF s, m
  <2> QED BY <1>1, <1>5, <2>1
<1>7. /\ \A z \in ToSet(s) : z.key > 0 /\ l <= z.key /\ z.key <= h
      /\ l = INT_MIN \/ \E z \in ToSet(s) : z.key = l
      /\ s[m + 1].key < h
  <2>1. Len(s) > m /\ Len(s) - m = m + 1
    BY <1>1
  <2> QED BY <2>1 DEF LeafIn, Low
<1>8. Half(SplitNode(n, e)) = m /\ Half(SplitSibling(n, e)) = m
  BY <1>3, HalfOfKind
<1> HIDE DEF s, m
<1>9. k \in Int /\ k > 0 /\ l <= k /\ k < h
  BY <1>1, <1>5, <1>7
<1>10. \A z \in ToSet(a) : z \in ToSet(s) /\ z.key \in Int /\ z.key <= k
  <2>1. \A i \in 1 .. m : a[i].key <= k /\ a[i].key \in Int
    <3> SUFFICES ASSUME NEW i \in 1 .. m PROVE a[i].key <= k /\ a[i].key \in Int
      OBVIOUS
    <3>1. i \in 1 .. 2 * m + 1 /\ i <= m + 1
      BY <1>1
    <3> QED BY <1>1, <1>5, <1>6, <3>1
  <2> QED BY <1>1, <2>1 DEF ToSet
<1>11. \A z \in ToSet(b) : z \in ToSet(s) /\ z.key \in Int /\ z.key >= k
  <2>1. \A i \in 1 .. m + 1 : r[i].key >= k /\ r[i].key \in Int
    <3> SUFFICES ASSUME NEW i \in 1 .. m + 1 PROVE r[i].key >= k /\ r[i].key \in Int
      OBVIOUS
    <3>1. m + i \in 1 .. 2 * m + 1 /\ m + 1 <= m + i
      BY <1>1
    <3> QED BY <1>1, <1>5, <1>6, <3>1
  <2>2. \A z \in ToSet(r) : z.key >= k /\ z.key \in Int
    BY <1>1, <2>1 DEF ToSet
  <2> QED BY <1>1, <1>4, <2>2
<1>12. s[m + 1] \in ToSet(b) /\ s[m + 1].key = k
  <2>1. 1 \in 1 .. m + 1 /\ r[1] = s[m + 1]
    BY <1>1
  <2>2. r[1] \in ToSet(r)
    BY <1>1, <2>1 DEF ToSet
  <2> QED BY <1>4, <2>1, <2>2
<1>13. l = INT_MIN \/ \E z \in ToSet(a) : z.key = l
  <2> SUFFICES ASSUME l # INT_MIN PROVE \E z \in ToSet(a) : z.key = l
    OBVIOUS
  <2>1. PICK i \in 1 .. 2 * m + 1 : s[i].key = l
    BY <1>1, <1>7 DEF ToSet
  <2>2. s[1].key <= l /\ l <= s[1].key /\ s[1].key \in Int
    BY <1>5, <1>6, <1>7, <2>1
  <2>3. 1 \in 1 .. m /\ a[1] = s[1] /\ a[1] \in ToSet(a)
    BY <1>1 DEF ToSet
  <2> QED BY <2>2, <2>3
<1>14. Low(a, m, k) /\ Low(b, m, h)
  <2>1. Low(a, m, k)
    BY <1>1 DEF Low
  <2>2. Len(b) - m = 1
    BY <1>1, <1>4
  <2>3. b[1].key < h
    <3>1. 1 \in 1 .. Len(b) /\ b[1].key \in Int
      <4>1. m + 1 \in Nat /\ m + 1 >= 1 /\ Len(b) = m + 1
        BY <1>1, <1>4
      <4>2. 1 \in 1 .. Len(b)
        BY <4>1
      <4> QED BY <1>4, <4>2, KeysAreInts
    <3>2. PICK i \in 1 .. Len(b) : b[i] = s[m + 1]
      BY <1>4, <1>12 DEF ToSet
    <3>3. b[1].key <= k
      <4>1. CASE i = 1
        BY <1>9, <3>1, <3>2, <4>1
      <4>2. CASE i # 1
        BY <1>4, <3>1, <3>2, <4>2 DEF SortedKeys
      <4> QED BY <4>1, <4>2
    <3> QED BY <1>9, <3>1, <3>3
  <2> QED BY <2>1, <2>2, <2>3 DEF Low
<1> HIDE DEF k
<1>15. CASE GoesLeft(n, e)
  <2>1. /\ x = Put("leaf", a, e) /\ y = b /\ e.key < k
    BY <1>2, <1>3, <1>15
  <2>2. ToSet(x) = ToSet(a) \cup {e} /\ Low(x, m, k)
    BY <1>1, <1>9, <1>14, <2>1, PutFacts, PutLow
  <2>3. \A z \in ToSet(x) : z.key > 0 /\ l <= z.key /\ z.key <= k
    BY <1>5, <1>7, <1>9, <1>10, <2>1, <2>2
  <2>4. \A z \in ToSet(y) : z.key > 0 /\ k <= z.key /\ z.key <= h
    BY <1>7, <1>9, <1>11, <2>1
  <2>5. l = INT_MIN \/ \E z \in ToSet(x) : z.key = l
    BY <1>13, <2>2
  <2>6. \E z \in ToSet(y) : z.key = k
    BY <1>12, <2>1
  <2>7. ASSUME IsInjective(s), e \notin ToSet(s)
        PROVE  IsInjective(x) /\ IsInjective(y) /\ ToSet(x) \cap ToSet(y) = {}
    <3>1. IsInjective(x)
      BY <1>1, <2>1, <2>7, PutOnce
    <3>2. IsInjective(y)
      BY <1>1, <1>4, <2>1, <2>7
    <3>3. ToSet(x) \cap ToSet(y) = {}
      BY <1>1, <1>4, <2>1, <2>2, <2>7
    <3> QED BY <3>1, <3>2, <3>3
  <2>8. LeafIn(SplitNode(n, e), l, k) /\ LeafIn(SplitSibling(n, e), k, h)
    BY <1>8, <1>14, <2>1, <2>2, <2>3, <2>4, <2>5, <2>6 DEF LeafIn, x, y
  <2> QED BY <1>2, <1>9, <2>7, <2>8 DEF x, y, s
<1>16. CASE ~GoesLeft(n, e)
  <2>1. /\ x = a /\ y = Put("leaf", b, e) /\ e.key >= k
    BY <1>2, <1>3, <1>5, <1>9, <1>16
  <2>2. ToSet(y) = ToSet(b) \cup {e} /\ Low(y, m, h)
    BY <1>1, <1>4, <1>14, <2>1, PutFacts, PutLow
  <2>3. \A z \in ToSet(x) : z.key > 0 /\ l <= z.key /\ z.key <= k
    BY <1>7, <1>10, <2>1
  <2>4. \A z \in ToSet(y) : z.key > 0 /\ k <= z.key /\ z.key <= h
    BY <1>5, <1>7, <1>9, <1>11, <2>1, <2>2
  <2>5. l = INT_MIN \/ \E z \in ToSet(x) : z.key = l
    BY <1>13, <2>1
  <2>6. \E z \in ToSet(y) : z.key = k
    BY <1>12, <2>2
  <2>7. ASSUME IsInjective(s), e \notin ToSet(s)
        PROVE  IsInjective(x) /\ IsInjective(y) /\ ToSet(x) \cap ToSet(y) = {}
    <3>1. IsInjective(x)
      BY <1>1, <2>1, <2>7
    <3>2. IsInjective(y)
      BY <1>1, <1>4, <2>1, <2>7, PutOnce
    <3>3. ToSet(x) \cap ToSet(y) = {}
      BY <1>1, <1>4, <2>1, <2>2, <2>7
    <3> QED BY <3>1, <3>2, <3>3
  <2>8. LeafIn(SplitNode(n, e), l, k) /\ LeafIn(SplitSibling(n, e), k, h)
    BY <1>8, <1>14, <2>1, <2>2, <2>3, <2>4, <2>5, <2>6 DEF LeafIn, x, y
  <2> QED BY <1>2, <1>9, <2>7, <2>8 DEF x, y, s
<1> QED BY <1>15, <1>16
-----------------------------------------------------------------------------
(* Nonleaf nodes.                                                          *)

KeyTypes(lo, hi) == lo \in [Nat -> Int] /\ hi \in [Nat -> Int]

\* What is said of a node stays true when the intervals and the parents of
\* its own children do.
LEMMA KidsStay ==
  ASSUME NEW lo, NEW hi, NEW up, NEW lo2, NEW hi2, NEW up2, NEW q, NEW n \in Nodes,
         \A x \in Nat : up[x] = q => lo2[x] = lo[x] /\ hi2[x] = hi[x] /\ up2[x] = q,
         NEW l, NEW h, NodeIn(lo, hi, up, q, n, l, h)
  PROVE  NodeIn(lo2, hi2, up2, q, n, l, h)
<1>1. CASE n.kind = "leaf"
  BY <1>1 DEF NodeIn
<1>2. CASE n.kind # "leaf"
  <2>1. \A i \in 1 .. Len(n.entries) : n.entries[i].ptr \in Nat
    BY NodeFacts, KeysAreInts DEF NodeEntries
  <2>2. InnerIn(lo, hi, up, q, n, l, h)
    BY <1>2 DEF NodeIn
  <2>3. InnerIn(lo2, hi2, up2, q, n, l, h)
    BY <2>1, <2>2 DEF InnerIn, KidsIn
  <2> QED BY <1>2, <2>3 DEF NodeIn
<1> QED BY <1>1, <1>2

\* The child that is split keeps the keys up to k, page sp takes the others.
LoSplit(lo, sp, k) == [lo EXCEPT ![sp] = k]
HiSplit(hi, p, sp, k) == [hi EXCEPT ![p] = k, ![sp] = hi[p]]

LEMMA GhostSplit ==
  ASSUME NEW lo \in [Nat -> Int], NEW hi \in [Nat -> Int], NEW p \in Nat, NEW sp \in Nat,
         p # sp, NEW k \in Int
  PROVE  /\ LoSplit(lo, sp, k) \in [Nat -> Int] /\ HiSplit(hi, p, sp, k) \in [Nat -> Int]
         /\ \A x \in Nat : LoSplit(lo, sp, k)[x] = IF x = sp THEN k ELSE lo[x]
         /\ \A x \in Nat : HiSplit(hi, p, sp, k)[x] =
              IF x = p THEN k ELSE IF x = sp THEN hi[p] ELSE hi[x]
BY DEF LoSplit, HiSplit

\* The entries s of a node with e behind the i-th.
JustBehind(s, t, n, e, i) ==
  /\ Len(s) = n /\ Len(t) = n + 1
  /\ \A j \in 1 .. n + 1 : t[j] = IF j <= i THEN s[j] ELSE IF j = i + 1 THEN e ELSE s[j - 1]

LEMMA EndsShift ==
  ASSUME NEW n \in Nat, NEW s, NEW t, NEW e, NEW i \in 1 .. n, JustBehind(s, t, n, e, i),
         NEW h, NEW j \in 1 .. n + 1
  PROVE  \/ j = i + 1 /\ t[j] = e /\ EndOf(t, j, h) = EndOf(s, i, h)
         \/ j = i /\ t[j] = s[i] /\ EndOf(t, j, h) = e.key
         \/ \E r \in 1 .. n : /\ r # i /\ t[j] = s[r] /\ r = (IF j <= i THEN j ELSE j - 1)
                              /\ EndOf(t, j, h) = EndOf(s, r, h) /\ (j > 1 => r > 1)
<1>1. /\ Len(s) = n /\ Len(t) = n + 1
      /\ \A m \in 1 .. n + 1 : t[m] = IF m <= i THEN s[m] ELSE IF m = i + 1 THEN e ELSE s[m - 1]
  BY DEF JustBehind
<1>2. CASE j < i
  <2>1. j \in 1 .. n /\ j < n /\ j < n + 1 /\ j + 1 \in 1 .. n + 1 /\ j + 1 <= i
    BY <1>2
  <2>2. t[j] = s[j] /\ t[j + 1] = s[j + 1]
    BY <1>1, <1>2, <2>1
  <2> QED BY <1>1, <1>2, <2>1, <2>2 DEF EndOf
<1>3. CASE j = i
  <2>1. i < n + 1 /\ i + 1 \in 1 .. n + 1 /\ ~(i + 1 <= i)
    OBVIOUS
  <2>2. t[i] = s[i] /\ t[i + 1] = e
    BY <1>1, <1>3, <2>1
  <2> QED BY <1>1, <1>3, <2>1, <2>2 DEF EndOf
<1>4. CASE j = i + 1
  <2>1. t[j] = e
    BY <1>1, <1>4
  <2>2. CASE i < n
    <3>1. j < n + 1 /\ j + 1 \in 1 .. n + 1 /\ ~(j + 1 <= i) /\ j + 1 # i + 1 /\ (j + 1) - 1 = i + 1
      BY <1>4, <2>2
    <3>2. t[j + 1] = s[i + 1]
      BY <1>1, <3>1
    <3> QED BY <1>1, <1>4, <2>1, <2>2, <3>1, <3>2 DEF EndOf
  <2>3. CASE ~(i < n)
    <3>1. ~(j < n + 1)
      BY <1>4, <2>3
    <3> QED BY <1>1, <1>4, <2>1, <2>3, <3>1 DEF EndOf
  <2> QED BY <2>2, <2>3
<1>5. CASE j > i + 1
  <2>1. j - 1 \in 1 .. n /\ j - 1 # i /\ ~(j <= i) /\ j # i + 1 /\ j - 1 > 1
    BY <1>5
  <2>2. t[j] = s[j - 1]
    BY <1>1, <2>1
  <2>3. EndOf(t, j, h) = EndOf(s, j - 1, h)
    <3>1. CASE j < n + 1
      <4>1. /\ j + 1 \in 1 .. n + 1 /\ ~(j + 1 <= i) /\ j + 1 # i + 1 /\ (j + 1) - 1 = j
            /\ j - 1 < n /\ (j - 1) + 1 = j
        BY <1>5, <3>1
      <4>2. t[j + 1] = s[j]
        BY <1>1, <4>1
      <4> QED BY <1>1, <3>1, <4>1, <4>2 DEF EndOf
    <3>2. CASE ~(j < n + 1)
      <4>1. ~(j - 1 < n)
        BY <3>2
      <4> QED BY <1>1, <3>2, <4>1 DEF EndOf
    <3> QED BY <3>1, <3>2
  <2> QED BY <2>1, <2>2, <2>3
<1> QED BY <1>2, <1>3, <1>4, <1>5

LEMMA KidsBehind ==
  ASSUME NEW n \in Nat, NEW s, NEW t, \A j \in 1 .. n : s[j].key \in Int /\ s[j].ptr \in Nat,
         NEW lo \in [Nat -> Int], NEW hi \in [Nat -> Int], NEW up \in [Nat -> Nat],
         NEW q \in Nat, NEW l \in Int, NEW h \in Int, KidsIn(lo, hi, up, q, s, l, h),
         NEW i \in 1 .. n, NEW p \in Nat, p = s[i].ptr,
         NEW sp \in Nat, up[sp] # q, NEW k \in Int, k > 0, k <= h,
         JustBehind(s, t, n, Entry(k, sp), i)
  PROVE  KidsIn(LoSplit(lo, sp, k), HiSplit(hi, p, sp, k), [up EXCEPT ![sp] = q], q, t, l, h)
<1> DEFINE lo2 == LoSplit(lo, sp, k)
           hi2 == HiSplit(hi, p, sp, k)
           up2 == [up EXCEPT ![sp] = q]
           e == Entry(k, sp)
<1>1. e.key = k /\ e.ptr = sp
  BY DEF Entry
<1> HIDE DEF e
<1>2. Len(s) = n /\ Len(t) = n + 1 /\ 1 \in 1 .. n + 1 /\ t[1] = s[1]
  BY DEF JustBehind
<1>3. /\ s[1].key = l
      /\ \A j \in 1 .. n : /\ j > 1 => s[j].key > 0
                           /\ s[j].key <= h
                           /\ lo[s[j].ptr] = s[j].key
                           /\ hi[s[j].ptr] = EndOf(s, j, h)
                           /\ up[s[j].ptr] = q
      /\ \A j, m \in 1 .. n : s[j].ptr = s[m].ptr => j = m
  BY <1>2 DEF KidsIn
<1>4. p # sp /\ \A j \in 1 .. n : s[j].ptr # sp /\ (s[j].ptr = p => j = i)
  BY <1>3
<1>5. /\ \A x \in Nat : lo2[x] = IF x = sp THEN k ELSE lo[x]
      /\ \A x \in Nat : hi2[x] = IF x = p THEN k ELSE IF x = sp THEN hi[p] ELSE hi[x]
      /\ \A x \in Nat : up2[x] = IF x = sp THEN q ELSE up[x]
  <2>1. \A x \in Nat : up2[x] = IF x = sp THEN q ELSE up[x]
    OBVIOUS
  <2>2. /\ \A x \in Nat : lo2[x] = IF x = sp THEN k ELSE lo[x]
        /\ \A x \in Nat : hi2[x] = IF x = p THEN k ELSE IF x = sp THEN hi[p] ELSE hi[x]
    <3>1. p # sp
      BY <1>4
    <3>2. \A x \in Nat : lo2[x] = IF x = sp THEN k ELSE lo[x]
      BY DEF LoSplit
    <3>3. \A x \in Nat : hi2[x] = IF x = p THEN k ELSE IF x = sp THEN hi[p] ELSE hi[x]
      BY <3>1 DEF HiSplit
    <3> QED BY <3>2, <3>3
  <2> QED BY <2>1, <2>2
<1> HIDE DEF lo2, hi2, up2
<1>6. ASSUME NEW r \in 1 .. n
      PROVE  /\ lo2[s[r].ptr] = s[r].key /\ up2[s[r].ptr] = q
             /\ hi2[s[r].ptr] = IF r = i THEN k ELSE EndOf(s, r, h)
  BY <1>3, <1>4, <1>5
<1>7. lo2[sp] = k /\ up2[sp] = q /\ hi2[sp] = EndOf(s, i, h)
  BY <1>3, <1>4, <1>5
<1>8. ASSUME NEW j \in 1 .. n + 1
      PROVE  \/ j = i + 1 /\ t[j] = e /\ EndOf(t, j, h) = EndOf(s, i, h)
             \/ j = i /\ t[j] = s[i] /\ EndOf(t, j, h) = k
             \/ \E r \in 1 .. n : /\ r # i /\ t[j] = s[r] /\ r = (IF j <= i THEN j ELSE j - 1)
                                  /\ EndOf(t, j, h) = EndOf(s, r, h) /\ (j > 1 => r > 1)
  BY <1>1, EndsShift DEF e
<1>9. ASSUME NEW j \in 1 .. n + 1
      PROVE  /\ j > 1 => t[j].key > 0
             /\ t[j].key <= h
             /\ lo2[t[j].ptr] = t[j].key
             /\ hi2[t[j].ptr] = EndOf(t, j, h)
             /\ up2[t[j].ptr] = q
  <2>1. CASE t[j] = e /\ EndOf(t, j, h) = EndOf(s, i, h)
    BY <1>1, <1>7, <2>1
  <2>2. CASE j = i /\ t[j] = s[i] /\ EndOf(t, j, h) = k
    BY <1>3, <1>6, <2>2
  <2>3. CASE \E r \in 1 .. n : r # i /\ t[j] = s[r] /\ EndOf(t, j, h) = EndOf(s, r, h) /\ (j > 1 => r > 1)
    BY <1>3, <1>6, <2>3
  <2> QED BY <1>8, <2>1, <2>2, <2>3
<1>10. ASSUME NEW j \in 1 .. n + 1, NEW m \in 1 .. n + 1, t[j].ptr = t[m].ptr PROVE j = m
  <2>1. \A a \in 1 .. n + 1 : \/ a = i + 1 /\ t[a].ptr = sp
                              \/ a # i + 1 /\ \E r \in 1 .. n : t[a].ptr = s[r].ptr /\ r = (IF a <= i THEN a ELSE a - 1)
    <3> SUFFICES ASSUME NEW a \in 1 .. n + 1
                 PROVE  \/ a = i + 1 /\ t[a].ptr = sp
                        \/ a # i + 1 /\ \E r \in 1 .. n : t[a].ptr = s[r].ptr /\ r = (IF a <= i THEN a ELSE a - 1)
      OBVIOUS
    <3>1. CASE a = i
      BY <1>8, <3>1
    <3>2. CASE a = i + 1
      BY <1>1, <1>8, <3>2
    <3>3. CASE a # i /\ a # i + 1
      BY <1>8, <3>3
    <3> QED BY <3>1, <3>2, <3>3
  <2>2. CASE t[j].ptr = sp
    BY <1>4, <1>10, <2>1, <2>2
  <2>3. CASE t[j].ptr # sp
    <3>1. PICK r \in 1 .. n : t[j].ptr = s[r].ptr /\ r = (IF j <= i THEN j ELSE j - 1) /\ j # i + 1
      BY <2>1, <2>3
    <3>2. PICK u \in 1 .. n : t[m].ptr = s[u].ptr /\ u = (IF m <= i THEN m ELSE m - 1) /\ m # i + 1
      BY <1>10, <2>1, <2>3
    <3>3. r = u
      BY <1>3, <1>10, <3>1, <3>2
    <3> QED BY <3>1, <3>2, <3>3
  <2> QED BY <2>2, <2>3
<1>11. t[1].key = l
  BY <1>2, <1>3
<1> QED BY <1>2, <1>9, <1>10, <1>11 DEF KidsIn, lo2, hi2, up2

LEMMA BehindAt ==
  ASSUME NEW n \in Nat, NEW s, NEW t, NEW e, NEW i \in 1 .. n, NEW c, c = i + 1,
         Len(s) = n, Len(t) = n + 1,
         \A j \in 1 .. n + 1 : t[j] = IF j < c THEN s[j] ELSE IF j = c THEN e ELSE s[j - 1]
  PROVE  JustBehind(s, t, n, e, i)
<1>1. \A j \in 1 .. n + 1 : (j < c <=> j <= i)
  OBVIOUS
<1> QED BY <1>1 DEF JustBehind

LEMMA WhereBehind ==
  ASSUME NEW n \in Nat, NEW s, Len(s) = n, NEW i \in 1 .. n, NEW c \in 1 .. n + 1,
         NEW k \in Int, NEW h \in Int,
         \A j \in 1 .. n : s[j].key \in Int /\ s[j].key <= h,
         \A j \in 1 .. n : j < c => s[j].key <= k,
         \A j \in 1 .. n : j >= c => s[j].key > k,
         s[i].key <= k, k < EndOf(s, i, h)
  PROVE  c = i + 1 /\ k <= h
<1>1. i < c
  OBVIOUS
<1>2. CASE i < n
  <2>1. i + 1 \in 1 .. n
    BY <1>2
  <2>2. s[i + 1].key > k /\ s[i + 1].key <= h /\ s[i + 1].key \in Int
    BY <1>2, <2>1 DEF EndOf
  <2>3. ~(i + 1 < c)
    BY <2>1, <2>2
  <2> QED BY <1>1, <2>1, <2>2, <2>3
<1>3. CASE ~(i < n)
  BY <1>1, <1>3 DEF EndOf
<1> QED BY <1>2, <1>3

\* The entry for the new page comes behind the one for the page split.
LEMMA KidsPut ==
  ASSUME NEW s \in Seq(NodeEntries), SortedKeys(s),
         NEW lo \in [Nat -> Int], NEW hi \in [Nat -> Int], NEW up \in [Nat -> Nat],
         NEW q \in Nat, NEW l \in Int, NEW h \in Int, KidsIn(lo, hi, up, q, s, l, h),
         NEW i \in 1 .. Len(s), NEW p \in Nat, p = s[i].ptr,
         NEW sp \in Nat, up[sp] # q, NEW k \in Int, k > 0, lo[p] <= k, k < hi[p]
  PROVE  KidsIn(LoSplit(lo, sp, k), HiSplit(hi, p, sp, k), [up EXCEPT ![sp] = q], q,
                Put("inner", s, Entry(k, sp)), l, h)
<1> DEFINE e == Entry(k, sp)
           t == Put("inner", s, e)
           n == Len(s)
<1>1. e \in NodeEntries /\ e.key = k
  BY DEF Entry, NodeEntries
<1>2. n \in Nat /\ Len(s) = n /\ i \in 1 .. n
  OBVIOUS
<1>3. \A j \in 1 .. n : s[j].key \in Int /\ s[j].ptr \in Nat
  BY KeysAreInts DEF NodeEntries
<1> HIDE DEF e, n
<1>4. Len(t) = n + 1
  BY <1>1, <1>2, PutFacts
<1>5. PICK c \in 1 .. n + 1 : PutAt("inner", s, e, c)
  BY <1>1, <1>2, PutPlace
<1>6. /\ \A j \in 1 .. n + 1 : t[j] = IF j < c THEN s[j] ELSE IF j = c THEN e ELSE s[j - 1]
      /\ \A j \in 1 .. n : j < c => s[j].key <= k
      /\ \A j \in c .. n : s[j].key > k
  BY <1>1, <1>2, <1>5 DEF PutAt
<1> HIDE DEF t
<1>7. \A j \in 1 .. n : s[j].key <= h /\ lo[s[j].ptr] = s[j].key /\ hi[s[j].ptr] = EndOf(s, j, h)
  BY <1>2 DEF KidsIn
<1>8. s[i].key <= k /\ k < EndOf(s, i, h)
  BY <1>2, <1>7
<1>9. \A j \in 1 .. n : j >= c => j \in c .. n
  BY <1>2, <1>5
<1>10. \A j \in 1 .. n : j >= c => s[j].key > k
  BY <1>6, <1>9
<1>11. c = i + 1 /\ k <= h
  BY <1>2, <1>3, <1>5, <1>6, <1>7, <1>8, <1>10, WhereBehind
<1>12. JustBehind(s, t, n, e, i)
  BY <1>2, <1>4, <1>6, <1>11, BehindAt
<1>13. KidsIn(LoSplit(lo, sp, k), HiSplit(hi, p, sp, k), [up EXCEPT ![sp] = q], q, t, l, h)
  BY <1>2, <1>3, <1>11, <1>12, KidsBehind DEF e
<1> QED BY <1>13 DEF t, e

\* Where the pages under y have z above them.
UpMoved(up, y, z) == [v \in Nat |-> IF \E i \in 1 .. Len(y) : y[i].ptr = v THEN z ELSE up[v]]

\* The entries t of a node are cut into x and y, behind the m-th.
Cut(t, m, x, y, n) ==
  /\ Len(t) = n /\ Len(x) = m /\ Len(y) = n - m
  /\ \A i \in 1 .. m : x[i] = t[i]
  /\ \A i \in 1 .. n - m : y[i] = t[m + i]

LEMMA CutEnds ==
  ASSUME NEW n \in Nat, NEW m \in 1 .. n - 1, NEW t, NEW x, NEW y, Cut(t, m, x, y, n), NEW h
  PROVE  /\ \A i \in 1 .. m : i \in 1 .. n /\ EndOf(x, i, t[m + 1].key) = EndOf(t, i, h)
         /\ \A i \in 1 .. n - m : m + i \in 1 .. n /\ EndOf(y, i, h) = EndOf(t, m + i, h)
<1>1. /\ Len(t) = n /\ Len(x) = m /\ Len(y) = n - m
      /\ \A i \in 1 .. m : x[i] = t[i]
      /\ \A i \in 1 .. n - m : y[i] = t[m + i]
  BY DEF Cut
<1>2. ASSUME NEW i \in 1 .. m
      PROVE  i \in 1 .. n /\ EndOf(x, i, t[m + 1].key) = EndOf(t, i, h)
  <2>1. i \in 1 .. n /\ i < n
    OBVIOUS
  <2>2. CASE i < m
    <3>1. i + 1 \in 1 .. m
      BY <2>2
    <3> QED BY <1>1, <2>1, <2>2, <3>1 DEF EndOf
  <2>3. CASE i = m
    BY <1>1, <2>1, <2>3 DEF EndOf
  <2> QED BY <2>2, <2>3
<1>3. ASSUME NEW i \in 1 .. n - m
      PROVE  m + i \in 1 .. n /\ EndOf(y, i, h) = EndOf(t, m + i, h)
  <2>1. m + i \in 1 .. n /\ (i < n - m <=> m + i < n) /\ m + (i + 1) = (m + i) + 1
    OBVIOUS
  <2>2. CASE i < n - m
    <3>1. i + 1 \in 1 .. n - m
      BY <2>2
    <3>2. y[i + 1] = t[(m + i) + 1]
      BY <1>1, <2>1, <3>1
    <3> QED BY <1>1, <2>1, <2>2, <3>2 DEF EndOf
  <2>3. CASE ~(i < n - m)
    BY <1>1, <2>1, <2>3 DEF EndOf
  <2> QED BY <2>2, <2>3
<1> QED BY <1>2, <1>3

LEMMA KidsCut ==
  ASSUME NEW n \in Nat, NEW m \in 1 .. n - 1, NEW t, NEW x, NEW y, Cut(t, m, x, y, n),
         \A i \in 1 .. n : t[i].key \in Int /\ t[i].ptr \in Nat,
         \A i, j \in 1 .. n : i < j => t[i].key <= t[j].key,
         NEW lo, NEW hi, NEW up, NEW q, NEW z, NEW l \in Int, NEW h \in Int,
         KidsIn(lo, hi, up, q, t, l, h)
  PROVE  /\ KidsIn(lo, hi, UpMoved(up, y, z), q, x, l, t[m + 1].key)
         /\ KidsIn(lo, hi, UpMoved(up, y, z), z, y, t[m + 1].key, h)
         /\ t[m + 1].key \in Int /\ t[m + 1].key > 0
         /\ l <= t[m + 1].key /\ t[m + 1].key <= h
<1> DEFINE up2 == UpMoved(up, y, z)
<1>1. /\ Len(t) = n /\ Len(x) = m /\ Len(y) = n - m
      /\ \A i \in 1 .. m : x[i] = t[i]
      /\ \A i \in 1 .. n - m : y[i] = t[m + i]
  BY DEF Cut
<1>2. /\ t[1].key = l
      /\ \A i \in 1 .. n : /\ i > 1 => t[i].key > 0
                           /\ t[i].key <= h
                           /\ lo[t[i].ptr] = t[i].key
                           /\ hi[t[i].ptr] = EndOf(t, i, h)
                           /\ up[t[i].ptr] = q
      /\ \A j, i \in 1 .. n : t[j].ptr = t[i].ptr => j = i
  BY <1>1 DEF KidsIn
<1>3. /\ \A i \in 1 .. m : i \in 1 .. n /\ EndOf(x, i, t[m + 1].key) = EndOf(t, i, h)
      /\ \A i \in 1 .. n - m : m + i \in 1 .. n /\ EndOf(y, i, h) = EndOf(t, m + i, h)
  BY CutEnds
<1>4. \A v \in Nat : up2[v] = IF \E i \in 1 .. n - m : t[m + i].ptr = v THEN z ELSE up[v]
  <2>1. up2 = [v \in Nat |-> IF \E i \in 1 .. n - m : y[i].ptr = v THEN z ELSE up[v]]
    BY <1>1 DEF UpMoved
  <2> HIDE DEF up2
  <2>2. \A v \in Nat : (\E i \in 1 .. n - m : y[i].ptr = v) <=> (\E i \in 1 .. n - m : t[m + i].ptr = v)
    BY <1>1
  <2> QED BY <2>1, <2>2
<1> HIDE DEF up2
<1>5. ASSUME NEW i \in 1 .. m PROVE up2[t[i].ptr] = q
  <2>1. t[i].ptr \in Nat /\ up[t[i].ptr] = q /\ i \in 1 .. n
    BY <1>2, <1>3
  <2>2. ASSUME NEW j \in 1 .. n - m, t[m + j].ptr = t[i].ptr PROVE FALSE
    <3>1. m + j = i
      BY <1>2, <1>3, <2>2
    <3> QED BY <3>1
  <2> QED BY <1>4, <2>1, <2>2
<1>6. ASSUME NEW i \in 1 .. n - m PROVE up2[t[m + i].ptr] = z
  BY <1>3, <1>4
<1>7. m + 1 \in 1 .. n /\ 1 < m + 1 /\ 1 \in 1 .. n
  OBVIOUS
<1>8. /\ t[m + 1].key \in Int /\ t[m + 1].key > 0
      /\ l <= t[m + 1].key /\ t[m + 1].key <= h
  BY <1>2, <1>7
<1>9. KidsIn(lo, hi, up2, q, x, l, t[m + 1].key)
  <2>1. \A i \in 1 .. m : t[i].key <= t[m + 1].key
    <3>1. \A i \in 1 .. m : i < m + 1 /\ i \in 1 .. n
      OBVIOUS
    <3> QED BY <1>7, <3>1
  <2>2. 1 \in 1 .. m
    OBVIOUS
  <2>3. x[1].key = l
    BY <1>1, <1>2, <2>2
  <2>4. \A i \in 1 .. m :
          /\ i > 1 => x[i].key > 0
          /\ x[i].key <= t[m + 1].key
          /\ lo[x[i].ptr] = x[i].key
          /\ hi[x[i].ptr] = EndOf(x, i, t[m + 1].key)
          /\ up2[x[i].ptr] = q
    BY <1>1, <1>2, <1>3, <1>5, <2>1
  <2>5. \A i, j \in 1 .. m : x[i].ptr = x[j].ptr => i = j
    BY <1>1, <1>2, <1>3
  <2> QED BY <1>1, <2>3, <2>4, <2>5 DEF KidsIn
<1>10. KidsIn(lo, hi, up2, z, y, t[m + 1].key, h)
  <2>1. 1 \in 1 .. n - m
    OBVIOUS
  <2>2. y[1].key = t[m + 1].key
    BY <1>1, <2>1
  <2>3. ASSUME NEW i \in 1 .. n - m
        PROVE  /\ y[i].key > 0 /\ y[i].key <= h
               /\ lo[y[i].ptr] = y[i].key
               /\ hi[y[i].ptr] = EndOf(y, i, h)
               /\ up2[y[i].ptr] = z
    <3>1. m + i \in 1 .. n /\ m + i > 1
      OBVIOUS
    <3> QED BY <1>1, <1>2, <1>3, <1>6, <3>1
  <2>4. ASSUME NEW i \in 1 .. n - m, NEW j \in 1 .. n - m, y[i].ptr = y[j].ptr PROVE i = j
    <3>1. m + i = m + j
      BY <1>1, <1>2, <1>3, <2>4
    <3> QED BY <3>1
  <2> QED BY <1>1, <2>2, <2>3, <2>4 DEF KidsIn
<1> QED BY <1>8, <1>9, <1>10 DEF up2

LEMMA EndWithin ==
  ASSUME NEW s \in Seq(NodeEntries), NEW h \in Int, \A i \in 1 .. Len(s) : s[i].key <= h,
         NEW i \in 1 .. Len(s)
  PROVE  EndOf(s, i, h) \in Int /\ EndOf(s, i, h) <= h
<1>1. \A j \in 1 .. Len(s) : s[j].key \in Int
  BY KeysAreInts
<1>2. CASE i < Len(s)
  <2>1. i + 1 \in 1 .. Len(s)
    <3>1. \A m \in Nat : \A a \in 1 .. m : a < m => a + 1 \in 1 .. m
      OBVIOUS
    <3>2. Len(s) \in Nat
      OBVIOUS
    <3> QED BY <1>2, <3>1, <3>2, Zenon
  <2> QED BY <1>1, <1>2, <2>1 DEF EndOf
<1>3. CASE ~(i < Len(s))
  BY <1>3 DEF EndOf
<1> QED BY <1>2, <1>3

\* The node above takes the entry for the page that was added.
LEMMA InnerTakes ==
  ASSUME NEW n \in Nodes, n.kind = "inner", SortedKeys(n.entries),
         Len(n.entries) < Capacity(n),
         NEW lo \in [Nat -> Int], NEW hi \in [Nat -> Int], NEW up \in [Nat -> Nat],
         NEW q \in Nat, NEW l \in Int, NEW h \in Int, InnerIn(lo, hi, up, q, n, l, h),
         NEW i \in 1 .. Len(n.entries), NEW p \in Nat, p = n.entries[i].ptr,
         NEW sp \in Nat, up[sp] # q, NEW k \in Int, k > 0, lo[p] <= k, k < hi[p]
  PROVE  InnerIn(LoSplit(lo, sp, k), HiSplit(hi, p, sp, k), [up EXCEPT ![sp] = q], q,
                 Insert(n, Entry(k, sp)), l, h)
<1> DEFINE s == n.entries
           e == Entry(k, sp)
           t == Put("inner", s, e)
<1>1. /\ s \in Seq(NodeEntries) /\ Half(n) \in Nat /\ SortedKeys(s)
      /\ KidsIn(lo, hi, up, q, s, l, h) /\ Low(s, Half(n), h)
  BY NodeFacts DEF InnerIn
<1>2. e \in NodeEntries /\ e.key = k
  BY DEF Entry, NodeEntries
<1>3. Insert(n, e).entries = t /\ Insert(n, e).kind = n.kind
  BY DEF Insert, Nodes
<1>4. i \in 1 .. Len(s) /\ p = s[i].ptr
  OBVIOUS
<1> HIDE DEF e, s
<1>5. EndOf(s, i, h) \in Int /\ EndOf(s, i, h) <= h /\ hi[p] = EndOf(s, i, h)
  BY <1>1, <1>4, EndWithin DEF KidsIn
<1>6. k < h
  BY <1>5
<1>7. Low(t, Half(n), h)
  BY <1>1, <1>2, <1>6, PutLow
<1>8. KidsIn(LoSplit(lo, sp, k), HiSplit(hi, p, sp, k), [up EXCEPT ![sp] = q], q, t, l, h)
  BY <1>1, <1>4, KidsPut DEF e
<1>9. Half(Insert(n, e)) = Half(n)
  BY <1>3, HalfOfKind
<1> QED BY <1>3, <1>7, <1>8, <1>9 DEF InnerIn, e

LEMMA HalfSizes ==
  ASSUME NEW c, c \in Nat \ {0}, NEW m, m = c \/ m = c + 1, NEW w, w = 2 * c + 2
  PROVE  /\ w \in Nat /\ m \in 1 .. w - 1 /\ w - c = c + 2 /\ w > c /\ (2 * c + 1) + 1 = w
         /\ (2 * c + 1) - c = c + 1 /\ 2 * c + 1 > c
         /\ (w - m) - c \in 1 .. w - m /\ m + ((w - m) - c) = c + 2
OBVIOUS

\* Page p, which is the i-th below node n of page q, has been split, and the
\* keys from k on are on page sp.
ChildSplit(lo, hi, up, q, n, l, h, i, p, sp, k) ==
  /\ InnerIn(lo, hi, up, q, n, l, h)
  /\ i \in 1 .. Len(n.entries) /\ p = n.entries[i].ptr
  /\ up[sp] # q /\ k > 0 /\ lo[p] <= k /\ k < hi[p]

\* A full one is cut, and the pages under its sibling have page z above them.
LEMMA InnerSplits ==
  ASSUME NEW n \in Nodes, n.kind = "inner", SortedKeys(n.entries),
         Len(n.entries) = Capacity(n),
         NEW lo \in [Nat -> Int], NEW hi \in [Nat -> Int], NEW up \in [Nat -> Nat],
         NEW q \in Nat, NEW l \in Int, NEW h \in Int, NEW i, NEW p \in Nat,
         NEW sp \in Nat, NEW k \in Int, ChildSplit(lo, hi, up, q, n, l, h, i, p, sp, k),
         NEW z \in Nat, NEW up2,
         up2 = UpMoved([up EXCEPT ![sp] = q], SplitSibling(n, Entry(k, sp)).entries, z)
  PROVE  /\ SplitKey(n) \in Int /\ SplitKey(n) > 0 /\ l <= SplitKey(n) /\ SplitKey(n) < h
         /\ InnerIn(LoSplit(lo, sp, k), HiSplit(hi, p, sp, k), up2, q,
                    SplitNode(n, Entry(k, sp)), l, SplitKey(n))
         /\ InnerIn(LoSplit(lo, sp, k), HiSplit(hi, p, sp, k), up2, z,
                    SplitSibling(n, Entry(k, sp)), SplitKey(n), h)
<1> DEFINE s == n.entries
           e == Entry(k, sp)
           t == Put("inner", s, e)
           c == Half(n)
           x == SplitNode(n, e).entries
           y == SplitSibling(n, e).entries
           lo2 == LoSplit(lo, sp, k)
           hi2 == HiSplit(hi, p, sp, k)
           up1 == [up EXCEPT ![sp] = q]
<1>0. /\ InnerIn(lo, hi, up, q, n, l, h)
      /\ i \in 1 .. Len(n.entries) /\ p = n.entries[i].ptr
      /\ up[sp] # q /\ k > 0 /\ lo[p] <= k /\ k < hi[p]
  BY DEF ChildSplit
<1>1. /\ s \in Seq(NodeEntries) /\ c \in Nat \ {0} /\ SortedKeys(s)
      /\ KidsIn(lo, hi, up, q, s, l, h) /\ Low(s, c, h)
  BY <1>0, NodeFacts, PartsFacts DEF InnerIn
<1>a. c \in Nat \ {0} /\ Len(s) = 2 * c + 1
  BY PartsFacts
<1>2. e \in NodeEntries /\ e.key = k
  BY DEF Entry, NodeEntries
<1>3. i \in 1 .. Len(s) /\ p = s[i].ptr
  BY <1>0
<1>4. PICK m \in {c, c + 1} :
        /\ Len(x) = m
        /\ \A j \in 1 .. m : x[j] = t[j]
        /\ Len(y) = Len(t) - m
        /\ \A j \in 1 .. Len(t) - m : y[j] = t[m + j]
        /\ SplitKey(n) = t[m + 1].key
        /\ m = c + 1 => t[1].key < SplitKey(n)
  BY <1>2, InnerSplit
<1>5. up2 = UpMoved(up1, y, z)
  OBVIOUS
<1> HIDE DEF e, s, c, x, y, lo2, hi2, up1
<1>6. EndOf(s, i, h) \in Int /\ EndOf(s, i, h) <= h /\ hi[p] = EndOf(s, i, h)
  BY <1>1, <1>3, EndWithin DEF KidsIn
<1>7. k < h
  BY <1>0, <1>6
<1>8. Low(t, c, h)
  BY <1>1, <1>2, <1>7, PutLow
<1> DEFINE w == 2 * c + 2
<1>b. w = 2 * c + 2
  OBVIOUS
<1> HIDE DEF w
<1>9. t \in Seq(NodeEntries) /\ Len(t) = w /\ SortedKeys(t)
  <2>1. t \in Seq(NodeEntries) /\ Len(t) = Len(s) + 1 /\ SortedKeys(t)
    BY <1>1, <1>2, PutFacts
  <2>2. Len(s) + 1 = w
    BY <1>a, <1>b
  <2> QED BY <2>1, <2>2
<1>10. KidsIn(lo2, hi2, up1, q, t, l, h)
  BY <1>0, <1>1, <1>3, KidsPut DEF e, lo2, hi2, up1
<1> HIDE DEF t
<1>11. Cut(t, m, x, y, w)
  BY <1>4, <1>9 DEF Cut
<1>12. /\ \A j \in 1 .. w : t[j].key \in Int /\ t[j].ptr \in Nat
       /\ \A a, b \in 1 .. w : a < b => t[a].key <= t[b].key
  BY <1>9, KeysAreInts DEF NodeEntries, SortedKeys
<1>13. /\ w \in Nat /\ m \in 1 .. w - 1 /\ w - c = c + 2 /\ w > c
       /\ (2 * c + 1) - c = c + 1 /\ 2 * c + 1 > c
       /\ (w - m) - c \in 1 .. w - m /\ m + ((w - m) - c) = c + 2
  <2>1. m \in {c, c + 1}
    OBVIOUS
  <2>2. c \in Nat \ {0}
    BY <1>a
  <2>3. m = c \/ m = c + 1
    BY <2>1
  <2> QED BY <1>b, <2>2, <2>3, HalfSizes, Zenon
<1>14. t[c + 2].key < h
  BY <1>8, <1>9, <1>13 DEF Low
<1>15. /\ KidsIn(lo2, hi2, up2, q, x, l, t[m + 1].key)
       /\ KidsIn(lo2, hi2, up2, z, y, t[m + 1].key, h)
       /\ t[m + 1].key \in Int /\ t[m + 1].key > 0
       /\ l <= t[m + 1].key /\ t[m + 1].key <= h
  <2>1. w \in Nat /\ m \in 1 .. w - 1
    BY <1>13
  <2>2. /\ KidsIn(lo2, hi2, UpMoved(up1, y, z), q, x, l, t[m + 1].key)
        /\ KidsIn(lo2, hi2, UpMoved(up1, y, z), z, y, t[m + 1].key, h)
        /\ t[m + 1].key \in Int /\ t[m + 1].key > 0
        /\ l <= t[m + 1].key /\ t[m + 1].key <= h
    BY <1>10, <1>11, <1>12, <2>1, KidsCut
  <2> QED BY <1>5, <2>2
<1>16. SplitKey(n) < h
  <2>1. SplitKey(n) = s[c + 1].key
    BY DEF SplitKey, s, c
  <2>2. Len(s) - c = c + 1 /\ Len(s) > c
    BY <1>a, <1>13
  <2> QED BY <1>1, <2>1, <2>2 DEF Low
<1>17. Low(x, c, SplitKey(n))
  <2>1. CASE m = c
    BY <1>1, <1>4, <2>1 DEF Low
  <2>2. CASE m = c + 1
    <3>1. Len(x) - c = 1 /\ 1 \in 1 .. m
      BY <1>1, <1>4, <2>2
    <3>2. x[1] = t[1]
      BY <1>4, <3>1
    <3> QED BY <1>4, <2>2, <3>1, <3>2 DEF Low
  <2> QED BY <2>1, <2>2
<1>18. Low(y, c, h)
  <2>1. /\ Len(y) - c \in 1 .. Len(t) - m /\ m + (Len(y) - c) = c + 2
    BY <1>4, <1>9, <1>13
  <2>2. y[Len(y) - c] = t[c + 2]
    BY <1>4, <2>1
  <2> QED BY <1>14, <2>2 DEF Low
<1>19. /\ Half(SplitNode(n, e)) = c /\ Half(SplitSibling(n, e)) = c
  BY HalfOfKind, <1>2, SplitFacts DEF c
<1>20. /\ InnerIn(lo2, hi2, up2, q, SplitNode(n, e), l, SplitKey(n))
       /\ InnerIn(lo2, hi2, up2, z, SplitSibling(n, e), SplitKey(n), h)
  BY <1>4, <1>15, <1>17, <1>18, <1>19 DEF InnerIn, x, y
<1> QED BY <1>4, <1>15, <1>16, <1>20 DEF e, lo2, hi2
-----------------------------------------------------------------------------
(* An entry placed.                                                        *)

LEMMA PlaceParts ==
  ASSUME NEW c \in CallSet, NEW p, NEW n, NEW e
  PROVE  LET u == Place(c, p, n, e)
         IN /\ u.pc = c.pc /\ u.key = c.key /\ u.rid = c.rid /\ u.path = c.path
            /\ u.pid = p /\ u.sepPid = c.sepPid /\ u.rc = c.rc
            /\ ~Full(n) => u.node = Insert(n, e) /\ u.sibling = NoNode /\ u.sepKey = -1
            /\ Full(n) => /\ u.node = SplitNode(n, e) /\ u.sibling = SplitSibling(n, e)
                          /\ u.sepKey = SplitKey(n)
BY DEF Place, CallSet

\* What CallIn says of a node with its sibling, for a page z of its own.
InPair(lo, hi, up, q, z, u, l, h) ==
  /\ u.sepKey > 0 =>
       /\ l <= u.sepKey /\ u.sepKey < h
       /\ u.sibling # NoNode /\ u.sibling.kind = u.node.kind
       /\ NodeIn(lo, hi, up, q, u.node, l, u.sepKey)
       /\ NodeIn(lo, hi, up, z, u.sibling, u.sepKey, h)
  /\ ~(u.sepKey > 0) => u.sibling = NoNode /\ NodeIn(lo, hi, up, q, u.node, l, h)

LEMMA FullFacts ==
  ASSUME NEW n \in Nodes, Len(n.entries) <= Capacity(n)
  PROVE  /\ Full(n) => Len(n.entries) = Capacity(n)
         /\ ~Full(n) => Len(n.entries) < Capacity(n)
BY NodeFacts DEF Full

LEMMA SiblingIsNode ==
  ASSUME NEW n \in Nodes, Len(n.entries) = Capacity(n), NEW e \in NodeEntries
  PROVE  /\ SplitNode(n, e).kind = n.kind /\ SplitSibling(n, e).kind = n.kind
         /\ SplitSibling(n, e) # NoNode
BY SplitFacts, NodeFacts DEF NoNode, Node

LEMMA PlacePair ==
  ASSUME NEW c \in CallSet, NEW p, NEW n \in Nodes, Len(n.entries) <= Capacity(n), NEW e \in NodeEntries,
         NEW lo, NEW hi, NEW up, NEW q, NEW z, NEW l, NEW h,
         ~Full(n) => NodeIn(lo, hi, up, q, Insert(n, e), l, h),
         Full(n) => /\ SplitKey(n) > 0 /\ l <= SplitKey(n) /\ SplitKey(n) < h
                    /\ NodeIn(lo, hi, up, q, SplitNode(n, e), l, SplitKey(n))
                    /\ NodeIn(lo, hi, up, z, SplitSibling(n, e), SplitKey(n), h)
  PROVE  InPair(lo, hi, up, q, z, Place(c, p, n, e), l, h)
<1> DEFINE u == Place(c, p, n, e)
<1>1. CASE ~Full(n)
  <2>1. u.node = Insert(n, e) /\ u.sibling = NoNode /\ u.sepKey = -1
    BY <1>1, PlaceParts
  <2> HIDE DEF u
  <2> QED BY <1>1, <2>1 DEF InPair, u
<1>2. CASE Full(n)
  <2>1. u.node = SplitNode(n, e) /\ u.sibling = SplitSibling(n, e) /\ u.sepKey = SplitKey(n)
    BY <1>2, PlaceParts
  <2> HIDE DEF u
  <2>2. Len(n.entries) = Capacity(n)
    BY <1>2, FullFacts
  <2>3. /\ SplitNode(n, e).kind = n.kind /\ SplitSibling(n, e).kind = n.kind
        /\ SplitSibling(n, e) # NoNode
    BY <2>2, SiblingIsNode
  <2> QED BY <1>2, <2>1, <2>3 DEF InPair, u
<1> QED BY <1>1, <1>2

LEMMA PlaceLeaf ==
  ASSUME NEW c \in CallSet, NEW p, NEW n \in Nodes, n.kind = "leaf",
         Len(n.entries) <= Capacity(n), SortedKeys(n.entries),
         NEW l \in Int, NEW h \in Int, LeafIn(n, l, h),
         NEW e \in NodeEntries, e.key > 0, l <= e.key, e.key < h,
         NEW lo, NEW hi, NEW up, NEW q, NEW z
  PROVE  InPair(lo, hi, up, q, z, Place(c, p, n, e), l, h)
<1>1. ASSUME ~Full(n) PROVE NodeIn(lo, hi, up, q, Insert(n, e), l, h)
  <2>1. LeafIn(Insert(n, e), l, h) /\ Insert(n, e).kind = "leaf"
    BY <1>1, FullFacts, LeafTakes, InsertFacts
  <2> QED BY <2>1 DEF NodeIn
<1>2. ASSUME Full(n)
      PROVE  /\ SplitKey(n) > 0 /\ l <= SplitKey(n) /\ SplitKey(n) < h
             /\ NodeIn(lo, hi, up, q, SplitNode(n, e), l, SplitKey(n))
             /\ NodeIn(lo, hi, up, z, SplitSibling(n, e), SplitKey(n), h)
  <2>1. Len(n.entries) = Capacity(n)
    BY <1>2, FullFacts
  <2>2. /\ SplitKey(n) > 0 /\ l <= SplitKey(n) /\ SplitKey(n) < h
        /\ LeafIn(SplitNode(n, e), l, SplitKey(n))
        /\ LeafIn(SplitSibling(n, e), SplitKey(n), h)
    BY <2>1, LeafSplits
  <2>3. SplitNode(n, e).kind = "leaf" /\ SplitSibling(n, e).kind = "leaf"
    BY <2>1, SiblingIsNode
  <2> QED BY <2>2, <2>3 DEF NodeIn
<1> QED BY <1>1, <1>2, PlacePair

\* Only pages below the node are moved.
LEMMA MovedBelow ==
  ASSUME NEW n \in Nodes, Len(n.entries) = Capacity(n), NEW e \in NodeEntries
  PROVE  \A j \in 1 .. Len(SplitSibling(n, e).entries) :
           \/ SplitSibling(n, e).entries[j] = e
           \/ \E g \in 1 .. Len(n.entries) : n.entries[g] = SplitSibling(n, e).entries[j]
<1> DEFINE y == SplitSibling(n, e).entries
<1> SUFFICES ASSUME NEW j \in 1 .. Len(y)
             PROVE  y[j] = e \/ \E g \in 1 .. Len(n.entries) : n.entries[g] = y[j]
  OBVIOUS
<1>1. ToSet(n.entries) \cup {e} = ToSet(SplitNode(n, e).entries) \cup ToSet(y)
  BY SplitFacts
<1>2. y \in Seq(NodeEntries)
  BY SplitFacts, NodeFacts DEF Fits
<1>3. y[j] \in ToSet(y)
  BY <1>2 DEF ToSet
<1>4. y[j] = e \/ y[j] \in ToSet(n.entries)
  BY <1>1, <1>3
<1>5. n.entries \in Seq(NodeEntries)
  BY NodeFacts
<1> QED BY <1>4, <1>5 DEF ToSet

\* The buffers of u hold the node above page p when it has taken the entry of
\* page sp, and the pages under its sibling have page z above them.
Taken(lo, hi, up, p, sp, k, q, z, u, l, h) ==
  \E up2 \in [Nat -> Nat] :
    /\ \A x \in Nat : x # sp /\ up[x] # q => up2[x] = up[x]
    /\ InPair(LoSplit(lo, sp, k), HiSplit(hi, p, sp, k), up2, q, z, u, l, h)

LEMMA PlaceInner ==
  ASSUME NEW c \in CallSet, NEW n \in Nodes, n.kind = "inner",
         Len(n.entries) <= Capacity(n), SortedKeys(n.entries),
         NEW lo \in [Nat -> Int], NEW hi \in [Nat -> Int], NEW up \in [Nat -> Nat],
         NEW q \in Nat, NEW l \in Int, NEW h \in Int, NEW i, NEW p \in Nat,
         NEW sp \in Nat, NEW k \in Int, ChildSplit(lo, hi, up, q, n, l, h, i, p, sp, k),
         NEW z \in Nat
  PROVE  Taken(lo, hi, up, p, sp, k, q, z, Place(c, q, n, Entry(k, sp)), l, h)
<1> SUFFICES \E up2 \in [Nat -> Nat] :
               /\ \A x \in Nat : x # sp /\ up[x] # q => up2[x] = up[x]
               /\ InPair(LoSplit(lo, sp, k), HiSplit(hi, p, sp, k), up2, q, z,
                         Place(c, q, n, Entry(k, sp)), l, h)
  BY DEF Taken
<1>3. /\ InnerIn(lo, hi, up, q, n, l, h)
      /\ i \in 1 .. Len(n.entries) /\ p = n.entries[i].ptr
      /\ up[sp] # q /\ k > 0 /\ lo[p] <= k /\ k < hi[p]
  BY DEF ChildSplit
<1> DEFINE e == Entry(k, sp)
           lo2 == LoSplit(lo, sp, k)
           hi2 == HiSplit(hi, p, sp, k)
           up1 == [up EXCEPT ![sp] = q]
<1>1. e \in NodeEntries /\ e.ptr = sp
  BY DEF Entry, NodeEntries
<1>2. up1 \in [Nat -> Nat] /\ \A x \in Nat : x # sp => up1[x] = up[x]
  OBVIOUS
<1> HIDE DEF e
<1> HIDE DEF lo2, hi2, up1
<1>4. CASE ~Full(n)
  <2>1. Len(n.entries) < Capacity(n)
    BY <1>4, FullFacts
  <2>2. InnerIn(lo2, hi2, up1, q, Insert(n, e), l, h)
    BY <1>3, <2>1, InnerTakes DEF e, lo2, hi2, up1
  <2>3. Insert(n, e).kind # "leaf"
    BY DEF Insert, Nodes
  <2>4. NodeIn(lo2, hi2, up1, q, Insert(n, e), l, h)
    BY <2>2, <2>3 DEF NodeIn
  <2>5. InPair(lo2, hi2, up1, q, z, Place(c, q, n, e), l, h)
    BY <1>1, <1>4, <2>4, PlacePair
  <2> QED BY <1>2, <2>5 DEF e, lo2, hi2
<1>5. CASE Full(n)
  <2> DEFINE y == SplitSibling(n, e).entries
             up2 == UpMoved(up1, y, z)
  <2>1. Len(n.entries) = Capacity(n)
    BY <1>5, FullFacts
  <2>2. /\ SplitKey(n) > 0 /\ l <= SplitKey(n) /\ SplitKey(n) < h
        /\ InnerIn(lo2, hi2, up2, q, SplitNode(n, e), l, SplitKey(n))
        /\ InnerIn(lo2, hi2, up2, z, SplitSibling(n, e), SplitKey(n), h)
    <3>1. up2 = UpMoved([up EXCEPT ![sp] = q], SplitSibling(n, Entry(k, sp)).entries, z)
      BY DEF e, up1
    <3> HIDE DEF up2, y
    <3>2. /\ SplitKey(n) > 0 /\ l <= SplitKey(n) /\ SplitKey(n) < h
          /\ InnerIn(LoSplit(lo, sp, k), HiSplit(hi, p, sp, k), up2, q,
                     SplitNode(n, Entry(k, sp)), l, SplitKey(n))
          /\ InnerIn(LoSplit(lo, sp, k), HiSplit(hi, p, sp, k), up2, z,
                     SplitSibling(n, Entry(k, sp)), SplitKey(n), h)
      BY <2>1, <3>1, InnerSplits
    <3> QED BY <3>2 DEF e, lo2, hi2
  <2>3. /\ SplitNode(n, e).kind = n.kind /\ SplitSibling(n, e).kind = n.kind
        /\ SplitSibling(n, e) # NoNode
    BY <1>1, <2>1, SiblingIsNode
  <2>4. up2 \in [Nat -> Nat]
    BY <1>2 DEF UpMoved
  <2>5. \A x \in Nat : x # sp /\ up[x] # q => up2[x] = up[x]
    <3> SUFFICES ASSUME NEW x \in Nat, x # sp, up[x] # q PROVE up2[x] = up[x]
      OBVIOUS
    <3>1. ASSUME NEW j \in 1 .. Len(y), y[j].ptr = x PROVE FALSE
      <4>1. y[j] = e \/ \E g \in 1 .. Len(n.entries) : n.entries[g] = y[j]
        <5>1. \A m \in 1 .. Len(y) : y[m] = e \/ \E g \in 1 .. Len(n.entries) : n.entries[g] = y[m]
          <6> HIDE DEF up2
          <6> QED BY <1>1, <2>1, MovedBelow
        <5> QED BY <3>1, <5>1
      <4>2. y[j] # e
        BY <1>1, <3>1
      <4>3. PICK g \in 1 .. Len(n.entries) : n.entries[g] = y[j]
        BY <4>1, <4>2
      <4> QED BY <1>3, <3>1, <4>3 DEF InnerIn, KidsIn
    <3>2. up2[x] = up1[x]
      BY <3>1 DEF UpMoved
    <3> QED BY <1>2, <3>2
  <2> HIDE DEF up2
  <2>6. /\ NodeIn(lo2, hi2, up2, q, SplitNode(n, e), l, SplitKey(n))
        /\ NodeIn(lo2, hi2, up2, z, SplitSibling(n, e), SplitKey(n), h)
    BY <2>2, <2>3 DEF NodeIn
  <2>7. InPair(lo2, hi2, up2, q, z, Place(c, q, n, e), l, h)
    BY <1>1, <1>5, <2>2, <2>6, PlacePair
  <2> QED BY <2>4, <2>5, <2>7 DEF e, lo2, hi2
<1> QED BY <1>4, <1>5

\* Steps that change nothing that the order of the keys is about.
LEMMA SameOrder ==
  ASSUME OrderInv, BalanceInv', UNCHANGED <<header, page, mode, memory, call, done>>
  PROVE  OrderInv'
<1>1. /\ header' = header /\ page' = page /\ mode' = mode /\ call' = call /\ done' = done
      /\ rootPid' = rootPid /\ treeHeight' = treeHeight
  BY DEF memory
<1>2. PICK lo, hi, up, far : OrderOK(lo, hi, up, far)
  BY DEF OrderInv
<1>3. Orphan' = Orphan /\ Tree' = Tree /\ Linked' = Linked
  BY <1>1 DEF Orphan, Tree, Linked, Split, Working
<1>4. NoFaultYet'
  BY <1>1 DEF OrderInv, NoFaultYet, Height, Root, Saved
<1>5. PathIn'
  BY <1>1, <1>3 DEF OrderInv, PathIn, Working, Next1
<1>6. PairsIn'
  BY <1>1, <1>3 DEF OrderInv, PairsIn, LinkedPairs, Entries, PairsApart, Placed, AtInner, Working, Pair
<1>7. LeafWork' /\ InnerWork'
  BY <1>1 DEF OrderInv, LeafWork, InnerWork, AtLeaf, AtInner, Working, Split, Sibling, Entries, Pair
<1>8. RootIn(lo, hi, up)' /\ PagesIn(lo, hi, up)' /\ CallIn(lo, hi, up)'
  <2>1. RootIn(lo, hi, up)'
    BY <1>1, <1>2, <1>3 DEF OrderOK, RootIn, Root, Height
  <2>2. PagesIn(lo, hi, up)'
    BY <1>1, <1>2, <1>3 DEF OrderOK, PagesIn, AtInner, Working
  <2>3. CallIn(lo, hi, up)'
    BY <1>1, <1>2, <1>3 DEF OrderOK, CallIn, Working, Sibling, SiblingPid, EndPid
  <2> QED BY <2>1, <2>2, <2>3
<1>9. LinksIn(lo, hi, far)'
  BY <1>1, <1>2, <1>3 DEF OrderOK, LinksIn
<1>10. OrderOK(lo, hi, up, far)'
  BY <1>2, <1>8, <1>9 DEF OrderOK, Ghosts
<1> QED BY <1>4, <1>5, <1>6, <1>7, <1>10 DEF OrderInv

\* Steps that leave the pages alone and have no node under way.
LEMMA QuietOrder ==
  ASSUME OrderInv, BalanceInv', NoFaultYet', UNCHANGED page,
         call.pc \in {"idle", "return"}, call'.pc \in {"idle", "first"},
         Height' = Height, Height > 0 => Root' = Root,
         done' = IF call.pc = "idle" THEN done ELSE done \cup {Pair},
         call'.pc # "idle" => \A e \in done' : e.ptr < call'.rid
  PROVE  OrderInv'
<1>1. ~Working /\ ~Working'
  BY DEF Working
<1>2. PICK lo, hi, up, far : OrderOK(lo, hi, up, far)
  BY DEF OrderInv
<1>3. Orphan = {} /\ Orphan' = {} /\ Tree' = Tree /\ Linked' = Linked
  BY <1>1 DEF Orphan, Tree, Linked, Split
<1>4. PathIn' /\ LeafWork' /\ InnerWork'
  BY <1>1 DEF PathIn, LeafWork, InnerWork, AtLeaf, AtInner
<1>5. PairsIn'
  <2>1. LinkedPairs' = LinkedPairs /\ (PairsApart => PairsApart')
    BY <1>3 DEF LinkedPairs, Entries, PairsApart
  <2>2. LinkedPairs = done'
    BY <1>1 DEF OrderInv, PairsIn, Placed, AtInner
  <2> QED BY <1>1, <2>1, <2>2 DEF OrderInv, PairsIn, Placed, AtInner
<1>6. RootIn(lo, hi, up)'
  <2>1. RootIn(lo, hi, up)
    BY <1>2 DEF OrderOK
  <2>2. call.pc # "root" /\ call'.pc # "root"
    OBVIOUS
  <2> QED BY <1>3, <2>1, <2>2 DEF RootIn
<1>7. PagesIn(lo, hi, up)' /\ CallIn(lo, hi, up)'
  BY <1>1, <1>2, <1>3 DEF OrderOK, PagesIn, AtInner, CallIn
<1>8. LinksIn(lo, hi, far)'
  BY <1>2, <1>3 DEF OrderOK, LinksIn
<1>9. OrderOK(lo, hi, up, far)'
  BY <1>2, <1>6, <1>7, <1>8 DEF OrderOK, Ghosts
<1> QED BY <1>4, <1>5, <1>9 DEF OrderInv

LEMMA ObjectOrder ==
  ASSUME Faults = {}, OrderInv, BalanceInv', NEW m \in {"r", "w"},
         OpenOK(m) \/ OpenFails(m) \/ OpenNew \/ OpenGarbage \/ Close \/ Drop
  PROVE  OrderInv'
<1>1. NoFaultYet /\ TypeInv /\ TypeInv'
  BY DEF OrderInv, BalanceInv
<1>2. /\ header \in Roots /\ (mode = "closed" => call.pc = "idle") /\ call \in CallSet
      /\ (call.pc # "idle" => mode = "w")
  BY <1>1 DEF TypeInv, CallOK
<1>3. Idle.pc = "idle" /\ Idle.rc = "OK"
  BY IdleFacts DEF Idle
<1>4. header = [rootPid |-> header.rootPid, treeHeight |-> header.treeHeight]
  BY <1>2 DEF Roots
<1>5. CASE OpenOK(m)
  <2>1. NoFaultYet'
    BY <1>1, <1>2, <1>4, <1>5 DEF OpenOK, NoFaultYet, Height, Saved
  <2>2. Height' = Height /\ Root' = Root
    BY <1>5 DEF OpenOK, Height, Root
  <2> QED BY <1>2, <1>5, <2>1, <2>2, QuietOrder DEF OpenOK
<1>6. CASE OpenFails(m)
  BY <1>6, SameOrder DEF OpenFails, memory
<1>7. CASE OpenNew
  <2>1. Height = 0 /\ Height' = 0
    BY <1>7 DEF OpenNew, Height, NoFile
  <2>2. [rootPid |-> -1, treeHeight |-> 0] # Garbage
    BY DEF Garbage
  <2>3. NoFaultYet'
    BY <1>1, <1>2, <1>7, <2>1, <2>2 DEF OpenNew, NoFaultYet
  <2> QED BY <1>2, <1>7, <2>1, <2>3, QuietOrder DEF OpenNew
<1>8. CASE OpenGarbage
  BY <1>1, <1>8 DEF OpenGarbage, NoFaultYet
<1>9. CASE Close
  <2>1. mode \in {"r", "w"} /\ call.pc = "idle" /\ UNCHANGED <<page, memory, call, done>>
        /\ \/ mode = "w" /\ mode' = mode /\ header' = [rootPid |-> rootPid, treeHeight |-> treeHeight]
           \/ mode = "r" /\ mode' = "closed" /\ header' = header
    BY <1>9 DEF Close
  <2>2. Height' = Height /\ Root' = Root
    BY <1>1, <2>1 DEF Height, Root, memory, NoFaultYet, Saved
  <2>3. NoFaultYet'
    BY <1>1, <2>1, <2>2 DEF NoFaultYet, memory, Saved
  <2> QED BY <2>1, <2>2, <2>3, QuietOrder
<1>10. CASE Drop
  <2>1. /\ call.pc = "idle" /\ Saved /\ mode # "closed" /\ mode' = "closed" /\ call' = Idle
        /\ UNCHANGED <<header, page, done>>
    BY <1>1, <1>10 DEF Drop, NoFaultYet
  <2>2. Height' = Height /\ Root' = Root
    BY <2>1 DEF Height, Root, Saved
  <2>3. NoFaultYet'
    BY <1>1, <1>3, <2>1, <2>2 DEF NoFaultYet, Saved
  <2> QED BY <1>3, <2>1, <2>2, <2>3, QuietOrder
<1> QED BY <1>5, <1>6, <1>7, <1>8, <1>9, <1>10

LEMMA BeginEmptyOrder ==
  ASSUME KeysPositive, OrderInv, BalanceInv', NEW k \in Keys, BeginEmpty(k)
  PROVE  OrderInv'
<1>1. NoFaultYet /\ TypeInv
  BY DEF OrderInv, BalanceInv
<1>2. /\ treeHeight = 0 /\ mode = "w" /\ call.pc = "idle"
      /\ UNCHANGED <<header, page, mode, memory, done>>
      /\ call' = [Idle EXCEPT !.pc = "first", !.key = k, !.rid = tail]
  BY DEF BeginEmpty, Calls
<1>3. call'.pc = "first" /\ call'.key = k /\ call'.rid = tail /\ call'.rc = "OK"
  BY <1>2 DEF Idle
<1>4. k \in 1 .. Top - 1
  BY DEF KeysPositive
<1>5. Height' = Height /\ Root' = Root
  BY <1>2 DEF Height, Root, memory
<1>6. NoFaultYet'
  BY <1>1, <1>2, <1>3, <1>4, <1>5 DEF NoFaultYet, memory, Saved
<1>7. \A e \in done' : e.ptr < call'.rid
  BY <1>1, <1>2, <1>3 DEF TypeInv, DoneOK
<1> QED BY <1>2, <1>3, <1>5, <1>6, <1>7, QuietOrder

LEMMA ReturnOrder ==
  ASSUME OrderInv, BalanceInv', Return
  PROVE  OrderInv'
<1>1. NoFaultYet /\ TypeInv
  BY DEF OrderInv, BalanceInv
<1>2. /\ call.pc = "return" /\ call' = Idle /\ UNCHANGED <<header, page, mode, memory>>
      /\ done' = IF call.rc = "OK" THEN done \cup {Pair} ELSE done
  BY DEF Return, Pair
<1>3. call.rc = "OK" /\ mode = "w"
  BY <1>1, <1>2 DEF NoFaultYet, TypeInv, CallOK
<1>4. Height' = Height /\ Root' = Root
  BY <1>2 DEF Height, Root, memory
<1>5. Idle.pc = "idle" /\ Idle.rc = "OK"
  BY DEF Idle
<1>6. NoFaultYet'
  BY <1>1, <1>2, <1>4, <1>5 DEF NoFaultYet, memory, Saved
<1> QED BY <1>2, <1>3, <1>4, <1>5, <1>6, QuietOrder

\* A step of an insertion, after which the tree is not empty.
LEMMA StillFaultless ==
  ASSUME NoFaultYet, call.pc # "idle", mode = "w", mode' = mode,
         treeHeight' \in Nat, treeHeight' > 0, page' # <<>>,
         call'.pc # "first", call'.rc = "OK", call'.key = call.key
  PROVE  NoFaultYet'
<1>1. [rootPid |-> rootPid', treeHeight |-> treeHeight'] # Garbage
  BY DEF Garbage
<1>2. Height' = treeHeight'
  BY DEF Height
<1> QED BY <1>1, <1>2 DEF NoFaultYet

LEMMA Bounds ==
  /\ INT_MIN \in Int /\ Top \in Int /\ INT_MIN <= Top /\ INT_MIN < 0
  /\ \A k \in 1 .. Top - 1 : k \in Int /\ k > 0 /\ INT_MIN <= k /\ k < Top
<1>1. INT_MIN \in Int
  BY SMT DEF INT_MIN
<1>2. Top \in Int /\ Top > 0
  BY SMT DEF Top
<1>3. INT_MIN < 0
  BY SMT DEF INT_MIN
<1>4. \A k \in 1 .. Top - 1 : k \in Int /\ k > 0 /\ k < Top
  BY <1>2, SMT
<1>5. INT_MIN <= Top /\ \A k \in 1 .. Top - 1 : INT_MIN <= k
  BY <1>1, <1>2, <1>3, SMT
<1> QED BY <1>1, <1>2, <1>3, <1>4, <1>5

LEMMA PairFacts ==
  ASSUME TypeInv, NoFaultYet, call.pc # "idle"
  PROVE  /\ Pair \in NodeEntries /\ Pair.key = call.key /\ Pair.ptr = call.rid
         /\ Pair.key > 0 /\ INT_MIN <= Pair.key /\ Pair.key < Top
<1>1. call.key \in Int /\ call.rid \in Nat
  BY CallFields DEF TypeInv, CallOK
<1>2. call.key \in 1 .. Top - 1
  BY DEF NoFaultYet
<1>3. call.key > 0 /\ INT_MIN <= call.key /\ call.key < Top
  BY <1>2, Bounds
<1> QED BY <1>1, <1>3 DEF Pair, Entry, NodeEntries

\* The first leaf is for all keys.
LEMMA FirstLeafIn ==
  ASSUME TypeInv, NoFaultYet, call.pc # "idle", NEW n, n = Insert(NewLeaf, Pair)
  PROVE  /\ n.kind = "leaf" /\ n.next = 0 /\ ToSet(n.entries) = {Pair}
         /\ IsInjective(n.entries) /\ LeafIn(n, INT_MIN, Top)
<1>1. /\ Pair \in NodeEntries /\ Pair.key > 0 /\ INT_MIN <= Pair.key /\ Pair.key < Top
  BY PairFacts
<1>2. /\ NewLeaf \in Nodes /\ NewLeaf.kind = "leaf" /\ NewLeaf.entries = <<>>
      /\ SortedKeys(<<>>) /\ Len(<<>>) = 0
  BY NewNodes
<1>3. Capacity(NewLeaf) \in Nat /\ Capacity(NewLeaf) >= 3 /\ Half(NewLeaf) \in Nat
  BY <1>2, NodeFacts
<1>4. ToSet(<<>>) = {} /\ IsInjective(<<>>) /\ <<>> \in Seq(NodeEntries)
  BY DEF ToSet, IsInjective
<1>5. INT_MIN \in Int /\ Top \in Int
  BY Bounds
<1>6. LeafIn(NewLeaf, INT_MIN, Top)
  BY <1>2, <1>3, <1>4 DEF LeafIn, Low
<1>7. Len(NewLeaf.entries) < Capacity(NewLeaf)
  BY <1>2, <1>3
<1>8. LeafIn(n, INT_MIN, Top)
  BY <1>1, <1>2, <1>5, <1>6, <1>7, LeafTakes
<1>9. n.kind = "leaf" /\ n.next = NewLeaf.next /\ ToSet(n.entries) = ToSet(<<>>) \cup {Pair}
  BY <1>1, <1>2, <1>7, InsertFacts
<1>10. NewLeaf.next = 0 /\ n.entries = Put("leaf", <<>>, Pair)
  BY DEF NewLeaf, Node, Insert
<1>11. IsInjective(n.entries)
  BY <1>1, <1>2, <1>4, <1>10, PutOnce
<1> QED BY <1>4, <1>8, <1>9, <1>10, <1>11

LEMMA WriteFirstOrder ==
  ASSUME Faults = {}, OrderInv, BalanceInv', WriteFirst
  PROVE  OrderInv'
<1> DEFINE n == Insert(NewLeaf, Pair)
<1>1. /\ call.pc = "first" /\ page' = Written(EndPid, n)
      /\ call' = [call EXCEPT !.pc = "return"]
      /\ rootPid' = EndPid /\ treeHeight' = treeHeight + 1
      /\ mode' = mode /\ header' = header /\ done' = done
  BY DEF WriteFirst, Pair
<1>2. NoFaultYet /\ TypeInv /\ mode = "w" /\ treeHeight = 0 /\ call \in CallSet
  BY <1>1 DEF OrderInv, BalanceInv, TypeInv, CallOK, NoFaultYet
<1>3. page = <<>>
  BY <1>2 DEF NoFaultYet, Height
<1>4. /\ n.kind = "leaf" /\ n.next = 0 /\ ToSet(n.entries) = {Pair}
      /\ IsInjective(n.entries) /\ LeafIn(n, INT_MIN, Top)
  BY <1>1, <1>2, FirstLeafIn
<1> HIDE DEF n
<1>5. EndPid = 1 /\ page' = <<n>> /\ Len(page') = 1 /\ page'[1] = n
  BY <1>1, <1>3 DEF Written, Exists, EndPid
<1>6. /\ call'.pc = "return" /\ call'.key = call.key /\ call'.rid = call.rid
      /\ call'.rc = "OK" /\ treeHeight' = 1 /\ rootPid' = 1
  BY <1>1, <1>2, <1>5 DEF CallSet, NoFaultYet
<1>7. NoFaultYet'
  BY <1>1, <1>2, <1>5, <1>6, StillFaultless
<1>8. Orphan' = {} /\ Tree' = {1} /\ Linked' = {1}
  <2>1. Orphan' = {}
    BY <1>6 DEF Orphan, Split, Working
  <2>2. Tree' = {1}
    BY <1>5, <2>1 DEF Tree
  <2> QED BY <1>4, <1>5, <2>1, <2>2 DEF Linked
<1>9. PathIn' /\ LeafWork' /\ InnerWork'
  BY <1>6 DEF PathIn, LeafWork, InnerWork, AtLeaf, AtInner, Working
<1>10. PairsIn'
  <2>1. Linked = {}
    BY <1>3 DEF Linked, Tree
  <2>2. LinkedPairs = {} /\ ~Placed
    BY <1>1, <2>1 DEF LinkedPairs, Placed, AtInner, Working
  <2>3. done = {}
    BY <2>2 DEF OrderInv, PairsIn
  <2>4. Entries(1)' = {Pair}
    BY <1>4, <1>5 DEF Entries
  <2>5. LinkedPairs' = {Pair}
    BY <1>8, <2>4 DEF LinkedPairs
  <2>6. Pair' = Pair /\ Placed'
    BY <1>6 DEF Pair, Placed
  <2>7. PairsApart'
    BY <1>4, <1>5, <1>8 DEF PairsApart
  <2> QED BY <1>1, <2>3, <2>5, <2>6, <2>7 DEF PairsIn
<1> DEFINE lo == [x \in Nat |-> INT_MIN]
           hi == [x \in Nat |-> Top]
           up == [x \in Nat |-> 0]
           far == [x \in Nat |-> 1]
<1>11. /\ Ghosts(lo, hi, up, far) /\ 1 \in Nat
       /\ \A x \in Nat : lo[x] = INT_MIN /\ hi[x] = Top /\ up[x] = 0 /\ far[x] = 1
  BY Bounds DEF Ghosts
<1> HIDE DEF lo, hi, up, far
<1>12. RootIn(lo, hi, up)'
  <2>1. Height' = 1 /\ Root' = 1
    BY <1>1, <1>2, <1>6 DEF Height, Root
  <2> QED BY <1>6, <1>8, <1>11, <2>1 DEF RootIn
<1>13. PagesIn(lo, hi, up)' /\ CallIn(lo, hi, up)'
  <2>1. CallIn(lo, hi, up)'
    BY <1>6 DEF CallIn, Working
  <2>2. NodeIn(lo, hi, up, 1, n, INT_MIN, Top)
    BY <1>4 DEF NodeIn
  <2>3. INT_MIN <= Top
    BY Bounds
  <2>4. PagesIn(lo, hi, up)'
    BY <1>5, <1>8, <1>11, <2>2, <2>3 DEF PagesIn
  <2> QED BY <2>1, <2>4
<1>14. LinksIn(lo, hi, far)'
  BY <1>4, <1>5, <1>8, <1>11 DEF LinksIn
<1>15. OrderOK(lo, hi, up, far)'
  BY <1>11, <1>12, <1>13, <1>14 DEF OrderOK, Ghosts
<1> QED BY <1>7, <1>9, <1>10, <1>15 DEF OrderInv

LEMMA NodeAlike ==
  ASSUME NEW m, NEW n, m.kind = n.kind, m.entries = n.entries,
         NEW lo, NEW hi, NEW up, NEW q, NEW l, NEW h, NodeIn(lo, hi, up, q, n, l, h)
  PROVE  NodeIn(lo, hi, up, q, m, l, h)
<1>1. Half(m) = Half(n)
  BY HalfOfKind
<1> QED BY <1>1 DEF NodeIn, LeafIn, InnerIn

\* The same leaves are linked, and hold the same entries.
LEMMA SamePairs ==
  ASSUME Linked' = Linked, \A x \in Linked : page'[x] = page[x]
  PROVE  LinkedPairs' = LinkedPairs /\ (PairsApart => PairsApart')
<1>1. \A x \in Linked : Entries(x)' = Entries(x)
  BY DEF Entries
<1>2. LinkedPairs' = LinkedPairs
  <2>1. LinkedPairs' = UNION {Entries(x)' : x \in Linked}
    BY DEF LinkedPairs
  <2> QED BY <1>1, <2>1 DEF LinkedPairs
<1>3. PairsApart => PairsApart'
  BY <1>1 DEF PairsApart
<1> QED BY <1>2, <1>3

\* No linked leaf is added, or written again.
LinksKept ==
  /\ Linked' = Linked /\ Len(page) <= Len(page')
  /\ \A x \in Linked : page'[x] = page[x]

\* The page at the end of the file is no part of the tree yet.
LEMMA WriteSiblingOrder ==
  ASSUME Faults = {}, OrderInv, BalanceInv', WriteSibling
  PROVE  OrderInv' /\ LinksKept
<1> DEFINE n == [call.sibling EXCEPT !.next = call.node.next]
<1>1. /\ call.pc = "nodes" /\ call.sibling # NoNode /\ page' = Written(EndPid, n)
      /\ call' = SiblingDone
      /\ UNCHANGED <<header, mode, memory, done>>
  BY DEF WriteSibling, SiblingDone
<1>2. NoFaultYet /\ TypeInv
  BY DEF OrderInv, BalanceInv
<1>3. /\ call \in CallSet /\ mode = "w" /\ treeHeight > 0 /\ treeHeight \in Nat
      /\ page \in Seq(ProperNodes) /\ call.sibling \in ProperNodes
      /\ call.node \in ProperNodes /\ call.node.next \in Nat
  BY <1>1, <1>2, NodesFacts DEF TypeInv, MemoryOK
<1>4. n.kind = call.sibling.kind /\ n.entries = call.sibling.entries /\ n.next = call.node.next
  <2>1. n.kind = call.sibling.kind /\ n.entries = call.sibling.entries
    BY <1>3, NextFieldFacts
  <2>2. n.next = call.node.next
    BY <1>3 DEF ProperNodes, Nodes
  <2> QED BY <2>1, <2>2
<1> HIDE DEF n
<1>5. /\ call'.pc = "nodes" /\ call'.path = call.path /\ call'.pid = call.pid
      /\ call'.key = call.key /\ call'.rid = call.rid /\ call'.sibling = NoNode
      /\ call'.node.entries = call.node.entries /\ call'.node.kind = call.node.kind
  BY <1>1, <1>2, SiblingDoneFacts
<1>6. /\ call'.sepPid = EndPid /\ call'.sepKey = call.sepKey /\ call'.rc = call.rc
      /\ call.node.kind = "leaf" => call'.node.next = EndPid
  BY <1>1, <1>3 DEF SiblingDone, CallSet, ProperNodes, Nodes
<1>7. EndPid \in Nat /\ EndPid > 0 /\ ~Exists(EndPid) /\ Len(page) \in Nat
  BY <1>3, EndPidFacts
<1>8. page' = Append(page, n)
  BY <1>1, <1>7 DEF Written
<1>9. /\ Len(page') = EndPid /\ page'[EndPid] = n
      /\ \A x \in 1 .. Len(page) : page'[x] = page[x] /\ x # EndPid
  BY <1>3, <1>7, <1>8 DEF EndPid
<1>10. PICK lo, hi, up, far : OrderOK(lo, hi, up, far)
  BY DEF OrderInv
<1>11. Working /\ Working' /\ (AtInner' <=> AtInner) /\ (AtLeaf' <=> AtLeaf) /\ call.sepKey > 0
  BY <1>1, <1>5, <1>10 DEF Working, AtInner, AtLeaf, OrderOK, CallIn
<1>12. Split /\ Split' /\ Sibling = call.sibling /\ Sibling' = n
       /\ SiblingPid = EndPid /\ SiblingPid' = EndPid
  BY <1>1, <1>5, <1>6, <1>9, <1>11 DEF Split, Sibling, SiblingPid
<1>13. Orphan = {} /\ Orphan' = {EndPid} /\ Tree = 1 .. Len(page) /\ Tree' = Tree
       /\ Linked' = Linked
  <2>1. Orphan = {} /\ Orphan' = {EndPid}
    BY <1>1, <1>5, <1>6, <1>12 DEF Orphan
  <2>2. Tree = 1 .. Len(page)
    BY <2>1 DEF Tree
  <2>3. (1 .. EndPid) \ {EndPid} = 1 .. Len(page)
    BY <1>7 DEF EndPid
  <2>4. Tree' = Tree
    BY <1>9, <2>1, <2>2, <2>3 DEF Tree
  <2> QED BY <1>9, <2>1, <2>2, <2>4 DEF Linked
<1>14. \A x \in Tree : page'[x] = page[x]
  BY <1>9, <1>13
<1>15. NoFaultYet'
  BY <1>1, <1>2, <1>3, <1>5, <1>6, <1>8, StillFaultless DEF NoFaultYet, memory
<1>16. PathIn'
  BY <1>1, <1>5, <1>11, <1>13, <1>14 DEF OrderInv, PathIn, Next1, memory
<1>17. PairsIn'
  <2>1. LinkedPairs' = LinkedPairs /\ PairsApart'
    <3>1. \A x \in Linked : page'[x] = page[x]
      BY <1>14 DEF Linked
    <3> QED BY <1>13, <3>1, SamePairs DEF OrderInv, PairsIn
  <2>2. (Placed' <=> Placed) /\ Pair' = Pair
    BY <1>1, <1>5, <1>11 DEF Placed, Pair
  <2> QED BY <1>1, <1>5, <2>1, <2>2 DEF OrderInv, PairsIn
<1>18. LeafWork' /\ InnerWork'
  <2>1. call.pid \in Tree
    BY <1>10, <1>11 DEF OrderOK, CallIn
  <2>2. page'[call.pid] = page[call.pid] /\ Entries(call.pid)' = Entries(call.pid)
    BY <1>5, <1>14, <2>1 DEF Entries
  <2>3. InnerWork'
    BY <1>5, <1>11, <2>2 DEF OrderInv, InnerWork
  <2>4. Pair' = Pair
    BY <1>5 DEF Pair
  <2>5. LeafWork'
    <3> SUFFICES ASSUME AtLeaf PROVE LeafWork'
      BY <1>11 DEF LeafWork
    <3>1. call'.node.next = EndPid
      BY <1>6 DEF AtLeaf
    <3>2. /\ page[call.pid].kind = "leaf"
          /\ IsInjective(call.node.entries)
          /\ ToSet(call.node.entries) \cup ToSet(Sibling.entries) = Entries(call.pid) \cup {Pair}
          /\ ToSet(call.node.entries) \cap ToSet(Sibling.entries) = {}
          /\ IsInjective(Sibling.entries)
          /\ call.node.next = page[call.pid].next
      BY <1>1, <1>12 DEF OrderInv, LeafWork
    <3> QED BY <1>4, <1>5, <1>6, <1>12, <2>2, <2>4, <3>1, <3>2 DEF LeafWork
  <2> QED BY <2>3, <2>5
<1>19. RootIn(lo, hi, up)'
  <2>1. Height' = Height /\ Root' = Root
    BY <1>1 DEF Height, Root, memory
  <2> QED BY <1>1, <1>5, <1>10, <1>13, <2>1 DEF OrderOK, RootIn
<1>20. PagesIn(lo, hi, up)'
  BY <1>5, <1>10, <1>11, <1>13, <1>14 DEF OrderOK, PagesIn
<1>21. CallIn(lo, hi, up)'
  <2> DEFINE p == call.pid
             k == call.sepKey
  <2>1. /\ p \in Tree /\ lo[p] <= k /\ k < hi[p]
        /\ call.sibling.kind = call.node.kind
        /\ NodeIn(lo, hi, up, p, call.node, lo[p], k)
        /\ NodeIn(lo, hi, up, EndPid, call.sibling, k, hi[p])
    BY <1>10, <1>11, <1>12 DEF OrderOK, CallIn
  <2>2. NodeIn(lo, hi, up, p, call'.node, lo[p], k)
    BY <1>5, <2>1, NodeAlike
  <2>3. NodeIn(lo, hi, up, EndPid, n, k, hi[p])
    BY <1>4, <2>1, NodeAlike
  <2> QED BY <1>4, <1>5, <1>6, <1>7, <1>11, <1>12, <1>13, <2>1, <2>2, <2>3 DEF CallIn
<1>22. LinksIn(lo, hi, far)'
  <2>1. page # <<>> => 1 \in Linked
    BY <1>10 DEF OrderOK, LinksIn
  <2>2. page # <<>>
    <3>1. call.pid \in Tree
      BY <1>10, <1>11 DEF OrderOK, CallIn
    <3>2. Len(page) # 0
      BY <1>7, <1>13, <3>1
    <3> QED BY <3>2
  <2>3. Len(page') - 1 = Len(page) /\ Orphan' # {}
    BY <1>7, <1>9, <1>13 DEF EndPid
  <2>4. \A x \in Linked : x \in Tree
    BY DEF Linked
  <2> QED BY <1>10, <1>13, <1>14, <2>1, <2>2, <2>3, <2>4 DEF OrderOK, LinksIn
<1>23. OrderOK(lo, hi, up, far)'
  BY <1>10, <1>19, <1>20, <1>21, <1>22 DEF OrderOK, Ghosts
<1>24. LinksKept
  <2>1. Len(page) <= Len(page')
    BY <1>7, <1>9 DEF EndPid
  <2> QED BY <1>13, <1>14, <2>1 DEF LinksKept, Linked
<1> QED BY <1>15, <1>16, <1>17, <1>18, <1>23, <1>24 DEF OrderInv

\* A new root has the two halves of the old one below it, in this order.
LEMMA RootEntries ==
  ASSUME NEW pid1 \in Nat, NEW key \in Int, key > 0, NEW pid2 \in Nat,
         NEW t, t = RootNode(pid1, key, pid2).entries
  PROVE  t = <<Entry(INT_MIN, pid1), Entry(key, pid2)>>
<1> DEFINE d == Entry(INT_MIN, pid1)
           e == Entry(key, pid2)
           s == Put("inner", <<>>, d)
<1>1. d \in NodeEntries /\ e \in NodeEntries /\ d.key = INT_MIN /\ e.key = key
  BY Bounds DEF Entry, NodeEntries
<1>2. t = Put("inner", s, e)
  BY DEF RootNode, Node, Put
<1> HIDE DEF d, e, s
<1>3. <<>> \in Seq(NodeEntries) /\ Len(<<>>) = 0 /\ ToSet(<<>>) = {}
  BY DEF ToSet
<1>4. s \in Seq(NodeEntries) /\ Len(s) = 1 /\ ToSet(s) = {d}
  <2>1. s = Put("inner", <<>>, d)
    BY DEF s
  <2>2. /\ s \in Seq(NodeEntries) /\ Len(s) = Len(<<>>) + 1
        /\ ToSet(s) = ToSet(<<>>) \cup {d}
    BY <1>1, <1>3, <2>1, PutFacts, Zenon
  <2> QED BY <1>3, <2>2
<1>5. s[1] = d
  BY <1>4 DEF ToSet
<1>6. SortedKeys(s)
  BY <1>4 DEF SortedKeys
<1>7. PICK p \in 1 .. Len(s) + 1 : PutAt("inner", s, e, p)
  BY <1>1, <1>4, <1>6, PutPlace
<1>8. /\ \A i \in 1 .. Len(s) + 1 : t[i] = IF i < p THEN s[i] ELSE IF i = p THEN e ELSE s[i - 1]
      /\ \A i \in p .. Len(s) : s[i].key > key
  BY <1>1, <1>2, <1>7 DEF PutAt
<1>9. d.key < key
  BY <1>1, Bounds
<1>10. p = 2
  <2>1. ASSUME p = 1 PROVE FALSE
    BY <1>1, <1>4, <1>5, <1>8, <1>9, <2>1, Bounds
  <2>2. p = 1 \/ p = 2
    BY <1>4, <1>7
  <2> QED BY <2>1, <2>2
<1>11. t[1] = d /\ t[2] = e
  BY <1>4, <1>5, <1>8, <1>10
<1>12. t \in Seq(NodeEntries) /\ Len(t) = 2
  <2> DEFINE u == Put("inner", s, e)
  <2>1. u \in Seq(NodeEntries) /\ Len(u) = Len(s) + 1
    BY <1>1, <1>4, PutFacts, Zenon
  <2>2. t = u
    BY <1>2
  <2> HIDE DEF u
  <2> QED BY <1>4, <2>1, <2>2
<1> QED BY <1>11, <1>12 DEF d, e

LEMMA RootIsIn ==
  ASSUME NEW n, NEW p1 \in Nat, NEW k \in Int, k > 0, k <= Top, NEW p2 \in Nat,
         p1 # p2, n.kind = "inner", Half(n) \in Nat, Half(n) >= 1,
         n.entries = <<Entry(INT_MIN, p1), Entry(k, p2)>>,
         NEW lo, NEW hi, NEW up, NEW z,
         lo[p1] = INT_MIN, hi[p1] = k, up[p1] = z, lo[p2] = k, hi[p2] = Top, up[p2] = z
  PROVE  NodeIn(lo, hi, up, z, n, INT_MIN, Top)
<1> DEFINE s == n.entries
           d == Entry(INT_MIN, p1)
           e == Entry(k, p2)
<1>1. d.key = INT_MIN /\ d.ptr = p1 /\ e.key = k /\ e.ptr = p2
  BY DEF Entry
<1>2. s = <<d, e>>
  OBVIOUS
<1> HIDE DEF d, e, s
<1>3. Len(s) = 2 /\ s[1] = d /\ s[2] = e
  BY <1>2
<1> DEFINE m == Half(n)
<1>4. Low(s, m, Top)
  <2>1. CASE m = 1
    <3>1. Len(s) - m = 1 /\ s[1].key < Top
      BY <1>1, <1>3, <2>1, Bounds
    <3> QED BY <3>1 DEF Low
  <2>2. CASE m # 1
    BY <1>3, <2>2 DEF Low
  <2> QED BY <2>1, <2>2
<1>5. EndOf(s, 1, Top) = k /\ EndOf(s, 2, Top) = Top
  BY <1>1, <1>3 DEF EndOf
<1>6. \A i \in 1 .. 2 : i = 1 \/ i = 2
  OBVIOUS
<1>7. KidsIn(lo, hi, up, z, s, INT_MIN, Top)
  <2>1. s[1].key <= Top
    BY <1>1, <1>3, Bounds
  <2> QED BY <1>1, <1>3, <1>5, <1>6, <2>1 DEF KidsIn
<1> QED BY <1>4, <1>7 DEF NodeIn, InnerIn, s

LEMMA WriteRootOrder ==
  ASSUME Faults = {}, OrderInv, BalanceInv', WriteRoot
  PROVE  OrderInv' /\ LinksKept
<1> DEFINE n == RootNode(rootPid, call.sepKey, call.sepPid)
           k == call.sepKey
           sp == call.sepPid
           z == EndPid
<1>1. /\ call.pc = "root" /\ page' = Written(z, n)
      /\ rootPid' = z /\ treeHeight' = treeHeight + 1
      /\ call' = [call EXCEPT !.pc = "return"]
      /\ header' = header /\ mode' = mode /\ done' = done
  BY DEF WriteRoot
<1>2. NoFaultYet /\ TypeInv
  BY DEF OrderInv, BalanceInv
<1>3. /\ call \in CallSet /\ mode = "w" /\ treeHeight > 0 /\ treeHeight \in Nat
      /\ rootPid \in Nat /\ page \in Seq(ProperNodes)
  BY <1>1, <1>2 DEF TypeInv, CallOK, MemoryOK
<1>4. n \in ProperNodes /\ n.kind = "inner"
  BY <1>1, <1>2, NewRootFacts
<1>5. z \in Nat /\ z > 0 /\ ~Exists(z) /\ Len(page) \in Nat
  BY <1>3, EndPidFacts
<1>6. page' = Append(page, n)
  BY <1>1, <1>5 DEF Written
<1>7. /\ Len(page') = Len(page) + 1 /\ page'[z] = n
      /\ \A x \in 1 .. Len(page) : page'[x] = page[x] /\ x # z
  BY <1>3, <1>5, <1>6 DEF EndPid
<1>8. /\ call'.pc = "return" /\ call'.key = call.key /\ call'.rid = call.rid
      /\ call'.rc = "OK" /\ call'.sepKey = k /\ call'.sepPid = sp
  BY <1>1, <1>2, <1>3 DEF CallSet, NoFaultYet
<1>9. NoFaultYet'
  BY <1>1, <1>2, <1>3, <1>6, <1>8, StillFaultless
<1>10. ~Working /\ ~Working'
  BY <1>1, <1>8 DEF Working
<1>11. Orphan = {} /\ Orphan' = {} /\ Tree = 1 .. Len(page) /\ Tree' = Tree \cup {z} /\ z \notin Tree
  <2>1. Orphan = {} /\ Orphan' = {}
    BY <1>10 DEF Orphan, Split
  <2>2. 1 .. Len(page) + 1 = (1 .. Len(page)) \cup {z}
    BY <1>5 DEF EndPid
  <2> QED BY <1>7, <2>1, <2>2 DEF Tree
<1> HIDE DEF n
<1>12. Linked' = Linked /\ \A x \in Linked : page'[x] = page[x] /\ x # z
  BY <1>4, <1>7, <1>11 DEF Linked
<1>13. PathIn' /\ LeafWork' /\ InnerWork'
  BY <1>10 DEF PathIn, LeafWork, InnerWork, AtLeaf, AtInner
<1>14. PairsIn'
  <2>1. Placed /\ Placed' /\ Pair' = Pair
    BY <1>1, <1>8 DEF Placed, Pair
  <2>2. LinkedPairs' = LinkedPairs /\ (PairsApart => PairsApart')
    BY <1>12, SamePairs
  <2> QED BY <1>1, <1>8, <2>1, <2>2 DEF OrderInv, PairsIn
<1>15. PICK lo, hi, up, far : OrderOK(lo, hi, up, far)
  BY DEF OrderInv
<1>16. Height = treeHeight /\ Root = rootPid /\ Height' = treeHeight + 1 /\ Root' = z
  BY <1>1, <1>3 DEF Height, Root
<1>17. /\ rootPid \in Tree /\ up[rootPid] = 0 /\ lo[rootPid] = INT_MIN /\ hi[rootPid] = k
       /\ sp \in Tree /\ up[sp] = 0 /\ sp # rootPid /\ k > 0 /\ lo[sp] = k /\ hi[sp] = Top
       /\ k \in Int /\ sp \in Nat /\ k <= Top /\ up[z] = 0
  <2>1. /\ rootPid \in Tree /\ up[rootPid] = 0 /\ lo[rootPid] = INT_MIN /\ hi[rootPid] = k
        /\ sp \in Tree /\ up[sp] = 0 /\ sp # rootPid /\ k > 0 /\ lo[sp] = k /\ hi[sp] = Top
    BY <1>1, <1>3, <1>15, <1>16 DEF OrderOK, RootIn
  <2>2. k \in Int /\ sp \in Nat
    BY <1>3, CallFields
  <2>3. lo[sp] <= hi[sp] /\ up[z] = 0
    BY <1>5, <1>11, <1>15, <2>1 DEF OrderOK, PagesIn
  <2> QED BY <2>1, <2>2, <2>3
<1>18. PICK lo2, hi2, up2 :
         /\ Ghosts(lo2, hi2, up2, far)
         /\ lo2[z] = INT_MIN /\ hi2[z] = Top /\ up2[z] = 0
         /\ \A x \in Nat : x # z => lo2[x] = lo[x] /\ hi2[x] = hi[x]
         /\ \A x \in Nat : up2[x] = IF x = rootPid \/ x = sp THEN z ELSE up[x]
  <2> DEFINE a == [lo EXCEPT ![z] = INT_MIN]
             b == [hi EXCEPT ![z] = Top]
             c == [up EXCEPT ![rootPid] = z, ![sp] = z]
  <2>1. Ghosts(a, b, c, far)
    BY <1>5, <1>15, Bounds DEF OrderOK, Ghosts
  <2>2. /\ a[z] = INT_MIN /\ b[z] = Top /\ c[z] = 0
        /\ \A x \in Nat : x # z => a[x] = lo[x] /\ b[x] = hi[x]
        /\ \A x \in Nat : c[x] = IF x = rootPid \/ x = sp THEN z ELSE up[x]
    BY <1>3, <1>5, <1>11, <1>15, <1>17 DEF OrderOK, Ghosts
  <2> HIDE DEF a, b, c
  <2> QED BY <2>1, <2>2
<1>20. RootIn(lo2, hi2, up2)'
  BY <1>1, <1>8, <1>11, <1>16, <1>18 DEF RootIn
<1>21. NodeIn(lo2, hi2, up2, z, n, INT_MIN, Top)
  <2>1. n.entries = <<Entry(INT_MIN, rootPid), Entry(k, sp)>>
    BY <1>3, <1>17, RootEntries DEF n
  <2>2. Half(n) \in Nat /\ Half(n) >= 1
    BY <1>4, NodeFacts, ProperFacts
  <2>3. /\ lo2[rootPid] = INT_MIN /\ hi2[rootPid] = k /\ up2[rootPid] = z
        /\ lo2[sp] = k /\ hi2[sp] = Top /\ up2[sp] = z
    BY <1>3, <1>11, <1>17, <1>18
  <2> QED BY <1>3, <1>4, <1>17, <2>1, <2>2, <2>3, RootIsIn
<1>22. PagesIn(lo2, hi2, up2)'
  <2>1. ASSUME NEW p \in Nat, p \notin Tree' PROVE up2[p] = 0
    <3>1. p \notin Tree /\ p # rootPid /\ p # sp
      BY <1>11, <1>17, <2>1
    <3>2. up[p] = 0
      BY <1>15, <3>1 DEF OrderOK, PagesIn
    <3> QED BY <1>18, <3>1, <3>2
  <2>2. ASSUME NEW p \in Tree
        PROVE  /\ lo2[p] <= hi2[p] /\ (lo2[p] = INT_MIN \/ lo2[p] > 0)
               /\ NodeIn(lo2, hi2, up2, p, page'[p], lo2[p], hi2[p])
    <3>1. p \in Nat /\ p > 0 /\ p # z /\ page'[p] = page[p] /\ page[p] \in Nodes
      <4>1. p \in 1 .. Len(page)
        BY <1>11
      <4>2. page[p] \in ProperNodes
        BY <1>3, <4>1
      <4> QED BY <1>7, <1>11, <4>1, <4>2 DEF ProperNodes
    <3>2. /\ lo[p] <= hi[p] /\ (lo[p] = INT_MIN \/ lo[p] > 0)
          /\ NodeIn(lo, hi, up, p, page[p], lo[p], hi[p])
      BY <1>10, <1>15 DEF OrderOK, PagesIn, AtInner
    <3>3. \A x \in Nat : up[x] = p => lo2[x] = lo[x] /\ hi2[x] = hi[x] /\ up2[x] = p
      BY <1>17, <1>18, <3>1
    <3>4. NodeIn(lo2, hi2, up2, p, page[p], lo[p], hi[p])
      BY <3>1, <3>2, <3>3, KidsStay
    <3> QED BY <1>18, <3>1, <3>2, <3>4
  <2>3. /\ lo2[z] <= hi2[z] /\ lo2[z] = INT_MIN
        /\ NodeIn(lo2, hi2, up2, z, page'[z], lo2[z], hi2[z])
    BY <1>7, <1>18, <1>21, Bounds
  <2> QED BY <1>11, <2>1, <2>2, <2>3 DEF PagesIn
<1>23. CallIn(lo2, hi2, up2)'
  BY <1>10 DEF CallIn
<1>24. LinksIn(lo2, hi2, far)'
  <2>1. LinksIn(lo, hi, far)
    BY <1>15 DEF OrderOK
  <2>2. \A x \in Linked : x \in Nat /\ x \in Tree
    BY <1>5, <1>11 DEF Linked
  <2>3. \A x \in Linked : lo2[x] = lo[x] /\ hi2[x] = hi[x]
    BY <1>12, <1>18, <2>2
  <2>4. 1 \in Linked
    BY <1>17, <2>1, <1>11 DEF LinksIn
  <2>5. \A x \in Linked : far[x] \in Nat /\ far[x] <= Len(page)
    BY <1>11, <1>15, <2>1, <2>2 DEF OrderOK, Ghosts, LinksIn
  <2>6. \A x \in Linked : far[x] <= Len(page')
    BY <1>5, <1>7, <2>5
  <2> QED BY <1>11, <1>12, <2>1, <2>3, <2>4, <2>6 DEF LinksIn
<1>25. OrderOK(lo2, hi2, up2, far)'
  BY <1>18, <1>20, <1>22, <1>23, <1>24 DEF OrderOK, Ghosts
<1>26. LinksKept
  BY <1>5, <1>7, <1>12 DEF LinksKept
<1> QED BY <1>9, <1>13, <1>14, <1>25, <1>26 DEF OrderInv

-----------------------------------------------------------------------------
(* The way down.                                                           *)

\* The child that is followed for k is for an interval that k is in.
LEMMA ChildInside ==
  ASSUME NEW n \in ProperNodes, NEW lo, NEW hi, NEW up, NEW q, NEW l \in Int, NEW h \in Int,
         KidsIn(lo, hi, up, q, n.entries, l, h), l = INT_MIN \/ l > 0,
         NEW k \in Int, l <= k, k < h
  PROVE  \E i \in 1 .. Len(n.entries) :
           /\ ChildFor(n, k) = n.entries[i].ptr
           /\ n.entries[i].key <= k /\ k < EndOf(n.entries, i, h)
<1> DEFINE s == n.entries
           u == UpTo(s, k)
           zeros == {i \in 1 .. u : s[i].key = 0}
           last == IF zeros = {} THEN u ELSE CHOOSE i \in zeros : \A j \in zeros : i <= j
<1>1. s \in Seq(NodeEntries) /\ s # <<>> /\ Len(s) \in Nat /\ Len(s) >= 1
  <2>1. n \in Nodes /\ Len(s) \in 1 .. Capacity(n) /\ s # <<>>
    BY ProperFacts
  <2> QED BY <2>1, NodeFacts
<1>2. /\ u \in 0 .. Len(s)
      /\ \A i \in 1 .. u : s[i].key <= k
      /\ u < Len(s) => s[u + 1].key > k
  BY <1>1, UpToFacts
<1>3. \A i \in 1 .. Len(s) : s[i].key \in Int
  BY <1>1, KeysAreInts
<1>4. s[1].key = l /\ \A i \in 1 .. Len(s) : i > 1 => s[i].key > 0
  BY DEF KidsIn
<1>5. ChildFor(n, k) = IF s = <<>> THEN 0 ELSE s[IF last = 0 THEN 1 ELSE last].ptr
  BY Zenon DEF ChildFor
<1>a. zeros = {} => last = u
  OBVIOUS
<1> HIDE DEF s, u, last
<1> DEFINE c == Len(s)
<1>6. c \in Nat /\ c >= 1 /\ u \in 0 .. c
  BY <1>1, <1>2
<1> HIDE DEF c
<1>7. u # 0
  <2> SUFFICES ASSUME u = 0 PROVE FALSE
    OBVIOUS
  <2>1. u < c /\ u + 1 = 1
    BY <1>6
  <2>2. s[u + 1].key > k
    BY <1>2, <2>1 DEF c
  <2> QED BY <1>4, <2>1, <2>2
<1>8. u \in 1 .. c /\ (u < c => u + 1 \in 1 .. c)
  BY <1>6, <1>7
<1>9. zeros = {}
  <2> SUFFICES ASSUME NEW i \in 1 .. u, s[i].key = 0 PROVE FALSE
    OBVIOUS
  <2>1. i \in 1 .. c
    BY <1>6
  <2>2. i = 1
    BY <1>4, <2>1 DEF c
  <2> QED BY <1>4, <2>2, Bounds
<1>10. ChildFor(n, k) = s[u].ptr
  BY <1>1, <1>a, <1>5, <1>7, <1>9
<1>11. s[u].key <= k /\ k < EndOf(s, u, h)
  <2>1. s[u].key <= k
    BY <1>2, <1>8
  <2>2. k < EndOf(s, u, h)
    BY <1>2, <1>3, <1>8 DEF EndOf, c
  <2> QED BY <2>1, <2>2
<1>12. u \in 1 .. Len(s)
  BY <1>8 DEF c
<1> QED BY <1>10, <1>11, <1>12 DEF s

\* Between two calls of insert() the way down for k goes through pages for
\* intervals that k is in, one level at a time.
LEMMA DescentInside ==
  ASSUME TypeInv, ~Working, call.pc # "root", mode # "closed", treeHeight > 0,
         NEW d, Levels(d), TreeAt(d, rootPid, treeHeight),
         NEW lo, NEW hi, NEW up, NEW far, OrderOK(lo, hi, up, far),
         NEW k \in Int, INT_MIN <= k, k < Top
  PROVE  \A h \in 1 .. treeHeight :
           /\ At(d, Descent(k)[h], treeHeight - h + 1)
           /\ Descent(k)[h] \in 1 .. Len(page)
           /\ lo[Descent(k)[h]] <= k /\ k < hi[Descent(k)[h]]
<1> DEFINE way == Descent(k)
           Good(p, l) == At(d, p, l) /\ p \in 1 .. Len(page) /\ lo[p] <= k /\ k < hi[p]
           Right == {m \in Nat : m + 1 <= treeHeight => Good(way[m + 1], treeHeight - m)}
<1>1. page \in Seq(ProperNodes) /\ treeHeight \in Nat /\ rootPid \in Nat
  BY DEF TypeInv, MemoryOK
<1>2. \A h \in 1 .. treeHeight :
        way[h] = IF h = 1 THEN rootPid ELSE ChildFor(InnerAt(way[h - 1]), k)
  BY <1>1, DescentDef
<1>3. Orphan = {} /\ Tree = 1 .. Len(page)
  BY DEF Tree, Orphan, Split
<1>4. Ghosts(lo, hi, up, far) /\ RootIn(lo, hi, up) /\ PagesIn(lo, hi, up)
  BY DEF OrderOK
<1> HIDE DEF way
<1>5. 0 \in Right
  <2>1. way[0 + 1] = rootPid
    BY <1>1, <1>2
  <2>2. rootPid \in Tree /\ lo[rootPid] = INT_MIN /\ hi[rootPid] = Top
    BY <1>1, <1>4 DEF RootIn, Height, Root
  <2>3. Good(way[0 + 1], treeHeight - 0)
    BY <1>1, <1>3, <2>1, <2>2 DEF TreeAt
  <2> QED BY <2>3
<1>6. ASSUME NEW m \in Nat, m \in Right PROVE m + 1 \in Right
  <2> SUFFICES ASSUME (m + 1) + 1 <= treeHeight
               PROVE  Good(way[(m + 1) + 1], treeHeight - (m + 1))
    OBVIOUS
  <2>1. /\ m + 1 <= treeHeight /\ treeHeight - m # 1
        /\ (m + 1) + 1 \in 1 .. treeHeight /\ (m + 1) + 1 # 1 /\ ((m + 1) + 1) - 1 = m + 1
        /\ (treeHeight - m) - 1 = treeHeight - (m + 1)
    BY <1>1
  <2> DEFINE p == way[m + 1]
             n == page[p]
             c == ChildFor(n, k)
  <2>2. At(d, p, treeHeight - m) /\ p \in 1 .. Len(page) /\ lo[p] <= k /\ k < hi[p]
    BY <1>6, <2>1
  <2>3. way[(m + 1) + 1] = c
    BY <1>2, <2>1, <2>2 DEF InnerAt, Exists
  <2>4. n \in ProperNodes
    BY <1>1, <2>2
  <2>5. NodeAt(d, n, treeHeight - m)
    BY <2>2 DEF Levels, At
  <2>6. n.kind = "inner"
    BY <2>1, <2>5 DEF NodeAt
  <2> HIDE DEF p
  <2>7. p \in Nat /\ lo[p] \in Int /\ hi[p] \in Int /\ (lo[p] = INT_MIN \/ lo[p] > 0)
    <3>1. p \in Nat /\ p \in Tree
      BY <1>1, <1>3, <2>2
    <3> QED BY <1>4, <3>1 DEF Ghosts, PagesIn
  <2>8. KidsIn(lo, hi, up, p, n.entries, lo[p], hi[p])
    BY <1>3, <1>4, <2>2, <2>6 DEF PagesIn, AtInner, NodeIn, InnerIn
  <2> HIDE DEF n
  <2>9. PICK i \in 1 .. Len(n.entries) :
          /\ c = n.entries[i].ptr
          /\ n.entries[i].key <= k /\ k < EndOf(n.entries, i, hi[p])
    BY <2>2, <2>4, <2>7, <2>8, ChildInside
  <2>10. lo[c] = n.entries[i].key /\ hi[c] = EndOf(n.entries, i, hi[p])
    BY <2>8, <2>9 DEF KidsIn
  <2>11. At(d, c, (treeHeight - m) - 1)
    BY <2>4, <2>5, <2>6, ChildLevel
  <2>12. c \in 1 .. Len(page)
    BY <2>11 DEF At, Levels
  <2> HIDE DEF c
  <2>13. Good(c, treeHeight - (m + 1))
    BY <2>1, <2>9, <2>10, <2>11, <2>12
  <2> QED BY <2>3, <2>13
<1> HIDE DEF Right
<1>7. Nat \subseteq Right
  BY <1>5, <1>6, Induction
<1>8. ASSUME NEW h \in 1 .. treeHeight PROVE Good(way[h], treeHeight - h + 1)
  <2>1. h - 1 \in Nat /\ (h - 1) + 1 = h /\ h <= treeHeight
        /\ treeHeight - (h - 1) = treeHeight - h + 1
    BY <1>1
  <2>2. h - 1 \in Right
    BY <1>7, <2>1
  <2> HIDE DEF Good
  <2>3. (h - 1) + 1 <= treeHeight => Good(way[(h - 1) + 1], treeHeight - (h - 1))
    BY <2>2 DEF Right
  <2> QED BY <2>1, <2>3
<1> QED BY <1>8 DEF way

LEMMA NeverAstray ==
  ASSUME OrderInv, call.pc = "idle", mode \in {"r", "w"},
         NEW k \in Int, INT_MIN <= k, k < Top
  PROVE  OnTrack(k)
<1>1. TypeInv /\ treeHeight \in Nat /\ ~Working
  BY DEF OrderInv, BalanceInv, TypeInv, MemoryOK, Working
<1>2. PICK d : DepthOK(d)
  BY DEF OrderInv, BalanceInv
<1>3. PICK lo, hi, up, far : OrderOK(lo, hi, up, far)
  BY DEF OrderInv
<1> SUFFICES ASSUME NEW h \in 1 .. treeHeight
             PROVE  LET p == Descent(k)[h]
                    IN p # 0 /\ (Exists(p) => page[p].kind = IF h = treeHeight THEN "leaf" ELSE "inner")
  BY DEF OnTrack
<1> DEFINE p == Descent(k)[h]
<1>4. treeHeight > 0 /\ (treeHeight - h + 1 = 1 <=> h = treeHeight)
  BY <1>1
<1>5. At(d, p, treeHeight - h + 1) /\ p \in 1 .. Len(page)
  BY <1>1, <1>2, <1>3, <1>4, DescentInside DEF DepthOK, ObjectAt
<1> HIDE DEF p
<1>6. p # 0
  BY <1>5
<1>7. NodeAt(d, page[p], treeHeight - h + 1)
  BY <1>2, <1>5 DEF DepthOK, Levels, At
<1>8. page[p].kind = IF h = treeHeight THEN "leaf" ELSE "inner"
  BY <1>4, <1>7 DEF NodeAt
<1> QED BY <1>6, <1>8 DEF p

\* What the buffers of u owe the leaf n, when e has been put into it.
Owed(u, n, e) ==
  /\ IsInjective(u.node.entries) /\ u.node.next = n.next
  /\ u.sibling = NoNode => ToSet(u.node.entries) = ToSet(n.entries) \cup {e}
  /\ u.sibling # NoNode =>
       /\ ToSet(u.node.entries) \cup ToSet(u.sibling.entries) = ToSet(n.entries) \cup {e}
       /\ ToSet(u.node.entries) \cap ToSet(u.sibling.entries) = {}
       /\ IsInjective(u.sibling.entries)

LEMMA PlaceLeafWork ==
  ASSUME NEW c \in CallSet, NEW p, NEW n \in Nodes, n.kind = "leaf",
         Len(n.entries) <= Capacity(n), SortedKeys(n.entries), IsInjective(n.entries),
         NEW l \in Int, NEW h \in Int, LeafIn(n, l, h),
         NEW e \in NodeEntries, e.key > 0, l <= e.key, e.key < h, e \notin ToSet(n.entries)
  PROVE  Owed(Place(c, p, n, e), n, e)
<1> DEFINE u == Place(c, p, n, e)
<1>1. CASE ~Full(n)
  <2>1. u.node = Insert(n, e) /\ u.sibling = NoNode
    BY <1>1, PlaceParts
  <2>2. Len(n.entries) < Capacity(n)
    BY <1>1, FullFacts
  <2>3. /\ Insert(n, e).next = n.next
        /\ ToSet(Insert(n, e).entries) = ToSet(n.entries) \cup {e}
    BY <2>2, InsertFacts
  <2>4. Insert(n, e).entries = Put("leaf", n.entries, e) /\ n.entries \in Seq(NodeEntries)
    BY NodeFacts DEF Insert, Nodes
  <2>5. IsInjective(Insert(n, e).entries)
    BY <2>4, PutOnce
  <2> HIDE DEF u
  <2>6. Owed(u, n, e)
    BY <2>1, <2>3, <2>5 DEF Owed
  <2> QED BY <2>6 DEF u
<1>2. CASE Full(n)
  <2>1. u.node = SplitNode(n, e) /\ u.sibling = SplitSibling(n, e)
    BY <1>2, PlaceParts
  <2>2. Len(n.entries) = Capacity(n)
    BY <1>2, FullFacts
  <2>3. /\ IsInjective(SplitNode(n, e).entries)
        /\ IsInjective(SplitSibling(n, e).entries)
        /\ ToSet(SplitNode(n, e).entries) \cap ToSet(SplitSibling(n, e).entries) = {}
    BY <2>2, LeafSplits
  <2>4. SplitSibling(n, e) # NoNode /\ SplitNode(n, e).next = n.next
    BY <2>2, SiblingIsNode, SplitParts
  <2>5. ToSet(n.entries) \cup {e} =
          ToSet(SplitNode(n, e).entries) \cup ToSet(SplitSibling(n, e).entries)
    BY <2>2, SplitFacts
  <2> HIDE DEF u
  <2>6. Owed(u, n, e)
    BY <2>1, <2>3, <2>4, <2>5 DEF Owed
  <2> QED BY <2>6 DEF u
<1> QED BY <1>1, <1>2

LEMMA BeginOrder ==
  ASSUME Faults = {}, KeysPositive, OrderInv, BalanceInv', NEW k \in Keys, Begin(k)
  PROVE  OrderInv'
<1> DEFINE p == LeafFor(k)
           n == page[p]
           e == Entry(k, tail)
<1>1. NoFaultYet /\ TypeInv /\ treeHeight \in Nat /\ page \in Seq(ProperNodes)
  BY DEF OrderInv, BalanceInv, TypeInv, MemoryOK
<1>2. /\ treeHeight > 0 /\ OnTrack(k) /\ Calls(k) /\ mode = "w" /\ call.pc = "idle"
      /\ UNCHANGED <<header, page, mode, memory, done>>
  BY DEF Begin, Calls
<1>3. k \in 1 .. Top - 1 /\ k \in Int /\ k > 0 /\ INT_MIN <= k /\ k < Top
  BY Bounds DEF KeysPositive
<1>4. e \in NodeEntries /\ e.key = k /\ e.ptr = tail
  <2>1. e \in NodeEntries
    BY <1>1, <1>2, CallsFacts
  <2> QED BY <2>1 DEF Entry
<1>5. PICK d : DepthOK(d)
  BY DEF OrderInv, BalanceInv
<1>6. PICK lo, hi, up, far : OrderOK(lo, hi, up, far)
  BY DEF OrderInv
<1>7. ~Working /\ call.pc # "root" /\ mode # "closed"
  BY <1>2 DEF Working
<1>8. \A h \in 1 .. treeHeight :
           /\ At(d, Descent(k)[h], treeHeight - h + 1)
           /\ Descent(k)[h] \in 1 .. Len(page)
           /\ lo[Descent(k)[h]] <= k /\ k < hi[Descent(k)[h]]
  <2>1. Levels(d) /\ TreeAt(d, rootPid, treeHeight)
    BY <1>2, <1>5 DEF DepthOK, ObjectAt
  <2> QED BY <1>1, <1>2, <1>3, <1>6, <1>7, <2>1, DescentInside
<1>9. At(d, p, 1) /\ p \in 1 .. Len(page) /\ lo[p] <= k /\ k < hi[p]
  <2>1. treeHeight \in 1 .. treeHeight /\ treeHeight - treeHeight + 1 = 1
    BY <1>1, <1>2
  <2>2. At(d, p, treeHeight - treeHeight + 1)
    BY <1>8, <2>1 DEF LeafFor
  <2> QED BY <1>8, <2>1, <2>2 DEF LeafFor
<1>10. n \in ProperNodes /\ n.kind = "leaf" /\ Exists(p) /\ LeafAt(p) = n
  <2>1. NodeAt(d, n, 1)
    BY <1>5, <1>9 DEF DepthOK, Levels, At
  <2> QED BY <1>1, <1>9, <2>1 DEF NodeAt, Exists, LeafAt
<1>11. PICK c \in CallSet :
         /\ call' = Place(c, p, n, e)
         /\ c.pc = "nodes" /\ c.key = k /\ c.rid = tail
         /\ Len(c.path) = treeHeight - 1
         /\ \A h \in 1 .. Len(c.path) :
              /\ c.path[h].pid = Descent(k)[h]
              /\ Exists(c.path[h].pid)
              /\ c.path[h].node = page[c.path[h].pid]
  BY <1>1, <1>10, BeginFacts
<1>12. call'.rc = "OK"
  BY DEF Begin, Place, Idle
<1>13. n \in Nodes /\ Len(n.entries) <= Capacity(n) /\ SortedKeys(n.entries)
       /\ p \in Nat /\ p > 0 /\ Len(page) \in Nat
  BY <1>1, <1>9, <1>10, ProperFacts, NodeFacts
<1> HIDE DEF p, n, e
<1>14. Orphan = {} /\ Tree = 1 .. Len(page)
  BY <1>7 DEF Orphan, Split, Tree
<1>15. Ghosts(lo, hi, up, far) /\ RootIn(lo, hi, up) /\ PagesIn(lo, hi, up) /\ LinksIn(lo, hi, far)
  BY <1>6 DEF OrderOK
<1>16. lo[p] \in Int /\ hi[p] \in Int /\ LeafIn(n, lo[p], hi[p])
  <2>1. NodeIn(lo, hi, up, p, page[p], lo[p], hi[p])
    BY <1>7, <1>9, <1>14, <1>15 DEF PagesIn, AtInner
  <2> QED BY <1>10, <1>13, <1>15, <2>1 DEF Ghosts, NodeIn, n
<1>17. /\ call'.pc = "nodes" /\ call'.key = k /\ call'.rid = tail
       /\ call'.path = c.path /\ call'.pid = p /\ call'.node.kind = "leaf"
  BY <1>4, <1>10, <1>11, <1>13, PlaceFacts
<1>18. InPair(lo, hi, up, p, EndPid, call', lo[p], hi[p])
  BY <1>3, <1>4, <1>9, <1>10, <1>11, <1>13, <1>16, PlaceLeaf
<1>19. p \in Linked /\ Entries(p) = ToSet(n.entries)
  BY <1>9, <1>10, <1>14 DEF Linked, Entries, n
<1>20. LinkedPairs = done /\ PairsApart
  BY <1>2, <1>7 DEF OrderInv, PairsIn, Placed, AtInner
<1>21. e \notin ToSet(n.entries) /\ IsInjective(n.entries)
  <2>1. \A f \in done : f.ptr < tail
    BY <1>1 DEF TypeInv, DoneOK
  <2>2. tail \in Nat
    BY <1>1 DEF TypeInv, DoneOK
  <2>3. ToSet(n.entries) \subseteq done
    BY <1>19, <1>20 DEF LinkedPairs
  <2>4. IsInjective(n.entries)
    BY <1>19, <1>20 DEF PairsApart, n
  <2> QED BY <1>4, <2>1, <2>2, <2>3, <2>4
<1>22. Owed(call', n, e)
  <2>1. Owed(Place(c, p, n, e), n, e)
    BY <1>3, <1>4, <1>9, <1>10, <1>13, <1>16, <1>21, PlaceLeafWork
  <2> QED BY <1>11, <2>1
<1>23. Working' /\ AtLeaf' /\ ~AtInner' /\ ~Placed' /\ EndPid' = EndPid
       /\ (Split' <=> call'.sepKey > 0) /\ page' = page
  BY <1>2, <1>17 DEF Working, AtLeaf, AtInner, Placed, Split, EndPid
<1>24. call'.sepKey > 0 <=> call'.sibling # NoNode
  BY <1>18 DEF InPair
<1>25. Orphan' = {} /\ Tree' = Tree /\ Linked' = Linked
  BY <1>14, <1>23, <1>24 DEF Orphan, Tree, Linked
<1>26. Split' => Sibling' = call'.sibling /\ SiblingPid' = EndPid
  BY <1>23, <1>24 DEF Sibling, SiblingPid
<1>27. Pair' = e
  BY <1>17 DEF Pair, e
<1>28. NoFaultYet'
  BY <1>1, <1>2, <1>3, <1>12, <1>17 DEF NoFaultYet, Height, Saved, memory
<1>29. PairsIn'
  <2>1. LinkedPairs' = LinkedPairs /\ PairsApart'
    BY <1>20, <1>23, <1>25, SamePairs
  <2>2. \A f \in done' : f.ptr < call'.rid
    BY <1>1, <1>2, <1>17 DEF TypeInv, DoneOK
  <2> QED BY <1>2, <1>20, <1>23, <2>1, <2>2 DEF PairsIn
<1>30. InnerWork'
  BY <1>23 DEF InnerWork
<1>31. LeafWork'
  <2>1. page'[call'.pid] = n
    BY <1>17, <1>23 DEF n
  <2>2. Split' <=> call'.sibling # NoNode
    BY <1>23, <1>24
  <2> QED BY <1>10, <1>22, <1>26, <1>27, <2>1, <2>2 DEF LeafWork, Entries, Owed
<1>32. PathIn'
  <2>1. ASSUME NEW h \in 1 .. Len(c.path)
        PROVE  /\ c.path[h].pid \in Tree
               /\ \E f \in ToSet(c.path[h].node.entries) :
                    f.ptr = IF h = Len(c.path) THEN p ELSE c.path[h + 1].pid
    <3>1. h \in 1 .. treeHeight /\ h + 1 \in 1 .. treeHeight /\ h + 1 # 1 /\ (h + 1) - 1 = h
      BY <1>1, <1>11
    <3>2. c.path[h].pid \in Tree
      BY <1>8, <1>11, <1>14, <3>1
    <3> DEFINE q == c.path[h].pid
               m == page[q]
    <3>3. q = Descent(k)[h] /\ Exists(q) /\ c.path[h].node = m
      BY <1>11
    <3>4. Descent(k)[h + 1] = ChildFor(m, k)
      <4>1. Descent(k)[h + 1] = ChildFor(InnerAt(Descent(k)[h]), k)
        <5> DEFINE way == Descent(k)
        <5>1. way = [g \in 1 .. treeHeight |->
                       IF g = 1 THEN rootPid ELSE ChildFor(InnerAt(way[g - 1]), k)]
          BY <1>1, DescentDef
        <5> HIDE DEF way
        <5>2. \A g \in 1 .. treeHeight :
                way[g] = IF g = 1 THEN rootPid ELSE ChildFor(InnerAt(way[g - 1]), k)
          BY <5>1
        <5>3. way[h + 1] = ChildFor(InnerAt(way[h]), k)
          BY <3>1, <5>2
        <5> QED BY <5>3 DEF way
      <4> QED BY <3>3, <4>1 DEF InnerAt
    <3>5. m \in Nodes /\ m.entries # <<>>
      BY <1>1, <3>3, PageFacts, ProperFacts
    <3> HIDE DEF q, m
    <3>6. \E f \in ToSet(m.entries) : f.ptr = Descent(k)[h + 1]
      BY <1>3, <3>4, <3>5, ChildFacts
    <3>7. Descent(k)[h + 1] = IF h = Len(c.path) THEN p ELSE c.path[h + 1].pid
      <4>1. CASE h = Len(c.path)
        <5>1. h + 1 = treeHeight
          BY <1>1, <1>11, <4>1
        <5> QED BY <4>1, <5>1 DEF LeafFor, p
      <4>2. CASE h # Len(c.path)
        <5>1. h + 1 \in 1 .. Len(c.path)
          BY <1>1, <1>11, <4>2
        <5> QED BY <1>11, <4>2, <5>1
      <4> QED BY <4>1, <4>2
    <3> QED BY <3>2, <3>3, <3>6, <3>7
  <2>2. rootPid = IF c.path = <<>> THEN p ELSE c.path[1].pid
    <3>1. Descent(k)[1] = rootPid
      <4> DEFINE way == Descent(k)
      <4>1. way = [g \in 1 .. treeHeight |->
                     IF g = 1 THEN rootPid ELSE ChildFor(InnerAt(way[g - 1]), k)]
        BY <1>1, DescentDef
      <4> HIDE DEF way
      <4>2. way[1] = rootPid
        BY <1>1, <1>2, <4>1
      <4> QED BY <4>2 DEF way
    <3>2. c.path \in Seq(Path)
      BY CallFields
    <3>3. CASE c.path = <<>>
      <4>1. treeHeight = 1
        BY <1>1, <1>11, <3>3
      <4> QED BY <3>1, <3>3, <4>1 DEF LeafFor, p
    <3>4. CASE c.path # <<>>
      <4>1. 1 \in 1 .. Len(c.path)
        BY <3>2, <3>4
      <4> QED BY <1>11, <3>1, <3>4, <4>1
    <3> QED BY <3>3, <3>4
  <2> QED BY <1>2, <1>11, <1>17, <1>23, <1>25, <2>1, <2>2 DEF PathIn, Next1, memory
<1>33. RootIn(lo, hi, up)'
  <2>1. Height' = Height /\ Root' = Root
    BY <1>2 DEF Height, Root, memory
  <2> QED BY <1>2, <1>15, <1>17, <1>25, <2>1 DEF RootIn
<1>34. PagesIn(lo, hi, up)'
  BY <1>7, <1>15, <1>23, <1>25 DEF PagesIn, AtInner
<1>35. CallIn(lo, hi, up)'
  <2>1. p \in Tree /\ EndPid \in Nat /\ EndPid > 0
    BY <1>1, <1>9, <1>14, EndPidFacts
  <2> QED BY <1>17, <1>18, <1>23, <1>24, <1>25, <1>26, <2>1 DEF CallIn, InPair
<1>36. LinksIn(lo, hi, far)'
  BY <1>14, <1>15, <1>23, <1>25 DEF LinksIn
<1>37. OrderOK(lo, hi, up, far)'
  BY <1>15, <1>33, <1>34, <1>35, <1>36 DEF OrderOK, Ghosts
<1> QED BY <1>28, <1>29, <1>30, <1>31, <1>32, <1>37 DEF OrderInv

-----------------------------------------------------------------------------
(* The node under way is written to its page, without a sibling left in    *)
(* its buffer.                                                             *)

NodeWritten ==
  /\ call.pc = "nodes" /\ call.sibling = NoNode
  /\ page' = Written(call.pid, call.node) /\ call' = Up(call)
  /\ UNCHANGED <<header, mode, memory, done>>

\* The page above the node under way.
AbovePid == IF call.path = <<>> THEN 0 ELSE Last(call.path).pid

LEMMA NodeSets ==
  ASSUME OrderInv, NodeWritten
  PROVE  /\ TypeInv /\ Working /\ Len(page) \in Nat /\ call \in CallSet
         /\ call.pid \in Tree /\ call.pid \in 1 .. Len(page)
         /\ call.node \in ProperNodes
         /\ Len(page') = Len(page) /\ page'[call.pid] = call.node
         /\ \A x \in 1 .. Len(page) : page[x] \in ProperNodes /\ (x # call.pid => page'[x] = page[x])
         /\ Tree \subseteq 1 .. Len(page) /\ (Split <=> call.sepKey > 0)
         /\ Split => /\ call.sepPid \in 1 .. Len(page) /\ call.sepPid \notin Tree
                     /\ Tree \cup {call.sepPid} = 1 .. Len(page) /\ Orphan # {}
                     /\ Sibling = page[call.sepPid] /\ SiblingPid = call.sepPid
         /\ ~Split => Tree = 1 .. Len(page) /\ Orphan = {}
<1>1. TypeInv /\ call.pc = "nodes" /\ call.sibling = NoNode /\ page' = Written(call.pid, call.node)
  BY DEF OrderInv, BalanceInv, NodeWritten
<1>2. call \in CallSet /\ page \in Seq(ProperNodes) /\ call.node \in ProperNodes /\ Len(page) \in Nat
  BY <1>1, NodesFacts
<1>3. Working /\ (Split <=> call.sepKey > 0)
  BY <1>1 DEF Working, Split
<1>4. call.pid \in Tree
  BY <1>3 DEF OrderInv, OrderOK, CallIn
<1>5. Tree \subseteq 1 .. Len(page)
  BY DEF Tree
<1>6. call.pid \in 1 .. Len(page)
  BY <1>4, <1>5
<1>7. page' = [page EXCEPT ![call.pid] = call.node]
  BY <1>1, <1>6 DEF Written, Exists
<1>8. /\ Len(page') = Len(page) /\ page'[call.pid] = call.node
      /\ \A x \in 1 .. Len(page) : page[x] \in ProperNodes /\ (x # call.pid => page'[x] = page[x])
  BY <1>2, <1>6, <1>7
<1>9. ASSUME Split
      PROVE  /\ call.sepPid \in 1 .. Len(page) /\ call.sepPid \notin Tree
             /\ Tree \cup {call.sepPid} = 1 .. Len(page) /\ Orphan # {}
             /\ Sibling = page[call.sepPid] /\ SiblingPid = call.sepPid
  <2>1. Orphan = {call.sepPid}
    BY <1>1, <1>9 DEF Orphan
  <2>2. PICK d : DepthOK(d)
    BY DEF OrderInv, BalanceInv
  <2>3. Levels(d) /\ At(d, call.sepPid, Here)
    BY <1>1, <1>3, <1>9, <2>2 DEF DepthOK, CallAt
  <2>4. call.sepPid \in 1 .. Len(page)
    BY <2>3 DEF Levels, At
  <2> QED BY <1>1, <2>1, <2>4 DEF Tree, Sibling, SiblingPid
<1>10. ~Split => Tree = 1 .. Len(page) /\ Orphan = {}
  BY DEF Tree, Orphan
<1> QED BY <1>1, <1>2, <1>3, <1>4, <1>5, <1>6, <1>8, <1>9, <1>10

LEMMA AboveFacts ==
  ASSUME OrderInv, Working, call.path # <<>>
  PROVE  LET q == AbovePid
         IN /\ q \in Tree /\ q # call.pid /\ page[q] = Last(call.path).node
            /\ page[q].kind = "inner" /\ page[q] \in ProperNodes
            /\ \E e \in ToSet(page[q].entries) : e.ptr = call.pid
            /\ Len(call.path) \in Nat /\ Len(call.path) > 0 /\ call.path[Len(call.path)].pid = q
            /\ Len(Front(call.path)) = Len(call.path) - 1
            /\ \A h \in 1 .. Len(call.path) - 1 : Front(call.path)[h] = call.path[h]
            /\ \A h \in 1 .. Len(call.path) : call.path[h].pid # call.pid
<1>1. call \in CallSet /\ treeHeight \in Nat /\ page \in Seq(ProperNodes)
  BY DEF OrderInv, BalanceInv, TypeInv, CallOK, MemoryOK
<1>2. call.path \in Seq(Path) /\ Len(call.path) \in Nat
  BY <1>1, CallFields
<1> DEFINE t == Len(call.path)
           q == AbovePid
<1>3. t \in Nat /\ t > 0 /\ t \in 1 .. t
  BY <1>2
<1>4. Last(call.path) = call.path[t] /\ q = call.path[t].pid
  BY DEF Last, AbovePid
<1>5. PICK d : DepthOK(d)
  BY DEF OrderInv, BalanceInv
<1>6. /\ At(d, call.pid, Here) /\ NodeAt(d, call.node, Here)
      /\ \A h \in 1 .. t :
           /\ At(d, call.path[h].pid, treeHeight - h + 1)
           /\ NodeAt(d, call.path[h].node, treeHeight - h + 1)
  BY <1>5 DEF DepthOK, CallAt, Working
<1>7. Here = treeHeight - t /\ Here \in Nat \ {0}
  BY <1>6 DEF NodeAt, Here
<1>8. q \in Tree /\ page[q] = call.path[t].node /\ \E e \in ToSet(page[q].entries) : e.ptr = call.pid
  BY <1>3, <1>4 DEF OrderInv, PathIn, Next1
<1>9. Len(Front(call.path)) = t - 1 /\ \A h \in 1 .. t - 1 : Front(call.path)[h] = call.path[h]
  BY <1>2, <1>3 DEF Front
<1> HIDE DEF t, q
<1>10. \A h \in 1 .. t : call.path[h].pid # call.pid
  <2> SUFFICES ASSUME NEW h \in 1 .. t, call.path[h].pid = call.pid PROVE FALSE
    OBVIOUS
  <2>1. treeHeight - h + 1 = treeHeight - t
    BY <1>6, <1>7 DEF At
  <2> QED BY <1>1, <1>3, <2>1
<1>11. page[q].kind = "inner"
  <2>1. treeHeight - t + 1 # 1
    BY <1>1, <1>3, <1>7
  <2> QED BY <1>3, <1>6, <1>8, <2>1 DEF NodeAt
<1>12. page[q] \in ProperNodes
  BY <1>1, <1>8 DEF Tree
<1> QED BY <1>3, <1>4, <1>8, <1>9, <1>10, <1>11, <1>12 DEF t, q

LEMMA NodeKind ==
  ASSUME OrderInv, Working
  PROVE  page[call.pid].kind = call.node.kind /\ (AtLeaf <=> ~AtInner)
         /\ (AtInner <=> call.node.kind = "inner")
<1>1. call.node.kind \in {"leaf", "inner"}
  BY NodesFacts, NodeFacts, ProperFacts DEF OrderInv, BalanceInv, Working
<1> QED BY <1>1 DEF OrderInv, LeafWork, InnerWork, AtLeaf, AtInner

LEMMA AboveUp ==
  ASSUME OrderInv, Working, NEW lo, NEW hi, NEW up, NEW far, OrderOK(lo, hi, up, far)
  PROVE  /\ up[call.pid] = AbovePid /\ Height = treeHeight /\ Height > 0 /\ Root = rootPid
         /\ call.path = <<>> => /\ call.pid = rootPid /\ lo[call.pid] = INT_MIN
                                /\ hi[call.pid] = Top
         /\ call.path # <<>> => call.pid # rootPid
<1>1. call.pc = "nodes" /\ mode = "w" /\ treeHeight > 0
  BY DEF Working, OrderInv, BalanceInv, TypeInv, CallOK
<1>2. Height = treeHeight /\ Height > 0 /\ Root = rootPid
  BY <1>1 DEF Height, Root
<1>3. up[rootPid] = 0 /\ lo[rootPid] = INT_MIN /\ hi[rootPid] = Top
  BY <1>1, <1>2 DEF OrderOK, RootIn
<1>4. CASE call.path = <<>>
  <2>1. rootPid = call.pid
    BY <1>4 DEF OrderInv, PathIn
  <2> QED BY <1>2, <1>3, <1>4, <2>1 DEF AbovePid
<1>5. CASE call.path # <<>>
  <2> DEFINE q == AbovePid
  <2>1. /\ q \in Tree /\ q # call.pid /\ page[q].kind = "inner"
        /\ \E e \in ToSet(page[q].entries) : e.ptr = call.pid
    BY <1>5, AboveFacts
  <2> HIDE DEF q
  <2>2. KidsIn(lo, hi, up, q, page[q].entries, lo[q], hi[q])
    BY <2>1 DEF OrderOK, PagesIn, NodeIn, InnerIn
  <2>3. PICK i \in 1 .. Len(page[q].entries) : page[q].entries[i].ptr = call.pid
    BY <2>1 DEF ToSet
  <2>4. up[call.pid] = q
    BY <2>2, <2>3 DEF KidsIn
  <2>5. q # 0
    BY <2>1 DEF Tree
  <2> QED BY <1>2, <1>3, <1>5, <2>4, <2>5 DEF q
<1> QED BY <1>4, <1>5

\* Page x, on which n is, is for the keys from lo[x] to hi[x].
PageIn(lo, hi, up, x, n) ==
  /\ lo[x] <= hi[x] /\ (lo[x] = INT_MIN \/ lo[x] > 0)
  /\ NodeIn(lo, hi, up, x, n, lo[x], hi[x])

LEMMA UnsplitPages ==
  ASSUME OrderInv, NodeWritten, ~Split,
         NEW lo, NEW hi, NEW up, NEW far, OrderOK(lo, hi, up, far)
  PROVE  \A x \in 1 .. Len(page) : PageIn(lo, hi, up, x, page'[x])
<1>1. /\ Working /\ Tree = 1 .. Len(page) /\ ~(call.sepKey > 0)
      /\ page'[call.pid] = call.node /\ call.pid \in Tree
      /\ \A x \in 1 .. Len(page) : x # call.pid => page'[x] = page[x]
  BY NodeSets
<1>2. NodeIn(lo, hi, up, call.pid, call.node, lo[call.pid], hi[call.pid])
  BY <1>1 DEF OrderOK, CallIn
<1> QED BY <1>1, <1>2 DEF OrderOK, PagesIn, PageIn

LEMMA SplitPages ==
  ASSUME OrderInv, NodeWritten, Split,
         NEW lo, NEW hi, NEW up, NEW far, OrderOK(lo, hi, up, far),
         NEW lo2, lo2 = LoSplit(lo, call.sepPid, call.sepKey),
         NEW hi2, hi2 = HiSplit(hi, call.pid, call.sepPid, call.sepKey),
         NEW up2, \A x \in Nat : x # call.sepPid /\ up[x] # AbovePid => up2[x] = up[x]
  PROVE  \A x \in 1 .. Len(page) : x # AbovePid => PageIn(lo2, hi2, up2, x, page'[x])
<1> DEFINE p == call.pid
           sp == call.sepPid
           k == call.sepKey
           q == AbovePid
           w == call.node
<1>1. /\ Working /\ TypeInv /\ p \in Tree /\ p \in 1 .. Len(page) /\ w \in Nodes
      /\ page'[p] = w
      /\ \A x \in 1 .. Len(page) : page[x] \in Nodes /\ (x # p => page'[x] = page[x])
      /\ Tree \subseteq 1 .. Len(page) /\ k > 0 /\ k \in Int
      /\ sp \in 1 .. Len(page) /\ sp \notin Tree /\ Tree \cup {sp} = 1 .. Len(page)
      /\ Sibling = page[sp] /\ SiblingPid = sp /\ Len(page) \in Nat
  <2>1. k \in Int
    BY NodeSets, CallFields
  <2> QED BY <2>1, NodeSets DEF ProperNodes
<1>2. Ghosts(lo, hi, up, far) /\ PagesIn(lo, hi, up) /\ CallIn(lo, hi, up)
  BY DEF OrderOK
<1>3. p \in Nat /\ sp \in Nat /\ p # sp /\ sp # 0 /\ up[sp] = 0 /\ up[p] = q
  <2>1. p \in Nat /\ sp \in Nat /\ p # sp /\ sp # 0
    BY <1>1
  <2>2. up[sp] = 0
    BY <1>1, <1>2, <2>1 DEF PagesIn
  <2> QED BY <1>1, <2>1, <2>2, AboveUp
<1>4. q # sp /\ q # p
  <2>1. CASE call.path = <<>>
    <3>1. q = 0
      BY <2>1 DEF AbovePid
    <3> QED BY <1>1, <1>3, <3>1
  <2>2. CASE call.path # <<>>
    BY <1>1, <2>2, AboveFacts
  <2> QED BY <2>1, <2>2
<1>5. /\ lo[p] <= k /\ k < hi[p]
      /\ NodeIn(lo, hi, up, p, w, lo[p], k)
      /\ NodeIn(lo, hi, up, sp, page[sp], k, hi[p])
  BY <1>1, <1>2 DEF CallIn
<1> HIDE DEF p, sp, k, q, w
<1>6. /\ \A x \in Nat : lo2[x] = IF x = sp THEN k ELSE lo[x]
      /\ \A x \in Nat : hi2[x] = IF x = p THEN k ELSE IF x = sp THEN hi[p] ELSE hi[x]
  <2>1. lo2 = LoSplit(lo, sp, k) /\ hi2 = HiSplit(hi, p, sp, k)
    BY DEF p, sp, k
  <2>2. lo \in [Nat -> Int] /\ hi \in [Nat -> Int] /\ k \in Int
    BY <1>1, <1>2 DEF Ghosts
  <2>3. \A x \in Nat : lo2[x] = IF x = sp THEN k ELSE lo[x]
    BY <1>3, <2>1, <2>2 DEF LoSplit
  <2>4. \A x \in Nat : hi2[x] = IF x = p THEN k ELSE IF x = sp THEN hi[p] ELSE hi[x]
    BY <1>3, <2>1, <2>2 DEF HiSplit
  <2> QED BY <2>3, <2>4
<1>7. ASSUME NEW x \in Nat, x # q, x # 0
      PROVE  \A y \in Nat : up[y] = x => lo2[y] = lo[y] /\ hi2[y] = hi[y] /\ up2[y] = x
  <2> SUFFICES ASSUME NEW y \in Nat, up[y] = x
               PROVE  lo2[y] = lo[y] /\ hi2[y] = hi[y] /\ up2[y] = x
    OBVIOUS
  <2>1. y # p /\ y # sp
    BY <1>3, <1>7
  <2>2. up2[y] = up[y]
    BY <1>7, <2>1 DEF sp, q
  <2> QED BY <1>6, <2>1, <2>2
<1>8. lo[p] \in Int /\ hi[p] \in Int /\ k \in Int /\ p # 0
  BY <1>1, <1>2, <1>3 DEF Ghosts
<1>9. PageIn(lo2, hi2, up2, p, w)
  <2>1. NodeIn(lo2, hi2, up2, p, w, lo[p], k)
    BY <1>1, <1>3, <1>4, <1>5, <1>7, <1>8, KidsStay
  <2>2. lo2[p] = lo[p] /\ hi2[p] = k
    BY <1>3, <1>6
  <2>3. lo[p] = INT_MIN \/ lo[p] > 0
    BY <1>1, <1>2 DEF PagesIn
  <2> QED BY <1>5, <2>1, <2>2, <2>3 DEF PageIn
<1>10. PageIn(lo2, hi2, up2, sp, page[sp])
  <2>1. NodeIn(lo2, hi2, up2, sp, page[sp], k, hi[p])
    BY <1>1, <1>3, <1>4, <1>5, <1>7, <1>8, KidsStay
  <2>2. lo2[sp] = k /\ hi2[sp] = hi[p]
    BY <1>3, <1>6
  <2>3. k <= hi[p]
    BY <1>5, <1>8
  <2> QED BY <1>1, <2>1, <2>2, <2>3 DEF PageIn
<1>11. ASSUME NEW x \in 1 .. Len(page), x # q, x # p, x # sp
       PROVE  PageIn(lo2, hi2, up2, x, page[x])
  <2>1. x \in Nat /\ x # 0 /\ x \in Tree /\ page[x] \in Nodes
    BY <1>1, <1>11
  <2>2. PageIn(lo, hi, up, x, page[x])
    BY <1>2, <1>11, <2>1 DEF PagesIn, PageIn, p
  <2>3. NodeIn(lo2, hi2, up2, x, page[x], lo[x], hi[x])
    BY <1>7, <1>11, <2>1, <2>2, KidsStay DEF PageIn
  <2>4. lo2[x] = lo[x] /\ hi2[x] = hi[x]
    BY <1>6, <1>11, <2>1
  <2> QED BY <2>2, <2>3, <2>4 DEF PageIn
<1> QED BY <1>1, <1>3, <1>9, <1>10, <1>11 DEF q

LEMMA NotEmpty ==
  ASSUME OrderInv, NodeWritten
  PROVE  page # <<>> /\ page' # <<>>
<1>1. call.pid \in 1 .. Len(page) /\ Len(page) \in Nat /\ Len(page') = Len(page)
  BY NodeSets
<1>2. Len(page) # 0
  BY <1>1
<1> QED BY <1>1, <1>2

\* Unless a leaf has been split, the chain is as before.
LEMMA SameLinks ==
  ASSUME OrderInv, NodeWritten, Orphan' = {}, Tree' = 1 .. Len(page), AtLeaf => ~Split,
         NEW lo, NEW hi, NEW up, NEW far, OrderOK(lo, hi, up, far),
         NEW lo2, NEW hi2, \A x \in Linked : lo2[x] = lo[x] /\ hi2[x] = hi[x]
  PROVE  Linked' = Linked /\ LinksIn(lo2, hi2, far)'
<1> DEFINE p == call.pid
<1>1. /\ Working /\ p \in Tree /\ p \in 1 .. Len(page) /\ page'[p] = call.node
      /\ \A x \in 1 .. Len(page) : x # p => page'[x] = page[x]
      /\ Tree \subseteq 1 .. Len(page) /\ Len(page') = Len(page) /\ Len(page) \in Nat
      /\ Split => /\ call.sepPid \notin Tree
                  /\ Tree \cup {call.sepPid} = 1 .. Len(page) /\ Orphan # {}
                  /\ Sibling = page[call.sepPid] /\ SiblingPid = call.sepPid
      /\ ~Split => Tree = 1 .. Len(page) /\ Orphan = {}
  BY NodeSets
<1>2. page[p].kind = call.node.kind /\ (AtLeaf <=> ~AtInner) /\ (AtInner <=> call.node.kind = "inner")
  BY <1>1, NodeKind
<1>3. LinksIn(lo, hi, far) /\ CallIn(lo, hi, up) /\ Ghosts(lo, hi, up, far)
  BY DEF OrderOK
<1>4. Split => page[call.sepPid].kind = "inner" /\ call.sepPid # p
  <2>1. Split => call.sepKey > 0 /\ AtInner
    BY <1>2 DEF Split
  <2> QED BY <1>1, <1>2, <1>3, <2>1 DEF CallIn
<1>5. \A x \in 1 .. Len(page) : page'[x].kind = page[x].kind
  BY <1>1, <1>2
<1>6. Linked' = Linked
  BY <1>1, <1>4, <1>5 DEF Linked
<1>7. \A x \in Linked : x \in Tree /\ x \in 1 .. Len(page) /\ page'[x].next = page[x].next
  <2> SUFFICES ASSUME NEW x \in Linked
               PROVE  x \in Tree /\ x \in 1 .. Len(page) /\ page'[x].next = page[x].next
    OBVIOUS
  <2>1. x \in Tree /\ x \in 1 .. Len(page) /\ page[x].kind = "leaf"
    BY <1>1 DEF Linked
  <2>2. CASE x = p
    <3>1. AtLeaf /\ ~Split
      BY <1>1, <1>2, <2>1, <2>2 DEF AtLeaf
    <3>2. call.node.next = page[p].next
      BY <3>1 DEF OrderInv, LeafWork
    <3> QED BY <1>1, <2>1, <2>2, <3>2
  <2> QED BY <1>1, <2>1, <2>2
<1>8. page # <<>>
  BY NotEmpty
<1>9. \A x \in Linked : far[x] \in Nat /\ far[x] <= Len(page)
  <2> SUFFICES ASSUME NEW x \in Linked PROVE far[x] \in Nat /\ far[x] <= Len(page)
    OBVIOUS
  <2>1. far[x] \in Nat
    BY <1>3, <1>7 DEF Ghosts
  <2>2. far[x] <= IF Orphan = {} THEN Len(page) ELSE Len(page) - 1
    BY <1>3 DEF LinksIn
  <2> QED BY <1>1, <2>1, <2>2
<1>10. /\ 1 \in Linked
       /\ \A x \in Linked :
            /\ far[x] > 0 /\ far[x] <= far[1]
            /\ IF page[x].next = 0 THEN far[x] = 1
               ELSE page[x].next \in Linked /\ far[x] = far[page[x].next] + 1
       /\ \A x, y \in Linked :
            /\ far[x] = far[y] => x = y
            /\ far[x] > far[y] => hi[x] <= lo[y]
  BY <1>3, <1>8 DEF LinksIn
<1>11. /\ 1 \in Linked'
       /\ \A x \in Linked' :
            /\ far[x] > 0 /\ far[x] <= far[1] /\ far[x] <= Len(page')
            /\ IF page'[x].next = 0 THEN far[x] = 1
               ELSE page'[x].next \in Linked' /\ far[x] = far[page'[x].next] + 1
  <2>1. \A x \in Linked : far[x] <= Len(page')
    BY <1>1, <1>9
  <2> QED BY <1>6, <1>7, <1>10, <2>1
<1>12. \A x, y \in Linked' :
         /\ far[x] = far[y] => x = y
         /\ far[x] > far[y] => hi2[x] <= lo2[y]
  BY <1>6, <1>10
<1> QED BY <1>6, <1>11, <1>12 DEF LinksIn

\* How far the leaves are from the end when sp has come behind p.
Farther(far, p, sp) ==
  [x \in Nat |-> IF x = sp THEN far[p] ELSE IF far[x] >= far[p] THEN far[x] + 1 ELSE far[x]]

\* The chain L with the next pointers nx, each leaf for the keys from lo to hi.
Chain(L, nx, lo, hi, far, max) ==
  /\ 1 \in L
  /\ \A x \in L :
       /\ far[x] > 0 /\ far[x] <= far[1] /\ far[x] <= max
       /\ IF nx[x] = 0 THEN far[x] = 1 ELSE nx[x] \in L /\ far[x] = far[nx[x]] + 1
  /\ \A x, y \in L :
       /\ far[x] = far[y] => x = y
       /\ far[x] > far[y] => hi[x] <= lo[y]

LEMMA ChainGrows ==
  ASSUME NEW L, L \subseteq Nat, NEW max \in Int, NEW nx, NEW nx2,
         NEW lo \in [Nat -> Int], NEW hi \in [Nat -> Int], NEW far \in [Nat -> Nat],
         Chain(L, nx, lo, hi, far, max),
         NEW p \in L, NEW sp \in Nat, sp # 0, sp \notin L,
         NEW k \in Int, lo[p] <= k, k < hi[p],
         nx2[p] = sp, nx2[sp] = nx[p], \A x \in L : x # p => nx2[x] = nx[x]
  PROVE  Chain(L \cup {sp}, nx2, LoSplit(lo, sp, k), HiSplit(hi, p, sp, k),
               Farther(far, p, sp), max + 1)
<1> DEFINE lo2 == LoSplit(lo, sp, k)
           hi2 == HiSplit(hi, p, sp, k)
           far2 == Farther(far, p, sp)
           M == L \cup {sp}
<1>1. \A x \in L : lo2[x] = lo[x] /\ lo[x] \in Int
  BY DEF LoSplit
<1>2. lo2[sp] = k
  BY DEF LoSplit
<1>3. \A x \in L : hi2[x] = (IF x = p THEN k ELSE hi[x]) /\ hi[x] \in Int
  BY DEF HiSplit
<1>4. hi2[sp] = hi[p]
  BY DEF HiSplit
<1>5. \A x \in L : far2[x] = IF far[x] >= far[p] THEN far[x] + 1 ELSE far[x]
  BY DEF Farther
<1>6. far2[sp] = far[p] /\ \A x \in L : far[x] \in Nat
  BY DEF Farther
<1> HIDE DEF lo2, hi2, far2
<1>7. /\ 1 \in L
      /\ \A x \in L :
           /\ far[x] > 0 /\ far[x] <= far[1] /\ far[x] <= max
           /\ IF nx[x] = 0 THEN far[x] = 1 ELSE nx[x] \in L /\ far[x] = far[nx[x]] + 1
      /\ \A x, y \in L :
           /\ far[x] = far[y] => x = y
           /\ far[x] > far[y] => hi[x] <= lo[y]
  BY DEF Chain
<1>8. ASSUME NEW x \in L PROVE far2[x] > 0 /\ far2[x] <= far2[1] /\ far2[x] <= max + 1
  BY <1>5, <1>6, <1>7
<1>9. far2[sp] > 0 /\ far2[sp] <= far2[1] /\ far2[sp] <= max + 1
  BY <1>5, <1>6, <1>7
<1>10. ASSUME NEW x \in L, x # p
       PROVE  IF nx2[x] = 0 THEN far2[x] = 1 ELSE nx2[x] \in L /\ far2[x] = far2[nx2[x]] + 1
  <2>1. nx2[x] = nx[x] /\ far[x] # far[p] /\ far[p] > 0 /\ far[x] > 0
    BY <1>7, <1>10
  <2>2. CASE nx[x] = 0
    <3>1. far[x] = 1 /\ far[x] < far[p]
      BY <1>6, <1>7, <2>1, <2>2
    <3> QED BY <1>5, <1>6, <2>1, <2>2, <3>1
  <2>3. CASE nx[x] # 0
    <3>1. nx[x] \in L /\ far[x] = far[nx[x]] + 1
      BY <1>7, <2>3
    <3> DEFINE m == nx[x]
    <3>2. far[m] \in Nat /\ far[x] \in Nat /\ far[p] \in Nat
      BY <1>6, <3>1
    <3>3. far[x] >= far[p] <=> far[m] >= far[p]
      BY <2>1, <3>1, <3>2
    <3>4. /\ far2[x] = IF far[x] >= far[p] THEN far[x] + 1 ELSE far[x]
          /\ far2[m] = IF far[m] >= far[p] THEN far[m] + 1 ELSE far[m]
      BY <1>5, <3>1
    <3> HIDE DEF m
    <3>5. far2[x] = far2[m] + 1
      BY <3>1, <3>2, <3>3, <3>4 DEF m
    <3> QED BY <2>1, <2>3, <3>1, <3>5 DEF m
  <2> QED BY <2>2, <2>3
<1>11. nx2[p] = sp /\ far2[p] = far2[sp] + 1
  BY <1>5, <1>6
<1>12. IF nx2[sp] = 0 THEN far2[sp] = 1 ELSE nx2[sp] \in L /\ far2[sp] = far2[nx2[sp]] + 1
  <2>1. CASE nx[p] = 0
    BY <1>6, <1>7, <2>1
  <2>2. CASE nx[p] # 0
    <3> DEFINE m == nx[p]
    <3>1. m \in L /\ far[p] = far[m] + 1
      BY <1>7, <2>2
    <3>2. far2[m] = IF far[m] >= far[p] THEN far[m] + 1 ELSE far[m]
      BY <1>5, <3>1
    <3> HIDE DEF m
    <3>3. far2[m] = far[m] /\ far[m] \in Nat
      BY <1>6, <3>1, <3>2
    <3>4. far2[sp] = far2[m] + 1
      BY <1>6, <3>1, <3>3
    <3> QED BY <2>2, <3>1, <3>4 DEF m
  <2> QED BY <2>1, <2>2
<1>13. \A x \in L : far2[x] # far2[sp]
  BY <1>5, <1>6
<1>14. \A x, y \in L : far2[x] = far2[y] => x = y
  <2> SUFFICES ASSUME NEW x \in L, NEW y \in L, far2[x] = far2[y] PROVE x = y
    OBVIOUS
  <2>1. far[x] \in Nat /\ far[y] \in Nat /\ far[p] \in Nat
    BY <1>6
  <2>2. far[x] = far[y]
    BY <1>5, <2>1
  <2> QED BY <1>7, <2>2
<1>15. ASSUME NEW x \in L, NEW y \in L, far2[x] > far2[y] PROVE hi2[x] <= lo2[y]
  <2>1. far[x] > far[y]
    BY <1>5, <1>6, <1>15
  <2>2. hi[x] <= lo[y]
    BY <1>7, <2>1
  <2> QED BY <1>1, <1>3, <2>2
<1>16. ASSUME NEW x \in L, far2[x] > far2[sp] PROVE hi2[x] <= lo2[sp]
  <2>1. CASE x = p
    BY <1>2, <1>3, <2>1
  <2>2. CASE x # p
    <3>1. far[x] > far[p]
      <4>1. far[x] # far[p]
        BY <1>7, <2>2
      <4>2. far[x] \in Nat /\ far[p] \in Nat
        BY <1>6
      <4> QED BY <1>5, <1>6, <1>16, <4>1, <4>2
    <3>2. hi[x] <= lo[p]
      BY <1>7, <3>1
    <3> QED BY <1>1, <1>2, <1>3, <2>2, <3>2
  <2> QED BY <2>1, <2>2
<1>17. ASSUME NEW y \in L, far2[sp] > far2[y] PROVE hi2[sp] <= lo2[y]
  <2>1. far[p] > far[y]
    BY <1>5, <1>6, <1>17
  <2>2. hi[p] <= lo[y]
    BY <1>7, <2>1
  <2> QED BY <1>1, <1>4, <2>2
<1>18. \A x \in M :
         /\ far2[x] > 0 /\ far2[x] <= far2[1] /\ far2[x] <= max + 1
         /\ IF nx2[x] = 0 THEN far2[x] = 1 ELSE nx2[x] \in M /\ far2[x] = far2[nx2[x]] + 1
  BY <1>8, <1>9, <1>10, <1>11, <1>12
<1>19. \A x, y \in M : far2[x] = far2[y] => x = y
  BY <1>13, <1>14
<1>20. \A x, y \in M : far2[x] > far2[y] => hi2[x] <= lo2[y]
  <2>1. ~(far2[sp] > far2[sp])
    BY <1>6
  <2> QED BY <1>15, <1>16, <1>17, <2>1
<1>21. Chain(M, nx2, lo2, hi2, far2, max + 1)
  BY <1>7, <1>18, <1>19, <1>20 DEF Chain
<1> QED BY <1>21 DEF lo2, hi2, far2

\* The new leaf comes behind the one that was split.
LEMMA SplitLinks ==
  ASSUME OrderInv, NodeWritten, Orphan' = {}, Tree' = 1 .. Len(page), AtLeaf, Split,
         NEW lo, NEW hi, NEW up, NEW far, OrderOK(lo, hi, up, far),
         NEW lo2, lo2 = LoSplit(lo, call.sepPid, call.sepKey),
         NEW hi2, hi2 = HiSplit(hi, call.pid, call.sepPid, call.sepKey),
         NEW far2, far2 = Farther(far, call.pid, call.sepPid)
  PROVE  Linked' = Linked \cup {call.sepPid} /\ LinksIn(lo2, hi2, far2)'
<1> DEFINE p == call.pid
           sp == call.sepPid
           k == call.sepKey
           nx == [x \in Nat |-> page[x].next]
           nx2 == [x \in Nat |-> page'[x].next]
           max == Len(page) - 1
<1>1. /\ Working /\ p \in Tree /\ p \in 1 .. Len(page) /\ page'[p] = call.node
      /\ \A x \in 1 .. Len(page) : x # p => page'[x] = page[x]
      /\ Tree \subseteq 1 .. Len(page) /\ Len(page') = Len(page) /\ Len(page) \in Nat
      /\ sp \notin Tree /\ sp \in 1 .. Len(page) /\ k > 0 /\ k \in Int
      /\ Tree \cup {sp} = 1 .. Len(page) /\ Orphan # {}
      /\ Sibling = page[sp] /\ SiblingPid = sp
  <2>1. k \in Int
    BY NodeSets, CallFields
  <2> QED BY <2>1, NodeSets
<1>2. call.node.kind = "leaf" /\ page[p].kind = "leaf" /\ call.sibling = NoNode
  BY <1>1, NodeKind DEF AtLeaf, NodeWritten
<1>3. LinksIn(lo, hi, far) /\ CallIn(lo, hi, up) /\ Ghosts(lo, hi, up, far)
  BY DEF OrderOK
<1>4. page[sp].kind = "leaf" /\ lo[p] <= k /\ k < hi[p]
  BY <1>1, <1>2, <1>3 DEF CallIn
<1>5. page'[p].next = sp /\ page[sp].next = page[p].next
  BY <1>1, <1>2 DEF OrderInv, LeafWork
<1>6. p # sp
  BY <1>1
<1>7. Linked' = Linked \cup {sp} /\ Linked \subseteq Tree /\ sp \notin Linked /\ p \in Linked
  <2>1. \A x \in 1 .. Len(page) : page'[x].kind = page[x].kind
    BY <1>1, <1>2
  <2>2. Linked' = {x \in 1 .. Len(page) : page[x].kind = "leaf"}
    BY <2>1 DEF Linked
  <2>3. Linked = {x \in Tree : page[x].kind = "leaf"}
    BY DEF Linked
  <2> QED BY <1>1, <1>2, <1>4, <2>2, <2>3
<1>8. Linked \subseteq Nat /\ p \in Nat /\ sp \in Nat /\ sp # 0 /\ max \in Int
  BY <1>1, <1>7
<1>9. Chain(Linked, nx, lo, hi, far, max)
  <2>1. page # <<>>
    BY NotEmpty
  <2>2. \A x \in Linked : nx[x] = page[x].next
    BY <1>8
  <2> HIDE DEF nx
  <2> QED BY <1>1, <1>3, <2>1, <2>2 DEF LinksIn, Chain
<1>10. nx2[p] = sp /\ nx2[sp] = nx[p] /\ \A x \in Linked : x # p => nx2[x] = nx[x]
  BY <1>1, <1>5, <1>6, <1>7, <1>8
<1>11. \A x \in Linked' : nx2[x] = page'[x].next
  BY <1>7, <1>8
<1>12. lo2 = LoSplit(lo, sp, k) /\ hi2 = HiSplit(hi, p, sp, k) /\ far2 = Farther(far, p, sp)
  OBVIOUS
<1>13. /\ lo \in [Nat -> Int] /\ hi \in [Nat -> Int] /\ far \in [Nat -> Nat]
  BY <1>3 DEF Ghosts
<1> HIDE DEF nx, nx2
<1>14. Chain(Linked \cup {sp}, nx2, LoSplit(lo, sp, k), HiSplit(hi, p, sp, k),
             Farther(far, p, sp), max + 1)
  <2> HIDE DEF p, sp, k, max
  <2> QED BY <1>1, <1>4, <1>7, <1>8, <1>9, <1>10, <1>13, ChainGrows
<1>15. Chain(Linked', nx2, lo2, hi2, far2, Len(page'))
  <2>1. Len(page) \in Nat /\ Len(page') = Len(page)
    BY <1>1
  <2>2. max + 1 = Len(page')
    <3> HIDE DEF nx, nx2, p, sp, k
    <3> QED BY <2>1
  <2> QED BY <1>7, <1>12, <1>14, <2>2
<1>16. Linked' = Linked \cup {call.sepPid}
  BY <1>7
<1> HIDE DEF nx, nx2, p, sp, k, max
<1>17. \A x \in Linked' :
         /\ far2[x] > 0 /\ far2[x] <= far2[1] /\ far2[x] <= Len(page')
         /\ IF page'[x].next = 0 THEN far2[x] = 1
            ELSE page'[x].next \in Linked' /\ far2[x] = far2[page'[x].next] + 1
  BY <1>11, <1>15 DEF Chain
<1>18. \A x, y \in Linked' :
         /\ far2[x] = far2[y] => x = y
         /\ far2[x] > far2[y] => hi2[x] <= lo2[y]
  BY <1>15 DEF Chain
<1>19. 1 \in Linked'
  BY <1>15 DEF Chain
<1> QED BY <1>16, <1>17, <1>18, <1>19 DEF LinksIn

LEMMA PairsWritten ==
  ASSUME OrderInv, NodeWritten, Placed', call'.key = call.key, call'.rid = call.rid,
         Linked' = IF AtLeaf /\ Split THEN Linked \cup {call.sepPid} ELSE Linked
  PROVE  PairsIn'
<1> DEFINE p == call.pid
           sp == call.sepPid
<1>1. /\ Working /\ p \in Tree /\ page'[p] = call.node
      /\ \A x \in 1 .. Len(page) : x # p => page'[x] = page[x]
      /\ Tree \subseteq 1 .. Len(page)
      /\ Split => sp \notin Tree /\ sp \in 1 .. Len(page) /\ Sibling = page[sp]
  BY NodeSets
<1>2. /\ page[p].kind = call.node.kind /\ (AtLeaf <=> ~AtInner) /\ (AtInner <=> call.node.kind = "inner")
  BY <1>1, NodeKind
<1>3. Linked \subseteq Tree /\ (AtLeaf => p \in Linked) /\ (AtInner => p \notin Linked)
  <2>1. AtLeaf => call.node.kind = "leaf"
    BY DEF AtLeaf
  <2> QED BY <1>1, <1>2, <2>1 DEF Linked
<1>4. Pair' = Pair /\ Pair.ptr = call.rid
  BY DEF Pair, Entry
<1>5. call.pc # "idle" /\ call'.pc # "idle" /\ \A e \in done : e.ptr < call.rid
  BY <1>1 DEF Working, OrderInv, PairsIn, Placed, AtInner, NodeWritten
<1>6. done' = done /\ PairsApart /\ \A e \in done : e.ptr < call'.rid
  BY <1>5 DEF NodeWritten, OrderInv, PairsIn
<1>7. CASE AtInner
  <2>1. Linked' = Linked /\ \A x \in Linked : page'[x] = page[x]
    BY <1>1, <1>2, <1>3, <1>7
  <2>2. LinkedPairs' = LinkedPairs /\ PairsApart'
    BY <1>6, <2>1, SamePairs
  <2>3. LinkedPairs = done \cup {Pair}
    BY <1>7 DEF OrderInv, PairsIn, Placed
  <2> QED BY <1>4, <1>6, <2>2, <2>3 DEF PairsIn
<1>8. CASE AtLeaf
  <2>1. LinkedPairs = done
    <3>1. ~Placed
      BY <1>1, <1>2, <1>8 DEF Placed, Working
    <3> QED BY <3>1 DEF OrderInv, PairsIn
  <2>2. Pair \notin LinkedPairs
    <3>1. call.rid \in Nat
      BY NodeSets, CallFields
    <3> QED BY <1>4, <1>5, <2>1, <3>1
  <2> DEFINE E(x) == ToSet(page[x].entries)
             F(x) == ToSet(page'[x].entries)
  <2>3. /\ LinkedPairs = UNION {E(x) : x \in Linked} /\ LinkedPairs' = UNION {F(x) : x \in Linked'}
        /\ \A x : Entries(x) = E(x)
    BY DEF LinkedPairs, Entries
  <2>4. PairsApart' <=> \A x \in Linked' :
          /\ IsInjective(page'[x].entries)
          /\ \A y \in Linked' : x # y => F(x) \cap F(y) = {}
    BY DEF PairsApart, Entries
  <2>5. \A x \in Linked :
          /\ IsInjective(page[x].entries) /\ Pair \notin E(x)
          /\ \A y \in Linked : x # y => E(x) \cap E(y) = {}
    <3>1. \A x \in Linked : E(x) \subseteq LinkedPairs
      BY <2>3
    <3> QED BY <1>6, <2>2, <3>1 DEF PairsApart, Entries
  <2>6. \A x \in Linked : x # p => page'[x] = page[x] /\ F(x) = E(x)
    BY <1>1, <1>3
  <2>7. page'[p].entries = call.node.entries /\ IsInjective(call.node.entries)
        /\ F(p) = ToSet(call.node.entries) /\ p \in Linked
    BY <1>1, <1>3, <1>8 DEF OrderInv, LeafWork
  <2>8. CASE ~Split
    <3>1. Linked' = Linked /\ F(p) = E(p) \cup {Pair}
      BY <1>8, <2>3, <2>7, <2>8 DEF OrderInv, LeafWork
    <3> HIDE DEF E, F
    <3>2. LinkedPairs' = LinkedPairs \cup {Pair}
      BY <2>3, <2>6, <2>7, <3>1
    <3>3. PairsApart'
      BY <2>4, <2>5, <2>6, <2>7, <3>1
    <3> QED BY <1>4, <1>6, <2>1, <3>2, <3>3 DEF PairsIn
  <2>9. CASE Split
    <3>1. /\ Linked' = Linked \cup {sp} /\ sp \notin Linked /\ sp # p
          /\ page'[sp] = page[sp] /\ F(sp) = ToSet(Sibling.entries)
          /\ page'[sp].entries = Sibling.entries
      BY <1>1, <1>3, <1>8, <2>9
    <3>2. /\ F(p) \cup F(sp) = E(p) \cup {Pair} /\ F(p) \cap F(sp) = {}
          /\ IsInjective(page'[sp].entries)
      BY <1>8, <2>3, <2>7, <2>9, <3>1 DEF OrderInv, LeafWork
    <3> HIDE DEF E, F
    <3>3. LinkedPairs' = LinkedPairs \cup {Pair}
      <4>1. LinkedPairs' = (UNION {F(x) : x \in Linked \ {p}}) \cup (F(p) \cup F(sp))
        BY <2>3, <2>7, <3>1
      <4>2. LinkedPairs = (UNION {E(x) : x \in Linked \ {p}}) \cup E(p)
        BY <2>3, <2>7
      <4>3. (UNION {F(x) : x \in Linked \ {p}}) = UNION {E(x) : x \in Linked \ {p}}
        BY <2>6
      <4> QED BY <3>2, <4>1, <4>2, <4>3
    <3>4. PairsApart'
      <4>1. \A x \in Linked : x # p => F(x) \cap F(p) = {} /\ F(x) \cap F(sp) = {}
        BY <2>5, <2>6, <2>7, <3>2
      <4>2. \A x, y \in Linked : x # p /\ y # p /\ x # y => F(x) \cap F(y) = {}
        BY <2>5, <2>6
      <4>3. \A x \in Linked' : IsInjective(page'[x].entries)
        BY <2>5, <2>6, <2>7, <3>1, <3>2
      <4>4. \A x, y \in Linked' : x # y => F(x) \cap F(y) = {}
        BY <3>1, <3>2, <4>1, <4>2
      <4> QED BY <2>4, <4>3, <4>4
    <3> QED BY <1>4, <1>6, <2>1, <3>3, <3>4 DEF PairsIn
  <2> QED BY <2>8, <2>9
<1> QED BY <1>1, <1>2, <1>7, <1>8

LEMMA UpParts ==
  ASSUME NEW c \in CallSet, c.pc = "nodes", c.rc = "OK"
  PROVE  /\ Up(c).rc = "OK"
         /\ c.path = <<>> =>
              /\ Up(c).pc = IF c.sepKey > 0 THEN "root" ELSE "return"
              /\ Up(c).sepKey = c.sepKey /\ Up(c).sepPid = c.sepPid
         /\ c.path # <<>> /\ ~(c.sepKey > 0) =>
              /\ Up(c).node = Last(c.path).node /\ Up(c).sibling = NoNode
              /\ Up(c).sepKey = c.sepKey
         /\ c.path # <<>> /\ c.sepKey > 0 =>
              \E d \in CallSet :
                Up(c) = Place(d, Last(c.path).pid, Last(c.path).node, Entry(c.sepKey, c.sepPid))
<1>1. CASE c.path = <<>>
  <2> DEFINE pc == IF c.rc = "OK" /\ c.sepKey > 0 THEN "root" ELSE "return"
  <2>1. pc = IF c.sepKey > 0 THEN "root" ELSE "return"
    OBVIOUS
  <2>2. Up(c) = [c EXCEPT !.pc = pc, !.node = NoNode, !.sibling = NoNode]
    BY <1>1 DEF Up
  <2> HIDE DEF pc
  <2>3. Up(c).rc = "OK" /\ Up(c).pc = pc /\ Up(c).sepKey = c.sepKey /\ Up(c).sepPid = c.sepPid
    BY <2>2 DEF CallSet
  <2> QED BY <1>1, <2>1, <2>3
<1>2. CASE c.path # <<>>
  <2> DEFINE above == Last(c.path)
             d == [c EXCEPT !.path = Front(@), !.rc = "OK"]
  <2>1. c.path \in Seq(Path) /\ Len(c.path) \in Nat /\ Len(c.path) > 0
    BY <1>2, CallFields
  <2>2. Front(c.path) \in Seq(Path)
    BY <2>1 DEF Front
  <2>3. d \in CallSet /\ d.rc = "OK" /\ d.sepKey = c.sepKey
    BY <2>2 DEF CallSet
  <2>4. Up(c) = IF c.sepKey > 0
                THEN Place(d, above.pid, above.node, Entry(c.sepKey, c.sepPid))
                ELSE [d EXCEPT !.pid = above.pid, !.node = above.node, !.sibling = NoNode]
    BY <1>2 DEF Up
  <2> HIDE DEF d, above
  <2>5. CASE c.sepKey > 0
    <3>1. Up(c) = Place(d, above.pid, above.node, Entry(c.sepKey, c.sepPid))
      BY <2>4, <2>5
    <3>2. Up(c).rc = "OK"
      BY <2>3, <3>1, PlaceParts
    <3> QED BY <1>2, <2>3, <2>5, <3>1, <3>2 DEF above
  <2>6. CASE ~(c.sepKey > 0)
    <3>1. Up(c) = [d EXCEPT !.pid = above.pid, !.node = above.node, !.sibling = NoNode]
      BY <2>4, <2>6
    <3>2. /\ Up(c).rc = "OK" /\ Up(c).node = above.node /\ Up(c).sibling = NoNode
          /\ Up(c).sepKey = c.sepKey
      BY <2>3, <3>1 DEF CallSet
    <3> QED BY <1>2, <2>6, <3>2 DEF above
  <2> QED BY <2>5, <2>6
<1> QED BY <1>1, <1>2

\* What insert() goes on with.
LEMMA AfterWrite ==
  ASSUME OrderInv, NodeWritten
  PROVE  /\ Orphan' = {} /\ Tree' = 1 .. Len(page) /\ Tree \subseteq Tree' /\ Placed'
         /\ call'.rc = "OK" /\ call'.key = call.key /\ call'.rid = call.rid
         /\ call'.pc \in {"nodes", "root", "return"}
         /\ call.path = <<>> =>
              /\ ~Working' /\ call'.pc = IF call.sepKey > 0 THEN "root" ELSE "return"
              /\ call'.sepKey = call.sepKey /\ call'.sepPid = call.sepPid
         /\ call.path # <<>> =>
              /\ Working' /\ AtInner' /\ ~AtLeaf' /\ call'.pc = "nodes"
              /\ call'.pid = AbovePid /\ call'.path = Front(call.path)
<1>1. /\ Working /\ call \in CallSet /\ call.pc = "nodes" /\ call' = Up(call)
      /\ Len(page') = Len(page) /\ Tree \subseteq 1 .. Len(page)
  BY NodeSets DEF NodeWritten
<1>2. call.rc = "OK"
  BY DEF OrderInv, NoFaultYet
<1>3. call'.rc = "OK" /\ call'.key = call.key /\ call'.rid = call.rid
  BY <1>1, <1>2, UpParts, UpFacts
<1>4. ASSUME call.path = <<>>
      PROVE  /\ call'.pc = IF call.sepKey > 0 THEN "root" ELSE "return"
             /\ call'.sepKey = call.sepKey /\ call'.sepPid = call.sepPid
  BY <1>1, <1>2, <1>4, UpParts
<1>5. ASSUME call.path # <<>>
      PROVE  /\ call'.pc = "nodes" /\ call'.path = Front(call.path) /\ call'.pid = AbovePid
             /\ call'.node.kind = "inner" /\ (call'.sibling = NoNode => ~(call'.sepKey > 0))
  <2>1. /\ call'.pc = "nodes" /\ call'.path = Front(call.path)
        /\ call'.pid = Last(call.path).pid /\ call'.node.kind = Last(call.path).node.kind
        /\ call'.sibling = NoNode => ~(call'.sepKey > 0)
    BY <1>1, <1>5, UpFacts
  <2>2. Last(call.path).node.kind = "inner"
    BY <1>1, <1>5, AboveFacts
  <2> QED BY <1>5, <2>1, <2>2 DEF AbovePid
<1>6. Orphan' = {}
  BY <1>4, <1>5 DEF Orphan, Split, Working
<1> QED BY <1>1, <1>3, <1>4, <1>5, <1>6 DEF Tree, Working, AtInner, AtLeaf, Placed

\* Without a split the node above is written as it was read.
LEMMA UnsplitOrder ==
  ASSUME OrderInv, NodeWritten, ~Split,
         NEW lo, NEW hi, NEW up, NEW far, OrderOK(lo, hi, up, far)
  PROVE  Linked' = Linked /\ OrderOK(lo, hi, up, far)'
<1> DEFINE q == AbovePid
<1>1. /\ Working /\ Tree = 1 .. Len(page) /\ call \in CallSet /\ call.pc = "nodes" /\ call' = Up(call)
      /\ ~(call.sepKey > 0) /\ \A x \in 1 .. Len(page) : x # call.pid => page'[x] = page[x]
  BY NodeSets DEF NodeWritten
<1>2. Tree' = Tree /\ Orphan' = {}
  BY <1>1, AfterWrite
<1>3. \A x \in Tree : PageIn(lo, hi, up, x, page'[x])
  BY <1>1, UnsplitPages
<1>4. Linked' = Linked /\ LinksIn(lo, hi, far)'
  BY <1>1, <1>2, SameLinks
<1>5. PagesIn(lo, hi, up)'
  <2>1. \A x \in Nat : x \notin Tree => up[x] = 0
    BY DEF OrderOK, PagesIn
  <2> QED BY <1>2, <1>3, <2>1 DEF PagesIn, PageIn
<1>6. RootIn(lo, hi, up)'
  <2>1. Height' = Height /\ Root' = Root
    BY DEF NodeWritten, Height, Root, memory
  <2>2. call'.pc # "root" /\ call.pc # "root"
    BY <1>1, AfterWrite
  <2> QED BY <1>2, <2>1, <2>2 DEF OrderOK, RootIn
<1>7. CallIn(lo, hi, up)'
  <2>1. CASE call.path = <<>>
    <3>1. ~Working'
      BY <2>1, AfterWrite
    <3> QED BY <3>1 DEF CallIn
  <2>2. CASE call.path # <<>>
    <3>1. call'.pid = q
      BY <2>2, AfterWrite
    <3>2. /\ call'.node = Last(call.path).node /\ call'.sibling = NoNode
          /\ call'.sepKey = call.sepKey
      BY <1>1, <2>2, UpParts DEF OrderInv, NoFaultYet
    <3>3. q \in Tree /\ q # call.pid /\ page[q] = Last(call.path).node
      BY <1>1, <2>2, AboveFacts
    <3>4. NodeIn(lo, hi, up, q, call'.node, lo[q], hi[q])
      BY <1>1, <1>3, <3>2, <3>3 DEF PageIn
    <3> HIDE DEF q
    <3> QED BY <1>1, <1>2, <3>1, <3>2, <3>3, <3>4 DEF CallIn
  <2> QED BY <2>1, <2>2
<1>8. Ghosts(lo, hi, up, far)
  BY DEF OrderOK
<1> QED BY <1>4, <1>5, <1>6, <1>7, <1>8 DEF OrderOK, Ghosts

AboveTaken(lo, hi, up, lo2, hi2) ==
  \E up2 \in [Nat -> Nat] :
    /\ \A x \in Nat : x # call.sepPid /\ up[x] # AbovePid => up2[x] = up[x]
    /\ InPair(lo2, hi2, up2, AbovePid, EndPid, call', lo[AbovePid], hi[AbovePid])

\* The node above takes the entry of the new page, and is for the same keys.
LEMMA AboveTakes ==
  ASSUME OrderInv, NodeWritten, Split, call.path # <<>>,
         NEW lo, NEW hi, NEW up, NEW far, OrderOK(lo, hi, up, far),
         NEW lo2, lo2 = LoSplit(lo, call.sepPid, call.sepKey),
         NEW hi2, hi2 = HiSplit(hi, call.pid, call.sepPid, call.sepKey),
         up[call.sepPid] = 0
  PROVE  AboveTaken(lo, hi, up, lo2, hi2)
<1> DEFINE p == call.pid
           sp == call.sepPid
           k == call.sepKey
           q == AbovePid
           n == page[q]
           z == EndPid
<1>1. /\ Working /\ TypeInv /\ p \in Nat /\ sp \in Nat /\ k > 0 /\ k \in Int
      /\ call \in CallSet /\ call.pc = "nodes" /\ call' = Up(call) /\ call.rc = "OK"
  <2>1. k \in Int /\ sp \in Nat /\ p \in Nat
    BY NodeSets, CallFields
  <2> QED BY <2>1, NodeSets DEF NodeWritten, OrderInv, NoFaultYet
<1>2. /\ q \in Tree /\ n = Last(call.path).node /\ n.kind = "inner" /\ n \in ProperNodes
      /\ \E e \in ToSet(n.entries) : e.ptr = p /\ q # p
  BY <1>1, AboveFacts
<1>3. Last(call.path).pid = q
  BY DEF AbovePid
<1>4. PICK d \in CallSet : call' = Place(d, q, n, Entry(k, sp))
  BY <1>1, <1>2, <1>3, UpParts
<1>5. z \in Nat
  BY <1>1, NodesFacts
<1>6. /\ n \in Nodes /\ Len(n.entries) <= Capacity(n) /\ SortedKeys(n.entries)
  BY <1>2, ProperFacts, NodeFacts
<1>7. /\ lo \in [Nat -> Int] /\ hi \in [Nat -> Int] /\ up \in [Nat -> Nat]
      /\ PagesIn(lo, hi, up) /\ CallIn(lo, hi, up)
  BY DEF OrderOK, Ghosts
<1>8. q \in Nat /\ q # 0 /\ lo[q] \in Int /\ hi[q] \in Int
  <2>1. q \in Nat /\ q # 0
    BY <1>2 DEF Tree
  <2> QED BY <1>7, <2>1
<1>9. InnerIn(lo, hi, up, q, n, lo[q], hi[q])
  <2>1. ~(AtInner /\ q = p)
    BY <1>2
  <2> QED BY <1>2, <1>7, <2>1 DEF PagesIn, NodeIn
<1>10. lo[p] <= k /\ k < hi[p]
  BY <1>1, <1>7 DEF CallIn
<1>12. up[sp] # q
  BY <1>8
<1>13. lo2 = LoSplit(lo, sp, k) /\ hi2 = HiSplit(hi, p, sp, k)
  OBVIOUS
<1> HIDE DEF p, sp, k, q, n, z
<1>11. PICK i \in 1 .. Len(n.entries) : p = n.entries[i].ptr
  BY <1>2 DEF ToSet
<1>16. ChildSplit(lo, hi, up, q, n, lo[q], hi[q], i, p, sp, k)
  BY <1>1, <1>9, <1>10, <1>11, <1>12 DEF ChildSplit
<1>14. Taken(lo, hi, up, p, sp, k, q, z, Place(d, q, n, Entry(k, sp)), lo[q], hi[q])
  BY <1>1, <1>2, <1>5, <1>6, <1>7, <1>8, <1>16, PlaceInner
<1>15. \E up2 \in [Nat -> Nat] :
         /\ \A x \in Nat : x # sp /\ up[x] # q => up2[x] = up[x]
         /\ InPair(lo2, hi2, up2, q, z, call', lo[q], hi[q])
  BY <1>4, <1>13, <1>14 DEF Taken
<1> QED BY <1>15 DEF AboveTaken, sp, q, z

LEMMA SplitOrder ==
  ASSUME OrderInv, NodeWritten, Split,
         NEW lo, NEW hi, NEW up, NEW far, OrderOK(lo, hi, up, far)
  PROVE  /\ \E lo2, hi2, up2, far2 : OrderOK(lo2, hi2, up2, far2)'
         /\ Linked' = IF AtLeaf THEN Linked \cup {call.sepPid} ELSE Linked
<1> DEFINE p == call.pid
           sp == call.sepPid
           k == call.sepKey
           q == AbovePid
<1>1. /\ Working /\ p \in Tree /\ k > 0 /\ k \in Int
      /\ Tree \subseteq 1 .. Len(page) /\ call \in CallSet /\ call.pc = "nodes"
      /\ sp \in 1 .. Len(page) /\ sp \notin Tree /\ Tree \cup {sp} = 1 .. Len(page)
      /\ Len(page) \in Nat
  <2>1. k \in Int
    BY NodeSets, CallFields
  <2> QED BY <2>1, NodeSets DEF NodeWritten
<1>2. /\ Ghosts(lo, hi, up, far) /\ PagesIn(lo, hi, up) /\ RootIn(lo, hi, up) /\ CallIn(lo, hi, up)
  BY DEF OrderOK
<1>3. p \in Nat /\ sp \in Nat /\ p # sp /\ sp # 0 /\ up[sp] = 0
  <2>1. p \in Nat /\ sp \in Nat /\ p # sp /\ sp # 0
    BY <1>1
  <2> QED BY <1>1, <1>2, <2>1 DEF PagesIn
<1>a. rootPid \in Tree
  BY <1>1, AboveUp DEF OrderOK, RootIn
<1>b. q = AbovePid /\ p = call.pid /\ sp = call.sepPid /\ k = call.sepKey
  OBVIOUS
<1> HIDE DEF p, sp, k, q
<1>4. PICK lo2 : lo2 = LoSplit(lo, sp, k)
  OBVIOUS
<1>5. PICK hi2 : hi2 = HiSplit(hi, p, sp, k)
  OBVIOUS
<1>6. /\ lo2 \in [Nat -> Int] /\ hi2 \in [Nat -> Int]
      /\ \A x \in Nat : lo2[x] = IF x = sp THEN k ELSE lo[x]
      /\ \A x \in Nat : hi2[x] = IF x = p THEN k ELSE IF x = sp THEN hi[p] ELSE hi[x]
  <2>1. lo \in [Nat -> Int] /\ hi \in [Nat -> Int]
    BY <1>2 DEF Ghosts
  <2> HIDE DEF p, sp, k, q
  <2>2. lo2 \in [Nat -> Int] /\ \A x \in Nat : lo2[x] = IF x = sp THEN k ELSE lo[x]
    BY <1>1, <1>3, <1>4, <2>1 DEF LoSplit
  <2>3. /\ hi2 \in [Nat -> Int]
        /\ \A x \in Nat : hi2[x] = IF x = p THEN k ELSE IF x = sp THEN hi[p] ELSE hi[x]
    BY <1>1, <1>3, <1>5, <2>1 DEF HiSplit
  <2> QED BY <2>2, <2>3
<1>7. Orphan' = {} /\ Tree' = 1 .. Len(page)
  BY AfterWrite
<1>8. PICK far2 \in [Nat -> Nat] :
        /\ Linked' = IF AtLeaf THEN Linked \cup {sp} ELSE Linked
        /\ LinksIn(lo2, hi2, far2)'
  <2>1. far \in [Nat -> Nat]
    BY <1>2 DEF Ghosts
  <2>2. CASE AtLeaf
    <3>1. PICK far2 : far2 = Farther(far, p, sp)
      OBVIOUS
    <3>2. far2 \in [Nat -> Nat]
      <4>1. \A x \in Nat : far[x] \in Nat /\ far[x] + 1 \in Nat /\ far[p] \in Nat
        BY <1>3, <2>1
      <4> HIDE DEF p, sp
      <4> QED BY <3>1, <4>1 DEF Farther
    <3>3. Linked' = Linked \cup {sp} /\ LinksIn(lo2, hi2, far2)'
      BY <1>4, <1>5, <1>7, <2>2, <3>1, SplitLinks DEF p, sp, k
    <3> QED BY <2>2, <3>2, <3>3
  <2>3. CASE ~AtLeaf
    <3>1. \A x \in Linked : lo2[x] = lo[x] /\ hi2[x] = hi[x]
      <4> SUFFICES ASSUME NEW x \in Linked PROVE lo2[x] = lo[x] /\ hi2[x] = hi[x]
        OBVIOUS
      <4>1. x \in Tree /\ page[x].kind = "leaf"
        BY DEF Linked
      <4>2. page[p].kind # "leaf"
        BY <1>1, <2>3, NodeKind DEF p
      <4>3. x \in Nat /\ x # p /\ x # sp
        BY <1>1, <4>1, <4>2
      <4> QED BY <1>6, <4>3
    <3>2. Linked' = Linked /\ LinksIn(lo2, hi2, far)'
      BY <1>7, <2>3, <3>1, SameLinks
    <3> QED BY <2>1, <2>3, <3>2
  <2> QED BY <2>2, <2>3
<1>9. PICK up2 \in [Nat -> Nat] :
        /\ \A x \in Nat : x # sp /\ up[x] # q => up2[x] = up[x]
        /\ call.path = <<>> => up2 = up
        /\ call.path # <<>> => InPair(lo2, hi2, up2, q, EndPid, call', lo[q], hi[q])
  <2>1. CASE call.path = <<>>
    BY <1>2, <2>1 DEF Ghosts
  <2>2. CASE call.path # <<>>
    <3>1. \E up2 \in [Nat -> Nat] :
            /\ \A x \in Nat : x # sp /\ up[x] # q => up2[x] = up[x]
            /\ InPair(lo2, hi2, up2, q, EndPid, call', lo[q], hi[q])
      <4>1. /\ lo2 = LoSplit(lo, call.sepPid, call.sepKey)
            /\ hi2 = HiSplit(hi, call.pid, call.sepPid, call.sepKey)
            /\ up[call.sepPid] = 0
        BY <1>3, <1>4, <1>5 DEF p, sp, k
      <4>2. AboveTaken(lo, hi, up, lo2, hi2)
        BY <2>2, <4>1, AboveTakes
      <4> QED BY <4>2 DEF AboveTaken, sp, q
    <3> QED BY <2>2, <3>1
  <2> QED BY <2>1, <2>2
<1>10. \A x \in 1 .. Len(page) : x # q => PageIn(lo2, hi2, up2, x, page'[x])
  BY <1>4, <1>5, <1>9, SplitPages DEF p, sp, k, q
<1>11. call.path = <<>> => q = 0
  BY DEF AbovePid, q
<1>12. call.path # <<>> => /\ q \in Tree /\ q # p /\ q # sp /\ q \in Nat /\ q # 0
                           /\ lo2[q] = lo[q] /\ hi2[q] = hi[q]
  <2>1. ASSUME call.path # <<>> PROVE q \in Tree /\ q # p /\ q # sp /\ q \in Nat /\ q # 0
    <3>1. q \in Tree /\ q # p
      BY <1>1, <2>1, AboveFacts DEF p, q
    <3> QED BY <1>1, <3>1
  <2> HIDE DEF q
  <2> QED BY <1>6, <2>1
<1>13. PagesIn(lo2, hi2, up2)'
  <2>1. ASSUME NEW x \in Nat, x \notin Tree' PROVE up2[x] = 0
    <3>1. x # sp /\ x \notin Tree
      BY <1>1, <1>7, <2>1
    <3>2. up[x] = 0
      BY <1>2, <3>1 DEF PagesIn
    <3>3. CASE call.path = <<>>
      BY <1>9, <3>2, <3>3
    <3>4. CASE call.path # <<>>
      BY <1>9, <1>12, <3>1, <3>2, <3>4
    <3> QED BY <3>3, <3>4
  <2>2. ASSUME NEW x \in Tree'
        PROVE  /\ lo2[x] <= hi2[x] /\ (lo2[x] = INT_MIN \/ lo2[x] > 0)
               /\ (AtInner' /\ x = call'.pid)
                  \/ NodeIn(lo2, hi2, up2, x, page'[x], lo2[x], hi2[x])
    <3>1. CASE x # q
      BY <1>7, <1>10, <3>1 DEF PageIn
    <3>2. CASE x = q
      <4>0. x \in 1 .. Len(page)
        BY <1>7
      <4>5. x # 0
        BY <4>0
      <4>1. call.path # <<>>
        BY <1>11, <3>2, <4>5
      <4>2. AtInner' /\ x = call'.pid
        BY <3>2, <4>1, AfterWrite DEF q
      <4>3. lo[q] <= hi[q] /\ (lo[q] = INT_MIN \/ lo[q] > 0)
        BY <1>2, <1>12, <4>1 DEF PagesIn
      <4> QED BY <1>12, <3>2, <4>1, <4>2, <4>3
    <3> QED BY <3>1, <3>2
  <2> QED BY <2>1, <2>2 DEF PagesIn
<1>14. RootIn(lo2, hi2, up2)'
  <2>1. /\ up[p] = q /\ Height > 0 /\ Root = rootPid
        /\ call.path = <<>> => /\ p = rootPid /\ lo[p] = INT_MIN /\ hi[p] = Top
        /\ call.path # <<>> => p # rootPid
    BY <1>1, AboveUp DEF p, q
  <2>2. Height' = Height /\ Root' = Root /\ rootPid' = rootPid
    BY DEF NodeWritten, Height, Root, memory
  <2>3. /\ rootPid \in Tree /\ up[rootPid] = 0 /\ lo[rootPid] = INT_MIN
        /\ hi[rootPid] = Top
    BY <1>1, <1>2, <2>1 DEF RootIn
  <2>4. rootPid \in Nat /\ rootPid # sp /\ rootPid \in Tree'
    BY <1>1, <1>7, <1>a
  <2>5. CASE call.path = <<>>
    <3>1. call'.pc = "root" /\ call'.sepKey = k /\ call'.sepPid = sp
      BY <1>1, <2>5, AfterWrite DEF k, sp
    <3>2. up2 = up /\ q = 0
      BY <1>9, <1>11, <2>5
    <3>3. lo2[rootPid] = INT_MIN /\ hi2[rootPid] = k /\ lo2[sp] = k /\ hi2[sp] = Top
      BY <1>3, <1>6, <2>1, <2>3, <2>4, <2>5
    <3> QED BY <1>1, <1>3, <1>7, <2>1, <2>2, <2>3, <2>4, <3>1, <3>2, <3>3 DEF RootIn
  <2>6. CASE call.path # <<>>
    <3>1. call'.pc = "nodes"
      BY <2>6, AfterWrite
    <3>2. up2[rootPid] = 0
      BY <1>9, <1>12, <2>3, <2>4, <2>6
    <3>3. lo2[rootPid] = INT_MIN /\ hi2[rootPid] = Top
      BY <1>6, <2>1, <2>3, <2>4, <2>6
    <3> QED BY <2>1, <2>2, <2>4, <3>1, <3>2, <3>3 DEF RootIn
  <2> QED BY <2>5, <2>6
<1>15. CallIn(lo2, hi2, up2)'
  <2>1. CASE call.path = <<>>
    <3>1. ~Working'
      BY <2>1, AfterWrite
    <3> QED BY <3>1 DEF CallIn
  <2>2. CASE call.path # <<>>
    <3>1. call'.pid = q
      BY <2>2, AfterWrite DEF q
    <3>2. InPair(lo2, hi2, up2, q, EndPid, call', lo2[q], hi2[q])
      BY <1>9, <1>12, <2>2
    <3>3. EndPid' = EndPid /\ EndPid \in Nat /\ EndPid > 0
      <4>1. Len(page') = Len(page)
        BY NodeSets
      <4>2. EndPid' = EndPid
        BY <4>1 DEF EndPid
      <4>3. EndPid \in Nat /\ EndPid > 0
        BY NodeSets, EndPidFacts, NodesFacts DEF NodeWritten
      <4> QED BY <4>2, <4>3
    <3>4. call'.sepKey > 0 => Sibling' = call'.sibling /\ SiblingPid' = EndPid
      BY <3>2, <3>3 DEF InPair, Sibling, SiblingPid
    <3>5. q \in Tree'
      BY <1>1, <1>7, <1>12, <2>2
    <3> QED BY <3>1, <3>2, <3>3, <3>4, <3>5 DEF CallIn, InPair
  <2> QED BY <2>1, <2>2
<1>16. OrderOK(lo2, hi2, up2, far2)'
  BY <1>6, <1>8, <1>9, <1>13, <1>14, <1>15 DEF OrderOK, Ghosts
<1> QED BY <1>8, <1>16 DEF sp

LEMMA WriteNodeOrder ==
  ASSUME Faults = {}, OrderInv, BalanceInv', WriteNode
  PROVE  OrderInv' /\ Placed' /\ (AtInner => LinksKept)
<1>1. NodeWritten
  BY DEF WriteNode, NodeWritten
<1>2. /\ Working /\ mode = "w" /\ mode' = mode /\ treeHeight' = treeHeight
      /\ treeHeight > 0 /\ treeHeight \in Nat /\ rootPid' = rootPid
      /\ \A x \in 1 .. Len(page) : x # call.pid => page'[x] = page[x]
      /\ Tree \subseteq 1 .. Len(page)
  <2>1. TypeInv /\ Working
    BY <1>1, NodeSets
  <2>2. mode' = mode /\ treeHeight' = treeHeight /\ rootPid' = rootPid
    BY <1>1 DEF NodeWritten, memory
  <2>3. mode = "w" /\ treeHeight > 0 /\ treeHeight \in Nat
    BY <2>1 DEF TypeInv, CallOK, MemoryOK, Working
  <2> QED BY <1>1, <2>1, <2>2, <2>3, NodeSets
<1>3. PICK lo, hi, up, far : OrderOK(lo, hi, up, far)
  BY DEF OrderInv
<1>4. /\ \E lo2, hi2, up2, far2 : OrderOK(lo2, hi2, up2, far2)'
      /\ Linked' = IF AtLeaf /\ Split THEN Linked \cup {call.sepPid} ELSE Linked
  <2>1. CASE Split
    BY <1>1, <1>3, <2>1, SplitOrder
  <2>2. CASE ~Split
    <3>1. Linked' = Linked /\ OrderOK(lo, hi, up, far)'
      BY <1>1, <1>3, <2>2, UnsplitOrder
    <3> QED BY <2>2, <3>1
  <2> QED BY <2>1, <2>2
<1>5. /\ Tree \subseteq Tree' /\ Placed' /\ call'.rc = "OK"
      /\ call'.key = call.key /\ call'.rid = call.rid /\ call'.pc \in {"nodes", "root", "return"}
      /\ call.path = <<>> => ~Working'
      /\ call.path # <<>> => /\ Working' /\ AtInner' /\ ~AtLeaf'
                             /\ call'.pid = AbovePid /\ call'.path = Front(call.path)
  BY <1>1, AfterWrite
<1>6. PairsIn'
  BY <1>1, <1>4, <1>5, PairsWritten
<1>7. NoFaultYet'
  <2>1. NoFaultYet /\ page' # <<>> /\ call.pc # "idle"
    BY <1>1, NotEmpty DEF OrderInv, NodeWritten
  <2> QED BY <1>2, <1>5, <2>1, StillFaultless
<1>8. PathIn' /\ LeafWork' /\ InnerWork'
  <2>1. CASE call.path = <<>>
    BY <1>5, <2>1 DEF PathIn, LeafWork, InnerWork, AtLeaf, AtInner
  <2>2. CASE call.path # <<>>
    <3> DEFINE q == AbovePid
               t == Len(call.path)
    <3>1. /\ q \in Tree /\ q # call.pid /\ page[q].kind = "inner"
          /\ t \in Nat /\ t > 0 /\ call.path[t].pid = q
          /\ Len(Front(call.path)) = t - 1
          /\ \A h \in 1 .. t - 1 : Front(call.path)[h] = call.path[h]
          /\ \A h \in 1 .. t : call.path[h].pid # call.pid
      BY <1>2, <2>2, AboveFacts
    <3>2. InnerWork' /\ LeafWork'
      <4>1. page'[q] = page[q]
        BY <1>2, <3>1
      <4> QED BY <1>5, <2>2, <3>1, <4>1 DEF InnerWork, LeafWork
    <3>3. /\ \A h \in 1 .. t :
               /\ call.path[h].pid \in Tree
               /\ call.path[h].node = page[call.path[h].pid]
               /\ \E e \in ToSet(call.path[h].node.entries) :
                    e.ptr = IF h = t THEN call.pid ELSE call.path[h + 1].pid
          /\ rootPid = call.path[1].pid
      BY <1>2, <2>2 DEF OrderInv, PathIn, Next1
    <3>4. Len(call'.path) = t - 1 /\ \A h \in 1 .. t - 1 : call'.path[h] = call.path[h]
      BY <1>5, <2>2, <3>1
    <3> HIDE DEF q, t
    <3>5. ASSUME NEW h \in 1 .. t - 1
          PROVE  /\ call'.path[h].pid \in Tree'
                 /\ call'.path[h].node = page'[call'.path[h].pid]
                 /\ \E e \in ToSet(call'.path[h].node.entries) :
                      e.ptr = IF h = t - 1 THEN q ELSE call'.path[h + 1].pid
      <4>1. h \in 1 .. t /\ h # t
        BY <3>1
      <4>2. call.path[h].pid \in Tree /\ call.path[h].pid # call.pid
        BY <3>1, <3>3, <4>1
      <4>3. page'[call.path[h].pid] = page[call.path[h].pid]
        BY <1>2, <4>2
      <4>4. call.path[h + 1].pid = IF h = t - 1 THEN q ELSE call'.path[h + 1].pid
        <5>1. CASE h = t - 1
          <6>1. h + 1 = t
            BY <3>1, <5>1
          <6> QED BY <3>1, <5>1, <6>1
        <5>2. CASE h # t - 1
          <6>1. h + 1 \in 1 .. t - 1
            BY <3>1, <5>2
          <6> QED BY <3>4, <5>2, <6>1
        <5> QED BY <5>1, <5>2
      <4>5. \E e \in ToSet(call.path[h].node.entries) : e.ptr = call.path[h + 1].pid
        BY <3>3, <4>1
      <4> QED BY <1>5, <3>3, <3>4, <4>1, <4>2, <4>3, <4>4, <4>5
    <3>6. rootPid' = IF call'.path = <<>> THEN q ELSE call'.path[1].pid
      <4>1. CASE t = 1
        <5>1. call'.path = <<>>
          <6>1. call'.path \in Seq(Path)
            <7>1. call' \in CallSet
              BY DEF BalanceInv, TypeInv, CallOK
            <7> QED BY <7>1, CallFields
          <6> QED BY <3>4, <4>1, <6>1
        <5> QED BY <1>2, <3>1, <3>3, <4>1, <5>1
      <4>2. CASE t # 1
        <5>1. 1 \in 1 .. t - 1 /\ t - 1 # 0
          BY <3>1, <4>2
        <5>2. call'.path # <<>>
          BY <3>4, <5>1
        <5> QED BY <1>2, <3>3, <3>4, <5>1, <5>2
      <4> QED BY <4>1, <4>2
    <3>7. PathIn'
      BY <1>5, <2>2, <3>4, <3>5, <3>6 DEF PathIn, Next1, q
    <3> QED BY <3>2, <3>7
  <2> QED BY <2>1, <2>2
<1>9. AtInner => LinksKept
  <2> SUFFICES ASSUME AtInner PROVE LinksKept
    OBVIOUS
  <2>1. page[call.pid].kind = "inner" /\ ~AtLeaf
    BY <1>2, NodeKind
  <2>2. Linked' = Linked /\ \A x \in Linked : x # call.pid /\ x \in Tree
    BY <1>4, <2>1 DEF Linked
  <2>3. \A x \in Linked : page'[x] = page[x]
    BY <1>2, <2>2
  <2>4. Len(page) <= Len(page')
    <3>1. Len(page) = Len(page') /\ Len(page) \in Nat
      BY <1>1, NodeSets
    <3> QED BY <3>1
  <2> QED BY <2>2, <2>3, <2>4 DEF LinksKept
<1> QED BY <1>4, <1>5, <1>6, <1>7, <1>8, <1>9 DEF OrderInv

\* Nothing leads astray.
LEMMA AstrayOrder ==
  ASSUME KeysPositive, SearchedInts, OrderInv, NEW k \in Keys \cup Searched, Astray(k)
  PROVE  FALSE
<1>1. mode \in {"r", "w"} /\ call.pc = "idle" /\ ~OnTrack(k)
  BY DEF Astray
<1>2. k \in Int /\ INT_MIN <= k /\ k < Top
  <2>1. CASE k \in Keys
    BY <2>1, Bounds DEF KeysPositive
  <2>2. CASE k \in Searched
    BY <2>2, Bounds DEF SearchedInts
  <2> QED BY <2>1, <2>2
<1> QED BY <1>1, <1>2, NeverAstray

LEMMA InitOrder ==
  ASSUME Init, BalanceInv
  PROVE  OrderInv
<1>1. /\ page = <<>> /\ mode = "closed" /\ header = NoFile /\ call = Idle /\ done = {}
      /\ Len(page) = 0
  BY DEF Init
<1>2. call.pc = "idle" /\ call.rc = "OK" /\ header # Garbage /\ header.treeHeight = 0
  BY <1>1 DEF Idle, NoFile, Garbage
<1>3. ~Working /\ Orphan = {} /\ Tree = {} /\ Linked = {} /\ Height = 0
  <2>1. ~Working /\ Orphan = {} /\ Height = 0
    BY <1>1, <1>2 DEF Working, Split, Orphan, Height
  <2>2. Tree = {}
    BY <1>1 DEF Tree
  <2> QED BY <2>1, <2>2 DEF Linked
<1>4. NoFaultYet
  BY <1>1, <1>2, <1>3 DEF NoFaultYet
<1>5. PathIn /\ LeafWork /\ InnerWork
  BY <1>3 DEF PathIn, LeafWork, InnerWork, AtLeaf, AtInner
<1>6. PairsIn
  BY <1>1, <1>2, <1>3 DEF PairsIn, Placed, AtInner, LinkedPairs, PairsApart
<1> DEFINE f == [x \in Nat |-> 0]
<1>7. OrderOK(f, f, f, f)
  <2>1. Ghosts(f, f, f, f)
    BY DEF Ghosts
  <2>2. RootIn(f, f, f)
    BY <1>2, <1>3 DEF RootIn
  <2>3. PagesIn(f, f, f) /\ CallIn(f, f, f) /\ LinksIn(f, f, f)
    BY <1>1, <1>3 DEF PagesIn, CallIn, LinksIn
  <2> HIDE DEF f
  <2> QED BY <2>1, <2>2, <2>3 DEF OrderOK
<1> QED BY <1>4, <1>5, <1>6, <1>7 DEF OrderInv

LEMMA StepOrder ==
  ASSUME Faults = {}, KeysPositive, SearchedInts
  PROVE  OrderInv /\ [Next]_vars => OrderInv'
<1> SUFFICES ASSUME OrderInv, [Next]_vars PROVE OrderInv'
  OBVIOUS
<1>1. BalanceInv'
  BY StepLevels DEF OrderInv
<1>2. CASE Next
  <2>1. CASE \E m \in {"r", "w"} : OpenOK(m) \/ OpenFails(m)
    BY <1>1, <2>1, ObjectOrder
  <2>2. CASE OpenNew \/ OpenGarbage \/ Close \/ Drop
    <3>1. "r" \in {"r", "w"}
      OBVIOUS
    <3> QED BY <1>1, <2>2, <3>1, ObjectOrder
  <2>3. CASE \E k \in Keys : BeginEmpty(k)
    BY <1>1, <2>3, BeginEmptyOrder
  <2>4. CASE \E k \in Keys : Begin(k)
    BY <1>1, <2>4, BeginOrder
  <2>5. CASE WriteFirst
    BY <1>1, <2>5, WriteFirstOrder
  <2>6. CASE WriteSibling
    BY <1>1, <2>6, WriteSiblingOrder
  <2>7. CASE WriteNode
    BY <1>1, <2>7, WriteNodeOrder
  <2>8. CASE WriteRoot
    BY <1>1, <2>8, WriteRootOrder
  <2>9. CASE Return
    BY <1>1, <2>9, ReturnOrder
  <2>10. CASE \E k \in Keys \cup Searched : Astray(k)
    BY <2>10, AstrayOrder
  <2>11. CASE (\E k \in Searched : Locate(k)) \/ LocateFails \/ ReadForward \/ ReadHeader \/ ReadFails
    <3>1. UNCHANGED <<header, page, mode, memory, call, done>>
      BY <2>11 DEF Locate, LocateFails, ReadForward, ReadHeader, ReadFails
    <3> QED BY <1>1, <3>1, SameOrder
  <2> QED BY <1>2, <2>1, <2>2, <2>3, <2>4, <2>5, <2>6, <2>7, <2>8, <2>9, <2>10, <2>11 DEF Next
<1>3. CASE UNCHANGED vars
  <2>1. UNCHANGED <<header, page, mode, memory, call, done>>
    BY <1>3 DEF vars
  <2> QED BY <1>1, <2>1, SameOrder
<1> QED BY <1>2, <1>3

-----------------------------------------------------------------------------
(* What the order comes to for a search.                                   *)

DoneBounded == \A e \in done : e.key \in 1 .. Top - 1

SearchInv == OrderInv /\ DoneBounded

LEMMA StepSearch ==
  ASSUME Faults = {}, KeysPositive, SearchedInts
  PROVE  SearchInv /\ [Next]_vars => SearchInv'
<1> SUFFICES ASSUME SearchInv, [Next]_vars PROVE SearchInv'
  OBVIOUS
<1>1. OrderInv'
  BY StepOrder DEF SearchInv
<1>2. UNCHANGED done \/ (call.pc # "idle" /\ done' = done \cup {Pair})
  BY DEF Next, vars, OpenOK, OpenFails, OpenNew, OpenGarbage, Close, Drop, BeginEmpty, Begin, Calls,
         WriteFirst, WriteSibling, WriteNode, WriteRoot, Return, Pair, Locate, Astray,
         LocateFails, ReadForward, ReadHeader, ReadFails
<1>3. call.pc # "idle" => Pair.key \in 1 .. Top - 1
  BY DEF SearchInv, OrderInv, NoFaultYet, Pair, Entry
<1> QED BY <1>1, <1>2, <1>3 DEF SearchInv, DoneBounded

LEMMA InitSearch == Init => SearchInv
<1>1. Init => BalanceInv
  <2> SUFFICES ASSUME Init PROVE BalanceInv
    OBVIOUS
  <2> DEFINE d == [p \in 1 .. 0 |-> 0]
  <2>1. Levels(d)
    BY DEF Init, Levels
  <2>2. CallAt(d) /\ ObjectAt(d) /\ HeaderAt(d)
    BY IdleFacts DEF Init, CallAt, ObjectAt, HeaderAt, NoFile
  <2> HIDE DEF d
  <2> QED BY <2>1, <2>2, InitTyped DEF BalanceInv, DepthOK
<1>2. Init => DoneBounded
  BY DEF Init, DoneBounded
<1> QED BY <1>1, <1>2, InitOrder DEF SearchInv

\* What the chain of the leaves is.
Leaves(lo, hi, far) ==
  /\ lo \in [Nat -> Int] /\ hi \in [Nat -> Int] /\ far \in [Nat -> Nat]
  /\ Linked \subseteq Nat
  /\ \A x \in Linked :
       Exists(x) /\ page[x] \in ProperNodes /\ LeafIn(page[x], lo[x], hi[x])
  /\ LinksIn(lo, hi, far) /\ PairsApart

\* Between two calls the way down for k ends at a leaf for keys like k, and
\* the leaves are all there is.
SearchOK(lo, hi, far) ==
  /\ Leaves(lo, hi, far)
  /\ done = LinkedPairs
  /\ treeHeight > 0 =>
       \A k \in Int : INT_MIN <= k /\ k < Top =>
         /\ LeafFor(k) \in Linked /\ Exists(LeafFor(k))
         /\ lo[LeafFor(k)] <= k /\ k < hi[LeafFor(k)]

LEMMA SearchFacts ==
  ASSUME SearchInv, call.pc = "idle", mode \in {"r", "w"}
  PROVE  /\ treeHeight = 0 => done = {}
         /\ \E lo, hi, far : SearchOK(lo, hi, far)
<1>1. TypeInv /\ NoFaultYet /\ ~Working /\ call.pc # "root" /\ mode # "closed"
      /\ treeHeight \in Nat /\ page \in Seq(ProperNodes)
  BY DEF SearchInv, OrderInv, BalanceInv, TypeInv, MemoryOK, Working
<1>2. PICK lo, hi, up, far : OrderOK(lo, hi, up, far)
  BY DEF SearchInv, OrderInv
<1>3. PICK d : DepthOK(d)
  BY DEF SearchInv, OrderInv, BalanceInv
<1>4. Orphan = {} /\ Tree = 1 .. Len(page) /\ Len(page) \in Nat
  BY <1>1 DEF Orphan, Split, Tree
<1>5. /\ lo \in [Nat -> Int] /\ hi \in [Nat -> Int] /\ far \in [Nat -> Nat]
      /\ PagesIn(lo, hi, up) /\ LinksIn(lo, hi, far)
  BY <1>2 DEF OrderOK, Ghosts
<1>6. Linked \subseteq Nat /\ \A x \in Linked : x \in 1 .. Len(page) /\ page[x] \in ProperNodes
  BY <1>1, <1>4 DEF Linked
<1>7. \A x \in Linked : LeafIn(page[x], lo[x], hi[x])
  BY <1>1, <1>5 DEF Linked, PagesIn, AtInner, NodeIn
<1>8. Leaves(lo, hi, far)
  <2>1. PairsApart /\ \A x \in Linked : Exists(x)
    BY <1>6 DEF SearchInv, OrderInv, PairsIn, Exists
  <2> QED BY <1>5, <1>6, <1>7, <2>1 DEF Leaves
<1>9. done = LinkedPairs
  BY <1>1 DEF SearchInv, OrderInv, PairsIn, Placed, AtInner
<1>10. treeHeight = 0 => done = {}
  <2>1. treeHeight = 0 => page = <<>>
    BY <1>1 DEF NoFaultYet, Height
  <2>2. page = <<>> => Linked = {}
    BY <1>6
  <2> QED BY <1>9, <2>1, <2>2 DEF LinkedPairs
<1>11. ASSUME treeHeight > 0, NEW k \in Int, INT_MIN <= k, k < Top
       PROVE  /\ LeafFor(k) \in Linked /\ Exists(LeafFor(k))
              /\ lo[LeafFor(k)] <= k /\ k < hi[LeafFor(k)]
  <2> DEFINE p == LeafFor(k)
  <2>1. Levels(d) /\ TreeAt(d, rootPid, treeHeight)
    BY <1>3 DEF DepthOK, ObjectAt
  <2>2. \A h \in 1 .. treeHeight :
           /\ At(d, Descent(k)[h], treeHeight - h + 1)
           /\ Descent(k)[h] \in 1 .. Len(page)
           /\ lo[Descent(k)[h]] <= k /\ k < hi[Descent(k)[h]]
    BY <1>1, <1>2, <1>11, <2>1, DescentInside
  <2>3. treeHeight \in 1 .. treeHeight /\ treeHeight - treeHeight + 1 = 1
    BY <1>1, <1>11
  <2>4. At(d, p, treeHeight - treeHeight + 1) /\ p \in 1 .. Len(page) /\ lo[p] <= k /\ k < hi[p]
    BY <2>2, <2>3 DEF LeafFor
  <2> HIDE DEF p
  <2>5. NodeAt(d, page[p], 1)
    BY <2>1, <2>3, <2>4 DEF Levels, At
  <2>6. p \in Linked
    BY <1>4, <2>4, <2>5 DEF NodeAt, Linked
  <2> QED BY <2>4, <2>6 DEF p, Exists
<1>12. SearchOK(lo, hi, far)
  BY <1>8, <1>9, <1>11 DEF SearchOK
<1> QED BY <1>10, <1>12

LEMMA SearchFinds == SearchInv => LeafFound
<1> SUFFICES ASSUME SearchInv, mode \in {"r", "w"}, call.pc = "idle", NEW e \in done
             PROVE  treeHeight > 0 /\ Exists(LeafFor(e.key))
                    /\ \E f \in Entries(LeafFor(e.key)) : f.key = e.key
  BY DEF LeafFound
<1> DEFINE k == e.key
           p == LeafFor(k)
<1>1. treeHeight \in Nat /\ k \in Int /\ k > 0 /\ INT_MIN <= k /\ k < Top /\ k # INT_MIN
  <2>1. treeHeight \in Nat /\ k \in 1 .. Top - 1
    BY DEF SearchInv, OrderInv, BalanceInv, TypeInv, MemoryOK, DoneBounded
  <2> HIDE DEF k
  <2> QED BY <2>1, Bounds
<1>2. treeHeight > 0
  BY <1>1, SearchFacts
<1>3. PICK lo, hi, far : SearchOK(lo, hi, far)
  BY SearchFacts
<1>a. /\ lo \in [Nat -> Int] /\ hi \in [Nat -> Int] /\ far \in [Nat -> Nat]
      /\ Linked \subseteq Nat
      /\ \A x \in Linked : page[x] \in ProperNodes /\ LeafIn(page[x], lo[x], hi[x])
      /\ \A x, y \in Linked :
           /\ far[x] = far[y] => x = y
           /\ far[x] > far[y] => hi[x] <= lo[y]
      /\ done = LinkedPairs
      /\ treeHeight > 0 =>
           \A j \in Int : INT_MIN <= j /\ j < Top =>
             /\ LeafFor(j) \in Linked /\ Exists(LeafFor(j))
             /\ lo[LeafFor(j)] <= j /\ j < hi[LeafFor(j)]
  BY <1>3 DEF SearchOK, Leaves, LinksIn
<1>4. p \in Linked /\ Exists(p) /\ lo[p] <= k /\ k < hi[p]
  BY <1>1, <1>2, <1>a
<1>5. PICK y \in Linked : e \in Entries(y)
  BY <1>a DEF LinkedPairs
<1> HIDE DEF p
<1>6. lo[y] <= k /\ k <= hi[y]
  BY <1>a, <1>5 DEF LeafIn, Entries
<1>7. /\ far[p] \in Nat /\ far[y] \in Nat /\ lo[p] \in Int /\ lo[y] \in Int
      /\ hi[p] \in Int /\ hi[y] \in Int
  BY <1>a, <1>4, <1>5
<1> HIDE DEF k
<1>8. \E f \in Entries(p) : f.key = k
  <2>1. CASE p = y
    BY <1>5, <2>1 DEF k
  <2>2. CASE p # y
    <3>1. ~(far[p] > far[y])
      BY <1>1, <1>a, <1>4, <1>5, <1>6, <1>7
    <3>2. far[p] # far[y]
      BY <1>a, <1>4, <1>5, <2>2
    <3>3. far[y] > far[p]
      BY <1>7, <3>1, <3>2
    <3>4. hi[y] <= lo[p]
      BY <1>a, <1>4, <1>5, <3>3
    <3>5. lo[p] = k
      BY <1>1, <1>4, <1>6, <1>7, <3>4
    <3> QED BY <1>1, <1>a, <1>4, <3>5 DEF LeafIn, Entries
  <2> QED BY <2>1, <2>2
<1> QED BY <1>2, <1>4, <1>8 DEF p, k

LEMMA SearchBehind ==
  ASSUME Faults = {}, SearchedInts, SearchInv,
         NEW k \in Searched, Locate(k), cursor'.eid = 0, NEW e \in done
  PROVE  e.key > k
<1> DEFINE p == LeafFor(k)
           s == page[p].entries
<1>1. treeHeight \in Nat /\ k \in Int /\ INT_MIN <= k /\ k < Top /\ e.key > 0 /\ e.key \in Int
  <2>1. treeHeight \in Nat /\ k \in INT_MIN .. Top - 1 /\ e.key \in 1 .. Top - 1
    BY DEF SearchInv, OrderInv, BalanceInv, TypeInv, MemoryOK, DoneBounded, SearchedInts
  <2> QED BY <2>1, Bounds
<1>2. mode = "r" /\ call.pc = "idle"
  BY DEF Locate, SearchInv, OrderInv, BalanceInv, TypeInv, CallOK
<1>3. treeHeight > 0
  BY <1>1, <1>2, SearchFacts
<1>4. PICK lo, hi, far : SearchOK(lo, hi, far)
  BY <1>2, SearchFacts
<1>a. /\ lo \in [Nat -> Int] /\ hi \in [Nat -> Int] /\ far \in [Nat -> Nat]
      /\ Linked \subseteq Nat
      /\ \A x \in Linked : page[x] \in ProperNodes /\ LeafIn(page[x], lo[x], hi[x])
      /\ \A x, y \in Linked :
           /\ far[x] = far[y] => x = y
           /\ far[x] > far[y] => hi[x] <= lo[y]
      /\ done = LinkedPairs
      /\ treeHeight > 0 =>
           \A j \in Int : INT_MIN <= j /\ j < Top =>
             /\ LeafFor(j) \in Linked /\ Exists(LeafFor(j))
             /\ lo[LeafFor(j)] <= j /\ j < hi[LeafFor(j)]
  BY <1>4 DEF SearchOK, Leaves, LinksIn
<1>5. p \in Linked /\ Exists(p) /\ lo[p] <= k /\ k < hi[p]
  BY <1>1, <1>3, <1>a
<1>6. UpTo(s, k) = 0
  BY <1>1, <1>3, <1>5 DEF Locate
<1>7. page[p] \in ProperNodes /\ LeafIn(page[p], lo[p], hi[p])
  BY <1>a, <1>5
<1>8. s \in Seq(NodeEntries) /\ SortedKeys(s) /\ s # <<>> /\ Len(s) \in Nat
  BY <1>7, ProperFacts, NodeFacts
<1>9. \A f \in ToSet(s) : f.key > k /\ f.key \in Int
  <2> HIDE DEF s
  <2>1. \A i \in 1 .. Len(s) : s[i].key \in Int
    BY <1>8, KeysAreInts
  <2>2. 1 \in 1 .. Len(s) /\ 0 < Len(s) /\ 0 + 1 = 1
    BY <1>8
  <2>3. s[1].key > k
    BY <1>1, <1>6, <1>8, <2>2, UpToFacts
  <2>4. SortedKeys(s) /\ Len(s) \in Nat
    BY <1>8
  <2>5. \A i \in 1 .. Len(s) : s[i].key > k
    <3> SUFFICES ASSUME NEW i \in 1 .. Len(s) PROVE s[i].key > k
      OBVIOUS
    <3>1. CASE i = 1
      BY <2>3, <3>1
    <3>2. CASE i # 1
      <4>1. 1 < i
        BY <2>4, <3>2
      <4>2. s[1].key <= s[i].key
        BY <2>2, <2>4, <4>1 DEF SortedKeys
      <4>3. s[1].key \in Int /\ s[i].key \in Int
        BY <2>1, <2>2
      <4> QED BY <1>1, <2>3, <4>2, <4>3
    <3> QED BY <3>1, <3>2
  <2> QED BY <1>8, <2>1, <2>5 DEF ToSet
<1>10. PICK y \in Linked : e \in Entries(y)
  BY <1>a DEF LinkedPairs
<1> HIDE DEF p
<1>11. lo[y] <= e.key /\ e.key <= hi[y]
  BY <1>a, <1>10 DEF LeafIn, Entries
<1>12. /\ far[p] \in Nat /\ far[y] \in Nat /\ lo[p] \in Int /\ lo[y] \in Int
       /\ hi[p] \in Int /\ hi[y] \in Int
  BY <1>a, <1>5, <1>10
<1>13. lo[p] = INT_MIN
  <2>1. \A f \in ToSet(s) : f.key # lo[p]
    BY <1>1, <1>5, <1>9, <1>12
  <2> QED BY <1>7, <2>1 DEF LeafIn
<1>14. CASE p = y
  BY <1>9, <1>10, <1>14 DEF Entries
<1>15. CASE p # y
  <2>1. far[p] # far[y]
    BY <1>a, <1>5, <1>10, <1>15
  <2>2. CASE far[p] > far[y]
    <3>1. hi[p] <= lo[y]
      BY <1>a, <1>5, <1>10, <2>2
    <3> QED BY <1>1, <1>5, <1>11, <1>12, <3>1
  <2>3. CASE far[y] > far[p]
    <3>1. hi[y] <= lo[p]
      BY <1>a, <1>5, <1>10, <2>3
    <3> QED BY <1>1, <1>11, <1>12, <1>13, <3>1, Bounds
  <2> QED BY <1>12, <2>1, <2>2, <2>3
<1> QED BY <1>14, <1>15

\* The way down for a key that is in the index ends at a leaf that holds it
\* (insertAtLevel and locateAtLevel), however the nodes have been split.
THEOREM SearchRight ==
  ASSUME Faults = {}, KeysPositive, SearchedInts
  PROVE  Spec => []LeafFound
<1>1. SearchInv /\ [Next]_vars => SearchInv'
  BY StepSearch
<1> QED BY <1>1, InitSearch, SearchFinds, PTL DEF Spec

\* A cursor that locate() leaves at the first entry of a leaf has no smaller
\* or equal key behind it, in any leaf.
THEOREM NothingBehind ==
  ASSUME Faults = {}, KeysPositive, SearchedInts
  PROVE  Spec => BackIsBehind
<1>1. SearchInv /\ [Next]_vars => SearchInv'
  BY StepSearch
<1>2. SearchInv /\ [Next]_vars =>
        [\A k \in Searched : Locate(k) /\ cursor'.eid = 0 => \A e \in done : e.key > k]_vars
  BY SearchBehind
<1> QED BY <1>1, <1>2, InitSearch, PTL DEF Spec, BackIsBehind

-----------------------------------------------------------------------------
(* What it comes to for the chain of the leaves.                           *)

IsWalk(f, m) ==
  f = [n \in 0 .. m |->
        [q \in Int |-> IF n = 0 \/ ~Exists(q) THEN <<>>
                       ELSE page[q].entries \o f[n - 1][page[q].next]]]

\* ChainFrom is what its recursion says.
LEMMA WalkDef ==
  ASSUME NEW m \in Nat, m = Len(page)
  PROVE  \E f : IsWalk(f, m) /\ \A p : ChainFrom(p) = f[m][p]
<1> DEFINE Defined == {i \in Nat : \E f : IsWalk(f, i)}
<1>1. \A p : ChainFrom(p) = (CHOOSE f : IsWalk(f, m))[m][p]
  BY DEF ChainFrom, IsWalk
<1>2. Nat \subseteq Defined
  <2>1. 0 \in Defined
    <3> DEFINE f == [n \in 0 .. 0 |-> [q \in Int |-> <<>>]]
    <3>1. IsWalk(f, 0)
      BY DEF IsWalk
    <3> HIDE DEF f
    <3> QED BY <3>1
  <2>2. ASSUME NEW i \in Nat, i \in Defined PROVE i + 1 \in Defined
    <3>1. PICK f : IsWalk(f, i)
      BY <2>2
    <3> DEFINE R(x, n) == [q \in Int |-> IF n = 0 \/ ~Exists(q) THEN <<>>
                                        ELSE page[q].entries \o x[n - 1][page[q].next]]
               g == [n \in 0 .. i + 1 |-> R(f, n)]
    <3>2. \A n \in 0 .. i : g[n] = f[n]
      <4>1. f = [n \in 0 .. i |-> R(f, n)]
        BY <3>1 DEF IsWalk
      <4> HIDE DEF R
      <4>2. \A n \in 0 .. i : f[n] = R(f, n)
        BY <4>1
      <4>3. \A n \in 0 .. i : n \in 0 .. i + 1
        OBVIOUS
      <4> QED BY <4>2, <4>3
    <3>3. \A n \in 0 .. i + 1 : n # 0 => n - 1 \in 0 .. i
      OBVIOUS
    <3>4. \A n \in 0 .. i + 1 : R(f, n) = R(g, n)
      <4> HIDE DEF g
      <4> SUFFICES ASSUME NEW n \in 0 .. i + 1 PROVE R(f, n) = R(g, n)
        OBVIOUS
      <4>1. CASE n = 0
        BY <4>1
      <4>2. CASE n # 0
        <5>1. g[n - 1] = f[n - 1]
          BY <3>2, <3>3, <4>2
        <5> QED BY <5>1
      <4> QED BY <4>1, <4>2
    <3>5. g = [n \in 0 .. i + 1 |-> R(g, n)]
      <4> HIDE DEF R
      <4> QED BY <3>4
    <3>6. IsWalk(g, i + 1)
      <4> HIDE DEF g
      <4> QED BY <3>5 DEF IsWalk
    <3> HIDE DEF g
    <3> QED BY <3>6
  <2> HIDE DEF Defined
  <2> QED BY <2>1, <2>2, Induction
<1>3. \E f : IsWalk(f, m)
  BY <1>2
<1> QED BY <1>1, <1>3

LEMMA WalkFacts ==
  ASSUME NEW f, NEW m \in Nat, IsWalk(f, m), NEW q \in Int
  PROVE  /\ f[0][q] = <<>>
         /\ \A n \in 0 .. m : ~Exists(q) => f[n][q] = <<>>
         /\ \A n \in 1 .. m : Exists(q) =>
              f[n][q] = page[q].entries \o f[n - 1][page[q].next]
<1>1. \A n \in 0 .. m :
        f[n][q] = IF n = 0 \/ ~Exists(q) THEN <<>>
                  ELSE page[q].entries \o f[n - 1][page[q].next]
  <2> DEFINE R(n) == [x \in Int |-> IF n = 0 \/ ~Exists(x) THEN <<>>
                                    ELSE page[x].entries \o f[n - 1][page[x].next]]
  <2>1. f = [n \in 0 .. m |-> R(n)]
    BY DEF IsWalk
  <2>2. \A n \in 0 .. m : f[n] = R(n)
    <3> HIDE DEF R
    <3> QED BY <2>1
  <2>3. \A n : R(n)[q] = IF n = 0 \/ ~Exists(q) THEN <<>>
                          ELSE page[q].entries \o f[n - 1][page[q].next]
    OBVIOUS
  <2> HIDE DEF R
  <2> QED BY <2>2, <2>3
<1>2. 0 \in 0 .. m /\ 1 .. m \subseteq 0 .. m /\ 0 \notin 1 .. m
  OBVIOUS
<1> QED BY <1>1, <1>2

\* Two lists in order, each with its pairs once, the second for larger keys.
LEMMA OneAfterOther ==
  ASSUME NEW s \in Seq(NodeEntries), NEW t \in Seq(NodeEntries),
         SortedKeys(s), SortedKeys(t), IsInjective(s), IsInjective(t),
         ToSet(s) \cap ToSet(t) = {},
         \A e \in ToSet(s) : \A f \in ToSet(t) : e.key <= f.key
  PROVE  /\ s \o t \in Seq(NodeEntries)
         /\ SortedKeys(s \o t) /\ IsInjective(s \o t)
         /\ ToSet(s \o t) = ToSet(s) \cup ToSet(t)
<1> DEFINE c == s \o t
           m == Len(s)
           n == Len(t)
<1>1. /\ c \in Seq(NodeEntries) /\ Len(c) = m + n /\ m \in Nat /\ n \in Nat
      /\ DOMAIN s = 1 .. m /\ DOMAIN t = 1 .. n /\ DOMAIN c = 1 .. Len(c)
  OBVIOUS
<1>2. \A i \in 1 .. m : c[i] = s[i]
  OBVIOUS
<1>3. \A i \in 1 .. m + n : i > m => c[i] = t[i - m]
  OBVIOUS
<1>4. \A i \in 1 .. n : c[m + i] = t[i]
  OBVIOUS
<1>5. /\ \A i \in 1 .. m : s[i] \in ToSet(s)
      /\ \A i \in 1 .. n : t[i] \in ToSet(t)
  BY <1>1 DEF ToSet
<1> HIDE DEF c, m, n
<1>6. m \in Nat /\ n \in Nat /\ Len(c) = m + n
  BY <1>1
<1>7. ToSet(c) = ToSet(s) \cup ToSet(t)
  <2>1. \A i \in 1 .. m + n : i > m => i - m \in 1 .. n
    BY <1>6
  <2>2. \A i \in 1 .. n : m + i \in 1 .. m + n
    BY <1>6
  <2>3. \A i \in 1 .. m : i \in 1 .. m + n
    BY <1>6
  <2>4. \A i \in 1 .. m + n : i > m \/ i \in 1 .. m
    BY <1>6
  <2>5. ToSet(c) \subseteq ToSet(s) \cup ToSet(t)
    BY <1>1, <1>2, <1>3, <1>5, <1>6, <2>1, <2>4 DEF ToSet
  <2>6. ToSet(s) \subseteq ToSet(c)
    BY <1>1, <1>2, <1>6, <2>3 DEF ToSet
  <2>7. ToSet(t) \subseteq ToSet(c)
    BY <1>1, <1>4, <1>6, <2>2 DEF ToSet
  <2> QED BY <2>5, <2>6, <2>7
<1>8. SortedKeys(c)
  <2> SUFFICES ASSUME NEW i \in 1 .. m + n, NEW j \in 1 .. m + n, i < j
               PROVE  c[i].key <= c[j].key
    BY <1>6 DEF SortedKeys
  <2>1. CASE j \in 1 .. m
    <3>1. i \in 1 .. m
      BY <1>6, <2>1
    <3> QED BY <1>2, <2>1, <3>1, m = Len(s) DEF SortedKeys, m
  <2>2. CASE i \in 1 .. m /\ j > m
    <3>1. j - m \in 1 .. n
      BY <1>6, <2>2
    <3>2. s[i] \in ToSet(s) /\ t[j - m] \in ToSet(t)
      BY <1>5, <2>2, <3>1
    <3> QED BY <1>2, <1>3, <2>2, <3>2
  <2>3. CASE i > m
    <3>1. i - m \in 1 .. n /\ j - m \in 1 .. n /\ i - m < j - m /\ j > m
      BY <1>6, <2>3
    <3>2. t[i - m].key <= t[j - m].key
      BY <3>1 DEF SortedKeys, n
    <3> QED BY <1>3, <2>3, <3>1, <3>2
  <2>4. i \in 1 .. m \/ i > m
    BY <1>6
  <2>5. j \in 1 .. m \/ j > m
    BY <1>6
  <2> QED BY <2>1, <2>2, <2>3, <2>4, <2>5
<1>9. IsInjective(c)
  <2> SUFFICES ASSUME NEW i \in 1 .. m + n, NEW j \in 1 .. m + n, c[i] = c[j]
               PROVE  i = j
    BY <1>1, <1>6 DEF IsInjective
  <2>1. \A a, b \in 1 .. m : s[a] = s[b] => a = b
    BY <1>1 DEF IsInjective
  <2>2. \A a, b \in 1 .. n : t[a] = t[b] => a = b
    BY <1>1 DEF IsInjective
  <2>3. \A a \in 1 .. m + n : a > m => a - m \in 1 .. n
    BY <1>6
  <2>4. (i \in 1 .. m \/ i > m) /\ (j \in 1 .. m \/ j > m)
    BY <1>6
  <2>5. CASE i \in 1 .. m /\ j \in 1 .. m
    BY <1>2, <2>1, <2>5
  <2>6. CASE i \in 1 .. m /\ j > m
    BY <1>2, <1>3, <1>5, <2>3, <2>6
  <2>7. CASE i > m /\ j \in 1 .. m
    BY <1>2, <1>3, <1>5, <2>3, <2>7
  <2>8. CASE i > m /\ j > m
    <3>1. t[i - m] = t[j - m]
      BY <1>3, <2>8
    <3>2. i - m = j - m
      BY <2>2, <2>3, <2>8, <3>1
    <3> QED BY <1>6, <3>2
  <2> QED BY <2>4, <2>5, <2>6, <2>7, <2>8
<1> QED BY <1>1, <1>7, <1>8, <1>9 DEF c


\* The pairs of the leaves from q on.
Rest(far, q) == {x \in Linked : far[x] <= far[q]}
InChain(far, c, q) ==
  /\ c \in Seq(NodeEntries) /\ SortedKeys(c) /\ IsInjective(c)
  /\ ToSet(c) = UNION {Entries(x) : x \in Rest(far, q)}

LEMMA LeavesHold ==
  ASSUME OrderInv
  PROVE  \E lo, hi, far : Leaves(lo, hi, far)
<1>1. page \in Seq(ProperNodes) /\ InnerWork /\ PairsApart
  BY DEF OrderInv, BalanceInv, TypeInv, PairsIn
<1>2. PICK lo, hi, up, far : OrderOK(lo, hi, up, far)
  BY DEF OrderInv
<1>3. /\ lo \in [Nat -> Int] /\ hi \in [Nat -> Int] /\ far \in [Nat -> Nat]
      /\ PagesIn(lo, hi, up) /\ LinksIn(lo, hi, far)
  BY <1>2 DEF OrderOK, Ghosts
<1>4. Linked \subseteq Tree /\ Tree \subseteq 1 .. Len(page)
  BY DEF Linked, Tree
<1>5. \A x \in Linked : page[x].kind = "leaf" /\ page[x].kind # "inner"
  BY DEF Linked
<1>6. Linked \subseteq Nat /\ \A x \in Linked : Exists(x) /\ page[x] \in ProperNodes
  <2>1. Len(page) \in Nat
    BY <1>1
  <2>2. \A x \in 1 .. Len(page) : x \in Nat /\ page[x] \in ProperNodes
    BY <1>1, <2>1, ElementOfSeq
  <2> QED BY <1>4, <2>2 DEF Exists
<1>7. \A x \in Linked : LeafIn(page[x], lo[x], hi[x])
  BY <1>1, <1>3, <1>4, <1>5 DEF PagesIn, InnerWork, NodeIn
<1> QED BY <1>1, <1>3, <1>6, <1>7 DEF Leaves

\* One leaf and what the chain has behind it.
LEMMA LeafAndRest ==
  ASSUME NEW lo, NEW hi, NEW far, Leaves(lo, hi, far),
         NEW q \in Linked, NEW r \in Linked, far[q] = far[r] + 1,
         NEW c, InChain(far, c, r)
  PROVE  InChain(far, page[q].entries \o c, q)
<1> DEFINE s == page[q].entries
<1>1. far[q] \in Nat /\ far[r] \in Nat /\ \A x \in Linked : far[x] \in Nat
  BY DEF Leaves
<1>2. \A x \in Linked : far[x] <= far[q] => x = q \/ far[x] <= far[r]
  <2> SUFFICES ASSUME NEW x \in Linked, far[x] <= far[q], x # q PROVE far[x] <= far[r]
    OBVIOUS
  <2>1. far[x] # far[q]
    BY DEF Leaves, LinksIn
  <2>2. far[x] \in Nat
    BY <1>1
  <2> QED BY <1>1, <2>1, <2>2
<1>3. \A x \in Rest(far, r) : x \in Linked /\ x # q /\ far[q] > far[x]
  <2> SUFFICES ASSUME NEW x \in Linked, far[x] <= far[r] PROVE x # q /\ far[q] > far[x]
    BY DEF Rest
  <2>1. far[x] \in Nat
    BY <1>1
  <2> QED BY <1>1, <2>1
<1>4. Rest(far, q) = {q} \cup Rest(far, r)
  <2>1. \A x \in Linked : far[x] <= far[r] => far[x] <= far[q]
    BY <1>1
  <2>2. far[q] <= far[q]
    BY <1>1
  <2> QED BY <1>2, <2>1, <2>2 DEF Rest
<1>5. s \in Seq(NodeEntries) /\ SortedKeys(s) /\ IsInjective(s)
  <2>1. page[q] \in ProperNodes /\ IsInjective(s)
    BY DEF Leaves, PairsApart
  <2> HIDE DEF s
  <2>2. s = page[q].entries
    BY DEF s
  <2> QED BY <2>1, <2>2, ProperFacts, NodeFacts
<1>6. ToSet(s) \cap ToSet(c) = {}
  BY <1>3 DEF Leaves, PairsApart, InChain, Entries
<1>7. \A e \in ToSet(s) : \A f \in ToSet(c) : e.key <= f.key
  <2> SUFFICES ASSUME NEW e \in ToSet(s), NEW f \in ToSet(c) PROVE e.key <= f.key
    OBVIOUS
  <2>1. PICK x \in Rest(far, r) : f \in Entries(x)
    BY DEF InChain
  <2>2. x \in Linked /\ far[q] > far[x]
    BY <1>3
  <2>3. hi[q] <= lo[x]
    BY <2>2 DEF Leaves, LinksIn
  <2>4. e.key <= hi[q] /\ lo[x] <= f.key
    BY <2>1, <2>2 DEF Leaves, LeafIn, Entries
  <2>5. hi[q] \in Int /\ lo[x] \in Int
    BY <2>2 DEF Leaves
  <2>6. e.key \in Int /\ f.key \in Int
    <3>1. ToSet(s) \subseteq NodeEntries
      BY <1>5, ElementOfSeq DEF ToSet
    <3>2. c \in Seq(NodeEntries)
      BY DEF InChain
    <3>3. ToSet(c) \subseteq NodeEntries
      BY <3>2, ElementOfSeq DEF ToSet
    <3> QED BY <3>1, <3>3 DEF NodeEntries
  <2> QED BY <2>3, <2>4, <2>5, <2>6
<1>8. c \in Seq(NodeEntries) /\ SortedKeys(c) /\ IsInjective(c)
      /\ ToSet(c) = UNION {Entries(x) : x \in Rest(far, r)}
  BY DEF InChain
<1>9. /\ s \o c \in Seq(NodeEntries) /\ SortedKeys(s \o c) /\ IsInjective(s \o c)
      /\ ToSet(s \o c) = ToSet(s) \cup ToSet(c)
  BY <1>5, <1>6, <1>7, <1>8, OneAfterOther
<1>10. ToSet(s \o c) = UNION {Entries(x) : x \in Rest(far, q)}
  <2>1. ToSet(s) = Entries(q)
    BY DEF Entries
  <2> HIDE DEF s
  <2> QED BY <1>4, <1>8, <1>9, <2>1
<1> QED BY <1>9, <1>10 DEF InChain

\* The last leaf.
LEMMA LastLeaf ==
  ASSUME NEW lo, NEW hi, NEW far, Leaves(lo, hi, far), NEW q \in Linked, far[q] = 1
  PROVE  InChain(far, page[q].entries \o <<>>, q)
<1> DEFINE s == page[q].entries
<1>1. Rest(far, q) = {q}
  <2> SUFFICES ASSUME NEW x \in Linked PROVE far[x] <= far[q] <=> x = q
    BY DEF Rest
  <2>1. far[x] \in Nat /\ far[x] > 0
    BY DEF Leaves, LinksIn
  <2>2. far[x] = far[q] => x = q
    BY DEF Leaves, LinksIn
  <2> QED BY <2>1, <2>2
<1>2. s \in Seq(NodeEntries) /\ SortedKeys(s) /\ IsInjective(s)
  <2>1. page[q] \in ProperNodes /\ IsInjective(s)
    BY DEF Leaves, PairsApart
  <2> HIDE DEF s
  <2>2. s = page[q].entries
    BY DEF s
  <2> QED BY <2>1, <2>2, ProperFacts, NodeFacts
<1>3. s \o <<>> = s
  BY <1>2
<1>4. ToSet(s) = UNION {Entries(x) : x \in Rest(far, q)}
  BY <1>1 DEF Entries
<1> QED BY <1>2, <1>3, <1>4 DEF InChain

LEMMA WalkOrder ==
  ASSUME NEW lo, NEW hi, NEW far, Leaves(lo, hi, far), NEW m \in Nat,
         NEW f, IsWalk(f, m)
  PROVE  \A n \in 0 .. m : \A q \in Linked : far[q] <= n => InChain(far, f[n][q], q)
<1>0. \A x \in Int :
        /\ f[0][x] = <<>>
        /\ \A n \in 0 .. m : ~Exists(x) => f[n][x] = <<>>
        /\ \A n \in 1 .. m : Exists(x) =>
             f[n][x] = page[x].entries \o f[n - 1][page[x].next]
  BY WalkFacts
<1>1. \A q \in Linked : far[q] \in Nat /\ far[q] > 0 /\ q \in Int /\ Exists(q)
  <2>1. \A q \in Linked : q \in Nat /\ Exists(q)
    BY DEF Leaves
  <2>2. \A q \in Linked : far[q] \in Nat
    BY <2>1 DEF Leaves
  <2>3. \A q \in Linked : far[q] > 0
    BY DEF Leaves, LinksIn
  <2> QED BY <2>1, <2>2, <2>3
<1>5. \A n \in 0 .. m : f[n][0] = <<>>
  <2>1. ~Exists(0) /\ 0 \in Int
    BY DEF Exists
  <2> QED BY <1>0, <2>1
<1>6. \A i \in 1 .. m : \A n : n = i - 1 =>
        \A x \in Linked : f[i][x] = page[x].entries \o f[n][page[x].next]
  BY <1>0, <1>1
<1> DEFINE Right == {n \in Nat : n <= m =>
                       \A q \in Linked : far[q] <= n => InChain(far, f[n][q], q)}
<1>2. 0 \in Right
  <2>1. \A q \in Linked : ~(far[q] <= 0)
    BY <1>1
  <2> QED BY <2>1
<1>3. ASSUME NEW n \in Nat, n \in Right PROVE n + 1 \in Right
  <2> SUFFICES ASSUME n + 1 <= m, NEW q \in Linked, far[q] <= n + 1
               PROVE  InChain(far, f[n + 1][q], q)
    OBVIOUS
  <2>1. n + 1 \in 1 .. m /\ n \in 0 .. m /\ n + 1 - 1 = n /\ n <= m
    OBVIOUS
  <2>2. f[n + 1][q] = page[q].entries \o f[n][page[q].next]
    <3> DEFINE i == n + 1
    <3>1. i \in 1 .. m /\ n = i - 1
      BY <2>1
    <3> HIDE DEF i
    <3>2. f[i][q] = page[q].entries \o f[n][page[q].next]
      BY <1>6, <3>1
    <3> QED BY <3>2 DEF i
  <2>3. CASE page[q].next = 0
    <3>1. far[q] = 1
      BY <2>3 DEF Leaves, LinksIn
    <3>2. f[n][0] = <<>>
      BY <1>5, <2>1
    <3> QED BY <2>2, <2>3, <3>1, <3>2, LastLeaf
  <2>4. CASE page[q].next # 0
    <3> DEFINE r == page[q].next
    <3>1. r \in Linked /\ far[q] = far[r] + 1
      BY <2>4 DEF Leaves, LinksIn
    <3> HIDE DEF r
    <3>2. far[r] <= n
      BY <1>1, <3>1
    <3>3. InChain(far, f[n][r], r)
      BY <1>3, <2>1, <3>1, <3>2
    <3>4. InChain(far, page[q].entries \o f[n][r], q)
      BY <3>1, <3>3, LeafAndRest
    <3> QED BY <2>2, <3>4 DEF r
  <2> QED BY <2>3, <2>4
<1> HIDE DEF Right
<1>4. Nat \subseteq Right
  BY <1>2, <1>3, Induction
<1> QED BY <1>4 DEF Right

LEMMA ChainHolds ==
  ASSUME OrderInv
  PROVE  ChainOrdered
<1> DEFINE m == Len(page)
           c == ChainFrom(1)
<1>1. PICK lo, hi, far : Leaves(lo, hi, far)
  BY LeavesHold
<1>2. m \in Nat
  BY DEF OrderInv, BalanceInv, TypeInv
<1>3. PICK f : IsWalk(f, m) /\ c = f[m][1]
  BY <1>2, WalkDef
<1> HIDE DEF c
<1>4. c \in Seq(NodeEntries) /\ SortedKeys(c) /\ IsInjective(c) /\ ToSet(c) = LinkedPairs
  <2>1. CASE page = <<>>
    <3>1. m = 0
      BY <2>1
    <3>2. c = <<>>
      <4> HIDE DEF m
      <4>1. 1 \in Int
        OBVIOUS
      <4>2. f[0][1] = <<>>
        BY <1>2, <1>3, <4>1, WalkFacts
      <4> QED BY <1>3, <3>1, <4>2
    <3>3. Linked = {}
      BY <3>1 DEF Linked, Tree
    <3>4. ToSet(c) = {} /\ LinkedPairs = {}
      BY <3>2, <3>3 DEF ToSet, LinkedPairs
    <3>5. c \in Seq(NodeEntries) /\ SortedKeys(c) /\ IsInjective(c)
      BY <3>2 DEF SortedKeys, IsInjective
    <3> QED BY <3>4, <3>5
  <2>2. CASE page # <<>>
    <3>1. 1 \in Linked /\ \A x \in Linked : far[x] <= far[1]
      BY <1>1, <2>2 DEF Leaves, LinksIn
    <3>2. far[1] \in Nat /\ far[1] <= m
      <4>1. far[1] \in Nat /\ far[1] <= IF Orphan = {} THEN m ELSE m - 1
        BY <1>1, <3>1 DEF Leaves, LinksIn
      <4> HIDE DEF m
      <4> QED BY <1>2, <4>1
    <3>3. m \in 0 .. m
      BY <1>2
    <3>4. InChain(far, c, 1)
      BY <1>1, <1>2, <1>3, <3>1, <3>2, <3>3, WalkOrder
    <3>5. Rest(far, 1) = Linked
      BY <3>1 DEF Rest
    <3> QED BY <3>4, <3>5 DEF InChain, LinkedPairs
  <2> QED BY <2>1, <2>2
<1>5. /\ LinkedPairs = IF Placed THEN done \cup {Pair} ELSE done
      /\ Placed => InFlight = {Pair}
  BY DEF OrderInv, PairsIn, Placed, AtInner, Working, InFlight, Pair
<1>6. done \subseteq LinkedPairs /\ LinkedPairs \subseteq done \cup InFlight
  BY <1>5
<1> QED BY <1>4, <1>6 DEF ChainOrdered, c

\* Whatever page is written last before the process ends, the leaves that
\* page 1 leads to hold the pairs inserted so far, each of them once and in
\* key order (insertAtLevel and insertAndSplit), and the one being inserted
\* with them or not.
THEOREM LeavesInOrder ==
  ASSUME Faults = {}, KeysPositive, SearchedInts
  PROVE  Spec => []ChainOrdered
<1>1. SearchInv /\ [Next]_vars => SearchInv'
  BY StepSearch
<1>2. SearchInv => ChainOrdered
  BY ChainHolds DEF SearchInv
<1> QED BY <1>1, <1>2, InitSearch, PTL DEF Spec
=============================================================================
