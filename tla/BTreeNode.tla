------------------------------ MODULE BTreeNode ------------------------------
(***************************************************************************)
(* Classes BTLeafNode and BTNonLeafNode: what they do to the page they     *)
(* hold in their buffer.  A node is the sequence of its entries, as far as *)
(* the first whose pointer is 0 (getKeyCount), and the page that a leaf    *)
(* keeps in its last four bytes as the next leaf.  A page does not say     *)
(* which class wrote it: "kind" is for the properties only.                *)
(*                                                                         *)
(* Positions are described, not searched for.                              *)
(***************************************************************************)
EXTENDS Integers, Sequences, SequencesExt

CONSTANTS
  LeafMax,      \* maxNumKeys of a leaf (85 in the code)
  InnerMax      \* maxNumKeys of a nonleaf node (127 in the code)

ASSUME BTreeNodeAssumption ==
  /\ LeafMax \in Nat /\ LeafMax >= 3 /\ LeafMax % 2 = 1
  /\ InnerMax \in Nat /\ InnerMax >= 3 /\ InnerMax % 2 = 1

INT_MIN == -2147483647 - 1    \* initializeRoot's first key

\* ptr is the record of a leaf's entry, the child page of a nonleaf's.
Entry(key, ptr) == [key |-> key, ptr |-> ptr]
Node(kind, entries, next) == [kind |-> kind, entries |-> entries, next |-> next]

\* The buffer as the constructors leave it, and as a failed read leaves it.
NewLeaf == Node("leaf", <<>>, 0)
NewInner == Node("inner", <<>>, 0)

Capacity(n) == IF n.kind = "leaf" THEN LeafMax ELSE InnerMax

\* Mutant of Full: one entry more than fits.
FullLate(n) == Len(n.entries) > Capacity(n)

Full(n) == Len(n.entries) >= Capacity(n)

\* How many entries of s come before the first with a key that is not less
\* than k, or greater than k: where the loops over the entries stop.
Below(s, k) ==
  CHOOSE n \in 0 .. Len(s) :
    (\A i \in 1 .. n : s[i].key < k) /\ (n < Len(s) => s[n + 1].key >= k)
UpTo(s, k) ==
  CHOOSE n \in 0 .. Len(s) :
    (\A i \in 1 .. n : s[i].key <= k) /\ (n < Len(s) => s[n + 1].key > k)

\* Mutant of LeafPut: the entry goes behind the last one.
LeafAppend(s, e) == Append(s, e)

\* BTLeafNode::insert puts an entry before those with the same key,
\* BTNonLeafNode::insert behind them.  The node is not full.
LeafPut(s, e) == InsertAt(s, Below(s, e.key) + 1, e)
InnerPut(s, e) == InsertAt(s, UpTo(s, e.key) + 1, e)
Put(kind, s, e) == IF kind = "leaf" THEN LeafPut(s, e) ELSE InnerPut(s, e)

Insert(n, e) == [n EXCEPT !.entries = Put(n.kind, @, e)]

\* Mutant of Half: rounded up.
HalfUp(n) == (Capacity(n) + 1) \div 2

\* insertAndSplit on a full node: the right half moves to the sibling entry
\* by entry, then e goes to the side its key belongs to.  The key passed up
\* is the one that was first of the right half.
Half(n) == Capacity(n) \div 2

\* Mutant of SplitKey: the last key of the left half is passed up.
SplitKeyLeft(n) == n.entries[Half(n)].key

SplitKey(n) == n.entries[Half(n) + 1].key

PutAll(kind, s) ==
  LET put[i \in 0 .. Len(s)] ==
        IF i = 0 THEN <<>> ELSE Put(kind, put[i - 1], s[i])
  IN put[Len(s)]

RightHalf(n) == PutAll(n.kind, SubSeq(n.entries, Half(n) + 1, Len(n.entries)))

GoesLeft(n, e) == e.key < SplitKey(n)

SplitNode(n, e) ==
  LET left == SubSeq(n.entries, 1, Half(n))
  IN [n EXCEPT !.entries =
        IF GoesLeft(n, e) THEN Put(n.kind, left, e) ELSE left]

SplitSibling(n, e) ==
  Node(n.kind,
       IF GoesLeft(n, e) THEN RightHalf(n) ELSE Put(n.kind, RightHalf(n), e),
       0)

\* The child to follow: of the last entry with a key at most k, or of the
\* first entry; 0 in a node with no entries.  An entry with key 0 ends the
\* search even if more follow.
ChildFor(n, k) ==
  LET upTo == UpTo(n.entries, k)
      zeros == {i \in 1 .. upTo : n.entries[i].key = 0}
      last == IF zeros = {} THEN upTo
              ELSE CHOOSE i \in zeros : \A j \in zeros : i <= j
  IN IF n.entries = <<>> THEN 0
     ELSE n.entries[IF last = 0 THEN 1 ELSE last].ptr

\* BTNonLeafNode::initializeRoot.
RootNode(pid1, key, pid2) ==
  Node("inner", InnerPut(InnerPut(<<>>, Entry(INT_MIN, pid1)), Entry(key, pid2)), 0)

\* BTLeafNode::readEntry lets the position just behind the last entry
\* through.  The bytes there are zero; in a full node they are the pointer to
\* the next leaf and what lies behind the buffer, a record id of any value.
ZeroEntry == Entry(0, 0)
Junk == -1
CanRead(n, eid) == 0 <= eid /\ eid <= Len(n.entries)
ReadEntry(n, eid) ==
  IF eid < Len(n.entries) THEN n.entries[eid + 1]
  ELSE IF Full(n) THEN Entry(n.next, Junk) ELSE ZeroEntry

SortedKeys(s) == \A i, j \in 1 .. Len(s) : i < j => s[i].key <= s[j].key
=============================================================================
