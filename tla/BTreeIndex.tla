----------------------------- MODULE BTreeIndex -----------------------------
(***************************************************************************)
(* Class BTreeIndex: a B+tree over the pages of one PageFile.  Page 0 is   *)
(* the header (rootPid and treeHeight, written by close() only), page 1    *)
(* the first leaf, and each node that a split creates takes the page at    *)
(* the end of the file.                                                    *)
(*                                                                         *)
(* insert() walks down from the root and rewrites the nodes from the leaf  *)
(* upwards, one page at a time.  Each of those writes is a step here, so   *)
(* that the process may end between any two of them (Faults "drop") and    *)
(* any of them may fail ("write").  Pages are read and written through     *)
(* the promise of PageStore: a read returns the last page written.         *)
(***************************************************************************)
EXTENDS BTreeNode, FiniteSets

CONSTANTS
  Keys,         \* keys that are inserted
  Searched,     \* keys that are searched for
  MaxInserts,   \* bound of the model: calls of insert()
  Duplicates,   \* may a key that is in the index be inserted again?
  Faults        \* subset of {"read", "write", "drop"}

ASSUME BTreeIndexAssumption ==
  /\ Keys \subseteq Int /\ Searched \subseteq Int
  /\ MaxInserts \in Nat
  /\ Duplicates \in BOOLEAN

VARIABLES
  header,       \* page 0 on disk: [rootPid, treeHeight], NoFile or Garbage
  page,         \* the other pages on disk, in page order from page 1
  mode,         \* of the object: "closed", "r", "w", "wild"
  rootPid,      \* BTreeIndex::rootPid
  treeHeight,   \* BTreeIndex::treeHeight
  call,         \* the call of insert() under way
  cursor,       \* the caller's IndexCursor
  ret,          \* what the last call returned: [op, rc, entry]
  tail,         \* the record that is appended to the table next
  done          \* the pairs whose insert() has returned 0

memory == <<rootPid, treeHeight>>
vars == <<header, page, mode, memory, call, cursor, ret, tail, done>>

NoFile == [rootPid |-> -2, treeHeight |-> 0]
Garbage == [rootPid |-> -3, treeHeight |-> 0]   \* a page never initialised
NoCursor == [pid |-> -1, eid |-> -1]
LostCursor == [pid |-> -2, eid |-> 0]           \* read from bytes of the header
NoNode == Node("none", <<>>, 0)

\* pc: "idle", "first" (the tree is empty), "nodes" (a node, and before it
\* its sibling if it was split, is to be written), "root", "return".
\* path: the nonleaf nodes above the node, as they were read going down.
\* sepKey and sepPid are parentKey and parentPid.
Idle == [pc |-> "idle", key |-> 0, rid |-> 0, path |-> <<>>, pid |-> 0,
         node |-> NoNode, sibling |-> NoNode, sepKey |-> -1, sepPid |-> 0,
         rc |-> "OK"]

Result(op, rc) == [op |-> op, rc |-> rc, entry |-> ZeroEntry]

Init ==
  /\ header = NoFile
  /\ page = <<>>
  /\ mode = "closed"
  /\ rootPid = -1 /\ treeHeight = 0
  /\ call = Idle
  /\ cursor = NoCursor
  /\ ret = Result("none", "OK")
  /\ tail = 1
  /\ done = {}
-----------------------------------------------------------------------------
(* Pages.                                                                  *)

EndPid == Len(page) + 1
Exists(p) == p \in 1 .. Len(page)

\* A read that fails leaves the buffer as the constructor made it.
LeafAt(p) == IF Exists(p) THEN page[p] ELSE NewLeaf
InnerAt(p) == IF Exists(p) THEN page[p] ELSE NewInner

Written(p, n) == IF Exists(p) THEN [page EXCEPT ![p] = n] ELSE Append(page, n)

\* The pages that the way down for k visits, the root first.
Descent(k) ==
  LET way[h \in 1 .. treeHeight] ==
        IF h = 1 THEN rootPid ELSE ChildFor(InnerAt(way[h - 1]), k)
  IN way

LeafFor(k) == Descent(k)[treeHeight]

\* Pages of the right class only, or pages that cannot be read.  After a
\* failed write a pointer may lead to a page of the other class, or from an
\* empty buffer to the header: what is made of its bytes is left open.
OnTrack(k) ==
  \A h \in 1 .. treeHeight :
    LET p == Descent(k)[h]
    IN p # 0 /\ (Exists(p) => page[p].kind = IF h = treeHeight THEN "leaf" ELSE "inner")
-----------------------------------------------------------------------------
(* open, close and the end of an object.                                   *)

OpenOK(m) ==
  /\ mode = "closed"
  /\ header \notin {NoFile, Garbage}
  /\ mode' = m
  /\ rootPid' = header.rootPid
  /\ treeHeight' = header.treeHeight
  /\ ret' = Result("open", "OK")
  /\ UNCHANGED <<header, page, call, cursor, tail, done>>

\* A new file: its first page is an array that was never initialised.
OpenNew ==
  /\ mode = "closed" /\ header = NoFile
  /\ mode' = "w"
  /\ header' = Garbage
  /\ rootPid' = -1 /\ treeHeight' = 0
  /\ ret' = Result("open", "OK")
  /\ UNCHANGED <<page, call, cursor, tail, done>>

\* No file to read, or its first page cannot be written or read.
OpenFails(m) ==
  /\ mode = "closed"
  /\ \/ m = "r" /\ header = NoFile
     \/ m = "w" /\ header = NoFile /\ "write" \in Faults
     \/ header # NoFile /\ "read" \in Faults
  /\ ret' = Result("open", "FAILED")
  /\ UNCHANGED <<header, page, mode, memory, call, cursor, tail, done>>

\* What the object does with a root and a height that are no more than old
\* bytes of the stack is left open: nothing is said of it until it goes.
OpenGarbage ==
  /\ mode = "closed" /\ header = Garbage
  /\ mode' = "wild"
  /\ ret' = Result("open", "OK")
  /\ UNCHANGED <<header, page, memory, call, cursor, tail, done>>

\* The test of pf.write's result is inverted: a header that was written is
\* reported as an error and the file stays open; one that could not be
\* written, as in a file opened for reading, goes on to pf.close().
Close ==
  /\ mode \in {"r", "w"} /\ call.pc = "idle"
  /\ \/ /\ mode = "w"
        /\ header' = [rootPid |-> rootPid, treeHeight |-> treeHeight]
        /\ ret' = Result("close", "RC_FILE_WRITE_FAILED")
        /\ UNCHANGED <<mode, cursor>>
     \/ /\ mode = "r" \/ "write" \in Faults
        /\ mode' = "closed"
        /\ cursor' = NoCursor
        /\ ret' = Result("close", "OK")
        /\ UNCHANGED header
  /\ UNCHANGED <<page, memory, call, tail, done>>

Saved == header = [rootPid |-> rootPid, treeHeight |-> treeHeight]

\* The object goes out of scope (there is no destructor), or the process
\* ends.  Without "drop" that is not before close() has been called.
Drop ==
  /\ mode # "closed"
  /\ \/ "drop" \in Faults \/ mode = "wild"
     \/ call.pc = "idle" /\ (mode = "r" \/ Saved)
  /\ mode' = "closed"
  /\ rootPid' = -1 /\ treeHeight' = 0
  /\ call' = Idle
  /\ cursor' = NoCursor
  /\ UNCHANGED <<header, page, ret, tail, done>>
-----------------------------------------------------------------------------
(* insert and insertAtLevel.                                               *)

\* Entry e goes into the node n of page p, which is split when it is full.
Place(c, p, n, e) ==
  IF ~Full(n)
  THEN [c EXCEPT !.pid = p, !.node = Insert(n, e), !.sibling = NoNode,
                 !.sepKey = -1]
  ELSE [c EXCEPT !.pid = p, !.node = SplitNode(n, e),
                 !.sibling = SplitSibling(n, e), !.sepKey = SplitKey(n)]

\* insertAtLevel returns.  Its caller one level up looks at parentKey and
\* not at the result; the top one, insert(), looks at the result first.
Up(c) ==
  IF c.path = <<>>
  THEN [c EXCEPT !.pc = IF c.rc = "OK" /\ c.sepKey > 0 THEN "root" ELSE "return",
                 !.node = NoNode, !.sibling = NoNode]
  ELSE LET above == Last(c.path)
           d == [c EXCEPT !.path = Front(@), !.rc = "OK"]
       IN IF c.sepKey > 0
          THEN Place(d, above.pid, above.node, Entry(c.sepKey, c.sepPid))
          ELSE [d EXCEPT !.pid = above.pid, !.node = above.node,
                         !.sibling = NoNode]

\* SqlEngine::load appends the record and inserts its key.
Calls(k) ==
  /\ mode = "w" /\ call.pc = "idle"
  /\ tail <= MaxInserts
  /\ Duplicates \/ \A e \in done : e.key # k
  /\ tail' = tail + 1
  /\ UNCHANGED <<header, page, mode, memory, cursor, ret, done>>

BeginEmpty(k) ==
  /\ treeHeight = 0
  /\ Calls(k)
  /\ call' = [Idle EXCEPT !.pc = "first", !.key = k, !.rid = tail]

\* The way down and the work on the leaf's buffer.  The result of reading
\* the leaf is not looked at.
Begin(k) ==
  /\ treeHeight > 0 /\ OnTrack(k)
  /\ Calls(k)
  /\ \E leaf \in {LeafAt(LeafFor(k))} \cup (IF "read" \in Faults THEN {NewLeaf} ELSE {}) :
       call' = Place([Idle EXCEPT !.pc = "nodes", !.key = k, !.rid = tail,
                                  !.path = [h \in 1 .. treeHeight - 1 |->
                                     [pid |-> Descent(k)[h],
                                      node |-> InnerAt(Descent(k)[h])]]],
                     LeafFor(k), leaf, Entry(k, tail))

\* treeHeight grows even if the leaf could not be written.
WriteFirst ==
  /\ call.pc = "first"
  /\ \/ /\ page' = Written(EndPid, Insert(NewLeaf, Entry(call.key, call.rid)))
        /\ call' = [call EXCEPT !.pc = "return"]
     \/ /\ "write" \in Faults
        /\ call' = [call EXCEPT !.pc = "return", !.rc = "-3"]
        /\ UNCHANGED page
  /\ rootPid' = EndPid
  /\ treeHeight' = treeHeight + 1
  /\ UNCHANGED <<header, mode, cursor, ret, tail, done>>

\* Mutant of WriteSibling: the sibling does not take over the next leaf.
WriteSiblingUnlinked ==
  /\ call.pc = "nodes" /\ call.sibling # NoNode
  /\ page' = Written(EndPid, call.sibling)
  /\ call' = [call EXCEPT !.sibling = NoNode, !.sepPid = EndPid,
       !.node.next = IF call.node.kind = "leaf" THEN EndPid ELSE @]
  /\ UNCHANGED <<header, mode, memory, cursor, ret, tail, done>>

\* The sibling is written first, at the end of the file, and takes over the
\* node's next leaf; the node will point to it.
WriteSibling ==
  /\ call.pc = "nodes" /\ call.sibling # NoNode
  /\ \/ /\ page' = Written(EndPid, [call.sibling EXCEPT !.next = call.node.next])
        /\ call' = [call EXCEPT !.sibling = NoNode, !.sepPid = EndPid,
             !.node.next = IF call.node.kind = "leaf" THEN EndPid ELSE @]
     \/ /\ "write" \in Faults
        /\ call' = Up([call EXCEPT !.sepPid = EndPid, !.rc = "1"])
        /\ UNCHANGED page
  /\ UNCHANGED <<header, mode, memory, cursor, ret, tail, done>>

\* Mutant of WriteNode: the node may be written before its sibling.
WriteNodeEarly ==
  /\ call.pc = "nodes"
  /\ page' = Written(call.pid, [call.node EXCEPT !.next =
               IF call.sibling # NoNode /\ call.node.kind = "leaf" THEN EndPid ELSE @])
  /\ call' = IF call.sibling = NoNode THEN Up(call) ELSE call
  /\ UNCHANGED <<header, mode, memory, cursor, ret, tail, done>>

\* The result is looked at for a leaf only.
WriteNode ==
  /\ call.pc = "nodes" /\ call.sibling = NoNode
  /\ \/ /\ page' = Written(call.pid, call.node)
        /\ call' = Up(call)
     \/ /\ "write" \in Faults
        /\ call' = Up([call EXCEPT !.rc =
                         IF call.node.kind = "leaf" THEN "1" ELSE @])
        /\ UNCHANGED page
  /\ UNCHANGED <<header, mode, memory, cursor, ret, tail, done>>

\* Mutant of WriteRoot: treeHeight is not counted up.
WriteRootOnly ==
  /\ call.pc = "root"
  /\ page' = Written(EndPid, RootNode(rootPid, call.sepKey, call.sepPid))
  /\ rootPid' = EndPid
  /\ call' = [call EXCEPT !.pc = "return"]
  /\ UNCHANGED <<header, mode, treeHeight, cursor, ret, tail, done>>

\* The old root was split: a new root above the two halves.
WriteRoot ==
  /\ call.pc = "root"
  /\ \/ page' = Written(EndPid, RootNode(rootPid, call.sepKey, call.sepPid))
     \/ "write" \in Faults /\ UNCHANGED page
  /\ rootPid' = EndPid
  /\ treeHeight' = treeHeight + 1
  /\ call' = [call EXCEPT !.pc = "return"]
  /\ UNCHANGED <<header, mode, cursor, ret, tail, done>>

Return ==
  /\ call.pc = "return"
  /\ ret' = Result("insert", call.rc)
  /\ done' = IF call.rc = "OK" THEN done \cup {Entry(call.key, call.rid)} ELSE done
  /\ call' = Idle
  /\ UNCHANGED <<header, page, mode, memory, cursor, tail>>
-----------------------------------------------------------------------------
(* locate and readForward.                                                 *)

\* insert or locate comes upon a page of the wrong class.
Astray(k) ==
  /\ mode \in {"r", "w"} /\ call.pc = "idle"
  /\ ~OnTrack(k)
  /\ mode' = "wild"
  /\ UNCHANGED <<header, page, memory, call, cursor, ret, tail, done>>

\* Behind the keys up to k in the leaf.  A leaf that cannot be read counts
\* as the number of keys of the node above it, and is no error.
Locate(k) ==
  /\ mode = "r" /\ OnTrack(k)
  /\ IF treeHeight = 0
     THEN cursor' = [pid |-> rootPid, eid |-> 0]
     ELSE \/ /\ Exists(LeafFor(k))
             /\ cursor' = [pid |-> LeafFor(k),
                           eid |-> UpTo(page[LeafFor(k)].entries, k)]
          \/ /\ ~Exists(LeafFor(k)) \/ "read" \in Faults
             /\ cursor' = [pid |-> LeafFor(k),
                           eid |-> IF k < 0 \/ treeHeight = 1 THEN 0
                                   ELSE Len(InnerAt(Descent(k)[treeHeight - 1]).entries)]
  /\ ret' = Result("locate", "OK")
  /\ UNCHANGED <<header, page, mode, memory, call, tail, done>>

LocateFails ==
  /\ mode = "r"
  /\ treeHeight > 1 /\ "read" \in Faults
  /\ ret' = Result("locate", "FAILED")
  /\ UNCHANGED <<header, page, mode, memory, call, cursor, tail, done>>

\* Mutant of Advance: the position behind the last entry is not left.
AdvancePast(n) ==
  IF cursor.eid < Len(n.entries) THEN [cursor EXCEPT !.eid = @ + 1]
                                 ELSE [pid |-> n.next, eid |-> 0]

Advance(n) ==
  IF cursor.eid + 1 < Len(n.entries) THEN [cursor EXCEPT !.eid = @ + 1]
                                     ELSE [pid |-> n.next, eid |-> 0]

\* From the entry read to the next, in this leaf or the one it points to.
\* readForward says nothing of the end: the last leaf points to page 0.
ReadForward ==
  /\ mode = "r" /\ Exists(cursor.pid)
  /\ LET n == page[cursor.pid]
     IN /\ ret' = [op |-> "read", rc |-> "OK", entry |->
                     IF CanRead(n, cursor.eid) THEN ReadEntry(n, cursor.eid)
                                               ELSE ZeroEntry]
        /\ cursor' = Advance(n)
  /\ UNCHANGED <<header, page, mode, memory, call, tail, done>>

\* The header page read as a leaf: rootPid for the key, treeHeight and a
\* byte that was never set for the record, the next position any.
ReadHeader ==
  /\ mode = "r" /\ cursor.pid = 0
  /\ ret' = [op |-> "read", rc |-> "OK", entry |-> Entry(header.rootPid, Junk)]
  /\ cursor' = LostCursor
  /\ UNCHANGED <<header, page, mode, memory, call, tail, done>>

ReadFails ==
  /\ mode = "r" /\ cursor \notin {NoCursor, LostCursor}
  /\ cursor.pid = -1 \/ cursor.pid > Len(page) \/ "read" \in Faults
  /\ ret' = Result("read", "FAILED")
  /\ UNCHANGED <<header, page, mode, memory, call, cursor, tail, done>>

Next ==
  \/ \E m \in {"r", "w"} : OpenOK(m) \/ OpenFails(m)
  \/ OpenNew \/ OpenGarbage \/ Close \/ Drop
  \/ \E k \in Keys : BeginEmpty(k) \/ Begin(k)
  \/ WriteFirst \/ WriteSibling \/ WriteNode \/ WriteRoot \/ Return
  \/ \E k \in Searched : Locate(k)
  \/ \E k \in Keys \cup Searched : Astray(k)
  \/ LocateFails \/ ReadForward \/ ReadHeader \/ ReadFails

Spec == Init /\ [][Next]_vars
-----------------------------------------------------------------------------
(* Properties.                                                             *)

Entries(p) == ToSet(page[p].entries)
LeafPages == {p \in 1 .. Len(page) : page[p].kind = "leaf"}
InFlight == IF call.pc = "idle" THEN {} ELSE {Entry(call.key, call.rid)}

\* The entries of the leaves in the order of their next pointers, from p on.
\* A list of leaves is no longer than the file.
ChainFrom(p) ==
  LET walk[n \in 0 .. Len(page)] ==
        [q \in Int |-> IF n = 0 \/ ~Exists(q) THEN <<>>
                       ELSE page[q].entries \o walk[n - 1][page[q].next]]
  IN walk[Len(page)][p]

\* Every variable has the type its declaration in BTreeIndex.h gives it, and
\* no node on disk has more keys than fit in its page.
TypeOK ==
  /\ header \in [rootPid : Int, treeHeight : Nat]
  /\ \A p \in 1 .. Len(page) :
       /\ page[p].kind \in {"leaf", "inner"}
       /\ page[p].entries # <<>> /\ Len(page[p].entries) <= Capacity(page[p])
       /\ \A e \in Entries(p) : e.key \in Int /\ e.ptr \in Nat
       /\ page[p].next \in Nat
  /\ mode \in {"closed", "r", "w", "wild"}
  /\ rootPid \in Int /\ treeHeight \in Nat
  /\ call.pc \in {"idle", "first", "nodes", "root", "return"}
  /\ cursor \in [pid : Int, eid : Int]
  /\ tail \in 1 .. MaxInserts + 1
  /\ \A e \in done : e.ptr < tail

\* Whatever page is written last before the process ends, the keys of every
\* node on disk are in order ("keys inside a B+tree node are always kept
\* sorted", BTreeNode.cc).
NodesSorted == \A p \in 1 .. Len(page) : SortedKeys(page[p].entries)

\* Whatever page is written last before the process ends, the leaves that
\* page 1 leads to hold the pairs inserted so far, each of them once and in
\* key order, the one being inserted with them or not.
ChainOrdered ==
  LET chain == ChainFrom(1)
  IN /\ SortedKeys(chain)
     /\ IsInjective(chain)
     /\ done \subseteq ToSet(chain)
     /\ ToSet(chain) \subseteq done \cup InFlight

\* A pair whose insertion was reported is on a leaf of the file, for ever.
Kept == done \subseteq UNION {Entries(p) : p \in LeafPages}

\* treeHeight levels below a root every page is a leaf, above that none is,
\* and each of them has been written: locate() and insertAtLevel() count
\* levels, they cannot see what a page holds.
Under(ps) == UNION {{e.ptr : e \in Entries(p)} : p \in {q \in ps : Exists(q)}}
Level(root, height) ==
  LET at[h \in 1 .. height] == IF h = 1 THEN {root} ELSE Under(at[h - 1])
  IN at
BalancedFrom(root, height) ==
  \A h \in 1 .. height : \A p \in Level(root, height)[h] :
    Exists(p) /\ page[p].kind = IF h = height THEN "leaf" ELSE "inner"

\* The tree that the object in memory works on, and the one that the next
\* open will find, have leaves at the depth that their height says, at every
\* moment of an insertion and whatever has been lost with an older object.
Balanced ==
  /\ mode \in {"r", "w"} => BalancedFrom(rootPid, treeHeight)
  /\ header \notin {NoFile, Garbage} => BalancedFrom(header.rootPid, header.treeHeight)

\* The way down for a key that is in the index ends at a leaf that holds it
\* ("identify the leaf node where searchKey may exist", BTreeIndex.h).
LeafFound ==
  mode \in {"r", "w"} /\ call.pc = "idle"
  => \A e \in done : treeHeight > 0 /\ Exists(LeafFor(e.key))
                     /\ \E f \in Entries(LeafFor(e.key)) : f.key = e.key

\* A cursor that locate() leaves at the first entry of a leaf has no smaller or
\* equal key behind it, in any leaf: SqlEngine::select, which takes one step
\* back unless eid is 0, never needs to step back into the leaf before.
BackIsBehind ==
  [][\A k \in Searched : Locate(k) /\ cursor'.eid = 0 => \A e \in done : e.key > k]_vars

\* How many pairs are before the cursor on the way along the leaves.
Behind ==
  IF cursor.pid < 0 THEN IF cursor.pid = -1 /\ cursor.eid = 0 THEN 0 ELSE -1
  ELSE Len(ChainFrom(1)) - Len(ChainFrom(cursor.pid)) + cursor.eid

OI == INSTANCE OrderedIndex WITH
  Rids <- 1 .. MaxInserts, entries <- ChainFrom(1), pending <- InFlight,
  at <- Behind

\* The pages, the levels and the order of the writes come to a sorted list
\* that a pair joins in one step, and to a cursor that walks along it.
ImplementsOrderedIndex == OI!Spec
=============================================================================
