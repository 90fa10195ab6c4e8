------------------------------ MODULE SqlEngine ------------------------------
(***************************************************************************)
(* Class SqlEngine over one table: LOAD, which appends records to the      *)
(* table and inserts their keys into the index, and SELECT, which walks    *)
(* along the index when there is one and scans the table when not.         *)
(*                                                                         *)
(* The table is a RecordLog, whose actions are used here.  The index is    *)
(* the set of its pairs and a cursor: locate() leaves the pairs up to a    *)
(* key behind it, and readForward() returns the next in key order.  Its    *)
(* root and height are in memory while it is open and on disk only after   *)
(* close(), which load() does not reach when it returns early.             *)
(*                                                                         *)
(* by is history: what wrote a record.  rows and extra are what a SELECT   *)
(* prints: the rows of the pairs it has walked along (or of the scan), and *)
(* how many more it has printed astray, behind the last pair or under a    *)
(* root that is not the right one.                                         *)
(***************************************************************************)
EXTENDS Integers, Sequences, SequencesExt, FiniteSetsExt

CONSTANTS
  Pids, RECORDS_PER_PAGE, NoRecord, NoRid,   \* of RecordLog
  Dummies,      \* records that an indexed load appends first: 9, and 9 fill a page
  Lines,        \* what the lines of load files say: [key, value]
  DummyKeys,    \* what the uninitialised key of load() may be
  NoValue,      \* the empty string; values are numbers in strcmp's order
  CondLists,      \* the lists of conditions that are asked for
  Duplicates,   \* whether a key may be loaded twice
  NFds,         \* descriptors that a process may have open
  Faults,       \* subset of {"open", "read", "append", "insert", "restart"}
  MaxExtra      \* bound of the model: rows that one walk prints astray

Rids == [pid : Pids, sid : 0 .. RECORDS_PER_PAGE - 1]
Keys == {l.key : l \in Lines}
Tuples == [key : Keys \cup DummyKeys, value : {l.value : l \in Lines} \cup {NoValue},
           by : {"dummy", "plain", "indexed", "unsure"}]

ASSUME SqlEngineAssumption ==
  /\ Pids \subseteq Nat
  /\ 0 \in Pids
  /\ RECORDS_PER_PAGE \in Nat \ {0}
  /\ Dummies \in Nat /\ Dummies >= RECORDS_PER_PAGE
  /\ NFds \in Nat

VARIABLES
  rec, end, mode, ret,   \* of RecordLog: the table
  made,      \* the file of the table exists
  entries,   \* the pairs of the index
  root,      \* the header on disk: "none" (no file), "stored", "old" (root and
             \* height of an earlier time) or "wild" (never written)
  tree,      \* root and height of the open index: "none", "good", "old", "wild"
  fds,       \* descriptors in use, by objects that are gone as well
  call       \* the command that runs, or what the last one did

table == <<rec, end, mode, ret>>
vars == <<rec, end, mode, ret, made, entries, root, tree, fds, call>>

Log == INSTANCE RecordLog WITH
  Records <- Tuples, Faults <- {"open", "read", "write"}

Zero == [pid |-> 0, sid |-> 0]

Idle == [pc |-> "idle", op |-> "none", index |-> FALSE, n |-> 0, key |-> 0,
         conds |-> <<>>, via |-> "none", behind |-> {}, rid |-> Zero,
         rows |-> <<>>, extra |-> 0, rc |-> "OK", cut |-> FALSE]

Init ==
  /\ Log!Init
  /\ made = FALSE
  /\ entries = {}
  /\ root = "none" /\ tree = "none"
  /\ fds = 0
  /\ call = Idle
-----------------------------------------------------------------------------
(* Files.                                                                  *)

At(op, pc) == call.op = op /\ call.pc = pc

OpenTable(m) ==
  /\ fds < NFds
  /\ m = "w" \/ made
  /\ Log!Open(m)
  /\ made' = TRUE
  /\ fds' = fds + 1

OpenTableFails(m) ==
  /\ fds = NFds \/ (m = "r" /\ ~made) \/ "open" \in Faults
  /\ Log!OpenFails(m)
  /\ UNCHANGED <<made, fds>>

OpenIndex ==
  /\ fds < NFds
  /\ tree' = IF root \in {"none", "stored"} THEN "good" ELSE root
  /\ fds' = fds + 1

\* A header that cannot be read leaves the file open.
OpenIndexFails ==
  /\ \/ UNCHANGED fds
     \/ "open" \in Faults /\ fds < NFds /\ fds' = fds + 1
  /\ UNCHANGED <<root, tree>>

\* The command returns rc: what it had open it leaves open.  What it printed
\* stays, and its local variables go.
Returns(rc) ==
  /\ call' = [call EXCEPT !.pc = "idle", !.rc = rc, !.behind = {}, !.rid = Zero,
                          !.index = FALSE, !.n = 0, !.key = 0]
  /\ tree' = "none"
-----------------------------------------------------------------------------
(* load.                                                                   *)

\* The result of r.open is not looked at.  The bound leaves room for the
\* dummies.
LoadStart(index) ==
  /\ call.pc = "idle"
  /\ end.pid + 1 \in Pids
  /\ OpenTable("w") \/ OpenTableFails("w")
  /\ call' = [Idle EXCEPT !.op = "load", !.index = index,
                          !.pc = IF index THEN "index" ELSE "lines"]
  /\ UNCHANGED <<entries, root, tree>>

LoadIndex ==
  /\ At("load", "index")
  /\ OpenIndex
  /\ root' = IF root = "none" THEN "wild" ELSE root
  /\ call' = [call EXCEPT !.pc = "dummies"]
  /\ UNCHANGED <<table, made, entries>>

LoadIndexFails ==
  /\ At("load", "index")
  /\ fds = NFds \/ "open" \in Faults
  /\ OpenIndexFails
  /\ Returns("-1")
  /\ Log!Drop
  /\ UNCHANGED <<made, entries>>

\* Mutant of AfterDummies: one dummy less.
AfterDummiesEarly(n) == IF n + 1 >= Dummies - 1 THEN "lines" ELSE "dummies"

AfterDummies(n) == IF n + 1 >= Dummies THEN "lines" ELSE "dummies"

LoadDummy(k) ==
  /\ At("load", "dummies")
  /\ Log!Append([key |-> k, value |-> NoValue, by |-> "dummy"])
  /\ call' = [call EXCEPT !.n = @ + 1, !.pc = AfterDummies(call.n)]
  /\ UNCHANGED <<made, entries, root, tree, fds>>

\* By what a record is written: with an index whose root is not the right
\* one it is not sure where its pair goes.
Writer == IF ~call.index THEN "plain" ELSE IF tree = "good" THEN "indexed" ELSE "unsure"

LoadedKeys == {rec[r].key : r \in {q \in DOMAIN rec : rec[q].by # "dummy"}}

\* A line with a comma: parseLoadLine has found a key and a value.
LoadLine(l) ==
  /\ At("load", "lines")
  /\ Duplicates \/ l.key \notin LoadedKeys
  /\ Log!Append([key |-> l.key, value |-> l.value, by |-> Writer])
  /\ call' = [call EXCEPT !.key = l.key,
                          !.pc = IF call.index THEN "insert" ELSE "lines"]
  /\ UNCHANGED <<made, entries, root, tree, fds>>

\* A line without one: RC_INVALID_FILE_FORMAT.
LoadBadLine ==
  /\ At("load", "lines")
  /\ Returns("-1")
  /\ Log!Drop
  /\ UNCHANGED <<made, entries, root, fds>>

\* append() has failed, which leaves the table as it was, and load() returns:
\* neither file is closed.
LoadAppendFails ==
  /\ At("load", "dummies") \/ At("load", "lines")
  /\ mode # "w" \/ "append" \in Faults
  /\ Returns("-1")
  /\ Log!Drop
  /\ UNCHANGED <<made, entries, root, fds>>

\* Mutant of Pair: the id behind the record.
PairAfter == [key |-> call.key, ptr |-> end]

Pair == [key |-> call.key, ptr |-> ret.rid]

\* Mutant of LoadInsert: an insertion that fails is passed over.
LoadInsertFailing ==
  /\ At("load", "insert")
  /\ entries' = entries \cup {Pair} \/ UNCHANGED entries
  /\ root' = IF root = "stored" THEN "old" ELSE root
  /\ call' = [call EXCEPT !.pc = "lines"]
  /\ UNCHANGED <<table, made, tree, fds>>

\* The result of insert() is not looked at.  It may move the root, which the
\* header does not follow before close().
LoadInsert ==
  /\ At("load", "insert")
  /\ \/ entries' = entries \cup {Pair}
     \/ (tree # "good" \/ "insert" \in Faults) /\ UNCHANGED entries
  /\ root' = IF root = "stored" THEN "old" ELSE root
  /\ call' = [call EXCEPT !.pc = "lines"]
  /\ UNCHANGED <<table, made, tree, fds>>

\* BTreeIndex::close() stores the header and leaves the file open.
LoadEnd ==
  /\ At("load", "lines")
  /\ root' = IF ~call.index THEN root ELSE IF tree = "good" THEN "stored" ELSE tree
  /\ IF mode = "none" THEN Log!CloseFails /\ UNCHANGED fds
                      ELSE Log!Close /\ fds' = fds - 1
  /\ Returns("OK")
  /\ UNCHANGED <<made, entries>>
-----------------------------------------------------------------------------
(* Conditions.                                                             *)

Diff(c, r) == IF c.attr = 1 THEN r.key - c.value ELSE r.value - c.value

Holds(c, r) ==
  LET diff == Diff(c, r)
  IN CASE c.comp = "EQ" -> diff = 0
       [] c.comp = "NE" -> diff # 0
       [] c.comp = "LT" -> diff < 0
       [] c.comp = "GT" -> diff > 0
       [] c.comp = "LE" -> diff <= 0
       [] c.comp = "GE" -> diff >= 0

Broken(conds, r) == {i \in DOMAIN conds : ~Holds(conds[i], r)}

\* The first condition that r breaks says that no later key can be a match.
Stops(conds, r) ==
  LET c == conds[Min(Broken(conds, r))]
  IN c.attr = 1 /\ c.comp \in {"EQ", "LT", "LE"}

\* The key from which the walk may start: that of the first EQ, or the
\* greatest of a GT or GE.
KeysOf(conds, comps) ==
  {i \in DOMAIN conds : conds[i].attr # 2 /\ conds[i].comp \in comps}

StartKeys(conds) ==
  LET eq == KeysOf(conds, {"EQ"})
      gt == KeysOf(conds, {"GT", "GE"})
  IN CASE eq # {} -> {conds[Min(eq)].value}
       [] eq = {} /\ gt # {} -> {Max({conds[i].value : i \in gt})}
       [] OTHER -> {}

UpTo(k) == {e \in entries : e.key <= k}
Least(s) == {e \in s : \A f \in s : e.key <= f.key}
Greatest(s) == {e \in s : \A f \in s : f.key <= e.key}

\* Mutant of StepBack: the cursor stays behind the key.
StepBackNot(s) == {s}

\* From behind the pairs s the cursor goes back one, unless it is at the
\* first entry of a leaf, where nothing is behind it (BTreeIndex: BackIsBehind).
StepBack(s) == IF s = {} THEN {s} ELSE {s \ {e} : e \in Greatest(s)}

\* What may be behind the cursor when the walk begins.
Start(conds) ==
  IF StartKeys(conds) = {} THEN {UpTo(0)}
  ELSE UNION {StepBack(UpTo(k)) : k \in StartKeys(conds)}
-----------------------------------------------------------------------------
(* select.                                                                 *)

SelectStart(conds) ==
  /\ call.pc = "idle"
  /\ \/ /\ root # "none" /\ OpenIndex
        /\ call' = [Idle EXCEPT !.op = "select", !.pc = "table",
                                !.conds = conds, !.via = "index"]
        /\ UNCHANGED root
     \/ /\ root = "none" \/ fds = NFds \/ "open" \in Faults
        /\ OpenIndexFails
        /\ call' = [Idle EXCEPT !.op = "select", !.pc = "table",
                                !.conds = conds, !.via = "scan"]
  /\ UNCHANGED <<table, made, entries>>

SelectTable ==
  /\ At("select", "table")
  /\ OpenTable("r")
  /\ call' = [call EXCEPT !.pc = IF call.via = "index" THEN "locate" ELSE "scan"]
  /\ UNCHANGED <<entries, root, tree>>

SelectTableFails ==
  /\ At("select", "table")
  /\ OpenTableFails("r")
  /\ Returns("RC_FILE_OPEN_FAILED")
  /\ UNCHANGED <<entries, root>>

\* Where the walk is: among the leaves, unless the root is not the right one.
SelectLocate ==
  /\ At("select", "locate")
  /\ \E s \in Start(call.conds) :
       call' = [call EXCEPT !.pc = IF tree = "good" THEN "walk" ELSE "astray",
                            !.behind = s]
  /\ UNCHANGED <<table, made, entries, root, tree, fds>>

\* A node on the way down cannot be read: locate() leaves the cursor as it was,
\* which is not initialised, and select() walks from there.
SelectLocateFails ==
  /\ At("select", "locate")
  /\ "read" \in Faults
  /\ \E s \in SUBSET entries, pc \in {"walk", "astray"} :
       /\ pc = "walk" => tree = "good"
       /\ \A e \in s, f \in entries \ s : e.key <= f.key
       /\ call' = [call EXCEPT !.pc = pc, !.behind = s, !.cut = TRUE]
  /\ UNCHANGED <<table, made, entries, root, tree, fds>>

\* What becomes of c when record r of id rid has been read on the walk.
Considered(c, rid, r) ==
  CASE Broken(c.conds, r) = {} -> [c EXCEPT !.rows = Append(@, rid)]
    [] Broken(c.conds, r) # {} /\ Stops(c.conds, r) -> [c EXCEPT !.pc = "close"]
    [] OTHER -> c

Ahead == entries \ call.behind

WalkOn ==
  /\ At("select", "walk")
  /\ \E e \in Least(Ahead) :
       /\ Log!Read(e.ptr)
       /\ call' = [Considered(call, e.ptr, ret'.record) EXCEPT !.behind = @ \cup {e}]
  /\ UNCHANGED <<made, entries, root, tree, fds>>

\* The loop has no test for the end of the list.  The next pointer of the last
\* leaf is 0, and readForward() reads the header page as a leaf; only an index
\* that never had a root ends there, with an error.
WalkOut ==
  /\ At("select", "walk") /\ Ahead = {}
  /\ call' = [call EXCEPT !.pc = IF entries = {} THEN "close" ELSE "astray"]
  /\ UNCHANGED <<table, made, entries, root, tree, fds>>

\* readForward() or rf.read() returns an error: the rows so far are the
\* answer, with 0 for a result.
WalkFails ==
  /\ At("select", "walk") /\ Ahead # {}
  /\ "read" \in Faults
  /\ call' = [call EXCEPT !.pc = "close", !.cut = TRUE]
  /\ UNCHANGED <<table, made, entries, root, tree, fds>>

\* In the header page the first entry is the height and bytes that were never
\* set, and its next pointer is such bytes too; a root that is not the right
\* one leads anywhere as well.  Any row may be read, but one of the first page
\* only where readForward() leaves rid as it was, which is nowhere set.
WalkAstray ==
  /\ At("select", "astray")
  /\ call.extra < MaxExtra
  /\ \E rid \in DOMAIN rec :
       /\ rid.pid = 0 => tree # "good" \/ call.cut
       /\ Log!Read(rid)
       /\ call' = IF Broken(call.conds, rec[rid]) = {}
                  THEN [call EXCEPT !.extra = @ + 1]
                  ELSE Considered(call, rid, rec[rid])
  /\ UNCHANGED <<made, entries, root, tree, fds>>

\* Out there the walk ends when rf.read() or readForward() returns an error,
\* which nothing makes happen: a next pointer of 0 leads to the header page
\* again.
WalkEnd ==
  /\ At("select", "astray")
  /\ call' = [call EXCEPT !.pc = "close"]
  /\ UNCHANGED <<table, made, entries, root, tree, fds>>

\* Mutant of NextTuple: a tuple that is no match is not passed.
NextTupleMatch(r) == IF Broken(call.conds, r) = {} THEN Log!Succ(call.rid) ELSE call.rid

NextTuple(r) == Log!Succ(call.rid)

ScanOn ==
  /\ At("select", "scan") /\ call.rid # end
  /\ Log!Read(call.rid)
  /\ call' = [call EXCEPT !.rid = NextTuple(ret'.record),
       !.rows = IF Broken(call.conds, ret'.record) = {} THEN Append(@, call.rid) ELSE @]
  /\ UNCHANGED <<made, entries, root, tree, fds>>

ScanFails ==
  /\ At("select", "scan") /\ call.rid # end
  /\ "read" \in Faults
  /\ Log!ReadFails(call.rid)
  /\ call' = [call EXCEPT !.pc = "close", !.rc = "RC_FILE_READ_FAILED"]
  /\ UNCHANGED <<made, entries, root, tree, fds>>

ScanEnd ==
  /\ At("select", "scan") /\ call.rid = end
  /\ call' = [call EXCEPT !.pc = "close"]
  /\ UNCHANGED <<table, made, entries, root, tree, fds>>

\* Mutant of SelectClose: an index is closed that was never opened.
SelectCloseBoth ==
  /\ At("select", "close")
  /\ Log!Close
  /\ fds' = fds - 2
  /\ Returns(call.rc)
  /\ UNCHANGED <<made, entries, root>>

\* The index is not closed.
SelectClose ==
  /\ At("select", "close")
  /\ Log!Close
  /\ fds' = fds - 1
  /\ Returns(call.rc)
  /\ UNCHANGED <<made, entries, root>>
-----------------------------------------------------------------------------
\* The process ends, and another starts.
Restart ==
  /\ "restart" \in Faults
  /\ Log!Drop
  /\ fds' = 0
  /\ tree' = "none"
  /\ call' = Idle
  /\ UNCHANGED <<made, entries, root>>

Step ==
  \/ LoadIndex \/ LoadIndexFails
  \/ \E k \in DummyKeys : LoadDummy(k)
  \/ \E l \in Lines : LoadLine(l)
  \/ LoadBadLine \/ LoadAppendFails \/ LoadInsert \/ LoadEnd
  \/ SelectTable \/ SelectTableFails \/ SelectLocate
  \/ WalkOn \/ WalkOut
  \/ ScanOn \/ ScanEnd \/ SelectClose

Next ==
  \/ \E index \in BOOLEAN : LoadStart(index)
  \/ \E conds \in CondLists : SelectStart(conds)
  \/ Step \/ SelectLocateFails \/ WalkFails \/ WalkAstray \/ WalkEnd
  \/ ScanFails \/ Restart

\* A command that has begun goes on: there is one thread, and it waits for
\* nothing.  That a read fails is never required, nor that a walk that has
\* gone astray ends.
Spec == Init /\ [][Next]_vars /\ WF_vars(Step)
-----------------------------------------------------------------------------
(* Properties.                                                             *)

Ends == [pid : Nat, sid : 0 .. RECORDS_PER_PAGE - 1]
Pairs == [key : Keys, ptr : Rids]
Places == {"idle", "index", "dummies", "lines", "insert", "table", "locate",
           "walk", "astray", "scan", "close"}
Results == {"OK", "-1", "RC_FILE_OPEN_FAILED", "RC_FILE_READ_FAILED"}
Commands == [pc : Places, op : {"none", "load", "select"}, index : BOOLEAN, n : Nat,
             key : Keys \cup {0}, conds : CondLists \cup {<<>>},
             via : {"none", "scan", "index"}, behind : SUBSET Pairs, rid : Ends,
             rows : Seq(Rids), extra : Nat, rc : Results, cut : BOOLEAN]

\* The variables have these types, and the descriptors in use never exceed
\* those that the process may have.
TypeOK ==
  /\ rec \in [DOMAIN rec -> Tuples] /\ DOMAIN rec \subseteq Rids
  /\ end \in Ends
  /\ mode \in {"none", "r", "w"}
  /\ made \in BOOLEAN
  /\ entries \subseteq Pairs
  /\ root \in {"none", "stored", "old", "wild"}
  /\ tree \in {"none", "good", "old", "wild"}
  /\ fds \in 0 .. NFds
  /\ call \in Commands

RowsOf(kinds) == {r \in DOMAIN rec : rec[r].by \in kinds}

\* The index is never ahead of the table: every pair is the key and the id of
\* a row that a load with the index appended, and no row has two pairs; after
\* an early return, a failure or the end of the process as well.
IndexPointsToRows ==
  /\ \A e \in entries : e.ptr \in RowsOf({"indexed", "unsure"})
                         /\ rec[e.ptr].key = e.key
  /\ \A e, f \in entries : e.ptr = f.ptr => e = f

\* No pair points to the first page, which the nine dummies fill: a leaf ends at
\* its first entry whose id has page 0 (BTLeafNode::getKeyCount), so such a pair
\* would not be found, nor those behind it in the leaf.
FirstPageNotIndexed == \A e \in entries : e.ptr.pid # 0

\* A row that was appended with a good index and has no pair is the last of its
\* load: at most one row per interrupted load is missing in the index.
MissingIsLast ==
  \A r \in RowsOf({"indexed"}) :
    r \notin {e.ptr : e \in entries} => Log!Succ(r) \notin RowsOf({"indexed"})

Matching(s) == {r \in s : \A i \in DOMAIN call.conds : Holds(call.conds[i], rec[r])}

\* A SELECT without a failed read prints exactly the tuples that meet all the
\* conditions ("all conditions in conds must be ANDed together", SqlEngine.h),
\* each once: of the whole table when it scans, of the index when it uses it, in
\* the order of the keys; whichever condition the walk begins with and whichever
\* it stops at.  Of a walk that no condition stops this is said of what it prints
\* up to the last pair: the loop goes on from there, to the header page, and any
\* rows that it finds by way of that come on top (extra).
SelectExact ==
  /\ call.op = "select" /\ call.pc \in {"astray", "idle"}
  /\ call.rc = "OK" /\ ~call.cut
  /\ call.via = "scan" \/ root = "stored"
  => /\ IsInjective(call.rows)
     /\ ToSet(call.rows) = Matching(IF call.via = "scan" THEN DOMAIN rec
                                    ELSE {e.ptr : e \in entries})
     /\ call.via = "index" => \A i, j \in DOMAIN call.rows :
          i < j => rec[call.rows[i]].key < rec[call.rows[j]].key

\* Every command returns, or its walk gets behind the last pair: a scan ends, and
\* so does a walk among the leaves.  What the code does not give is that a walk
\* comes back from the header page, or that a command returns under a root that
\* is not the right one.
CommandReturns ==
  call.pc # "idle" ~> (call.pc \in {"idle", "astray"} \/ tree \in {"old", "wild"})
=============================================================================
