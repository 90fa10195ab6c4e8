-------------------------- MODULE SqlEngine_proofs --------------------------
(***************************************************************************)
(* What LOAD keeps true of the table and the index, for any number of      *)
(* records, keys, conditions and descriptors, through early returns,       *)
(* failed reads, opens and appends, and the end of the process.            *)
(***************************************************************************)
EXTENDS SqlEngine, WellFoundedInduction, TLAPS

\* Record ids in the order of the log.
Before(r, q) == r.pid < q.pid \/ (r.pid = q.pid /\ r.sid < q.sid)

\* No record is at the end or behind it.
EndIsFree == \A r \in DOMAIN rec : Before(r, end)

\* The calls that write to the index have it open, and dummies are counted
\* from 0.
WithIndex ==
  /\ call.op = "load" /\ call.pc \in {"index", "dummies", "insert"} => call.index
  /\ At("load", "index") => call.n = 0

\* The table that is open holds a descriptor.
HeldFd == mode # "none" => fds > 0

\* While dummies are appended, as many slots at least are behind the end.
DummiesFill == At("load", "dummies") => end.pid > 0 \/ end.sid >= call.n

HasPair(r) == \E e \in entries : e.ptr = r

\* Before a line is read, the record before the end is no row without a pair.
NothingMissing ==
  At("load", "lines") /\ call.index =>
    /\ end.pid > 0
    /\ tree = "good" /\ "insert" \notin Faults =>
         \A r \in RowsOf({"indexed"}) : Log!Succ(r) = end => HasPair(r)

\* Before the key of a record is inserted, the record is the last of the log
\* and has no pair.
LastIsNew ==
  At("load", "insert") =>
    /\ ret.rid \in RowsOf({"indexed", "unsure"})
    /\ rec[ret.rid].key = call.key /\ call.key \in Keys
    /\ ~HasPair(ret.rid)
    /\ ret.rid.pid # 0
    /\ Log!Succ(ret.rid) = end
    /\ end.pid > 0

\* If an insertion into the index fails, any number of rows may be missing.
FewMissing == "insert" \notin Faults => MissingIsLast

Inv == /\ TypeOK /\ EndIsFree /\ WithIndex /\ HeldFd
       /\ DummiesFill /\ NothingMissing /\ LastIsNew
       /\ IndexPointsToRows /\ FirstPageNotIndexed /\ FewMissing
-----------------------------------------------------------------------------
(* Record ids.                                                             *)

LEMMA EndsFacts ==
  ASSUME NEW r \in Ends
  PROVE  /\ Log!Succ(r) \in Ends
         /\ Before(r, Log!Succ(r))
         /\ r.pid > 0 => Log!Succ(r).pid > 0
BY SqlEngineAssumption DEF Ends, Log!Succ, Before

LEMMA SuccInjective ==
  ASSUME NEW r \in Ends, NEW q \in Ends, Log!Succ(r) = Log!Succ(q)
  PROVE  r = q
BY SqlEngineAssumption DEF Ends, Log!Succ

LEMMA BeforeTransitive ==
  ASSUME NEW r \in Ends, NEW q \in Ends, NEW s \in Ends, Before(r, q), Before(q, s)
  PROVE  Before(r, s)
BY DEF Ends, Before

LEMMA NotBeforeItself == \A r \in Ends : ~Before(r, r)
BY DEF Ends, Before

LEMMA RidsAreEnds == Rids \subseteq Ends
BY SqlEngineAssumption DEF Rids, Ends

\* What appending record t does to the log.
LEMMA AppendEffect ==
  ASSUME Inv, NEW t \in Tuples, Log!Append(t)
  PROVE  /\ end \in Rids /\ end \notin DOMAIN rec
         /\ DOMAIN rec' = DOMAIN rec \cup {end}
         /\ rec'[end] = t
         /\ \A r \in DOMAIN rec : rec'[r] = rec[r]
         /\ rec' \in [DOMAIN rec' -> Tuples] /\ DOMAIN rec' \subseteq Rids
         /\ end' = Log!Succ(end) /\ end' \in Ends
         /\ ret'.rid = end /\ mode' = mode /\ mode = "w"
         /\ EndIsFree'
         /\ Log!Succ(end) \notin DOMAIN rec'
<1>1. end \in Ends /\ end.pid \in Pids /\ DOMAIN rec \subseteq Rids
  BY DEF Inv, TypeOK, Log!Append
<1>2. end \in Rids
  BY <1>1 DEF Ends, Rids
<1>3. end \notin DOMAIN rec
  BY <1>1, NotBeforeItself DEF Inv, EndIsFree
<1>4. rec' = [i \in DOMAIN rec \cup {end} |-> IF i = end THEN t ELSE rec[i]]
  BY DEF Log!Append
<1>5. DOMAIN rec' = DOMAIN rec \cup {end}
  BY <1>4
<1>6. rec'[end] = t /\ \A r \in DOMAIN rec : rec'[r] = rec[r]
  BY <1>3, <1>4
<1>7. rec' \in [DOMAIN rec' -> Tuples]
  BY <1>4, <1>5 DEF Inv, TypeOK
<1>8. end' = Log!Succ(end) /\ ret'.rid = end /\ mode' = mode /\ mode = "w"
  BY DEF Log!Append
<1>9. end' \in Ends /\ Before(end, end')
  BY <1>1, <1>8, EndsFacts
<1>10. EndIsFree'
  <2> SUFFICES ASSUME NEW r \in DOMAIN rec' PROVE Before(r, end')
    BY DEF EndIsFree, Before
  <2>1. CASE r = end
    BY <2>1, <1>9
  <2>2. CASE r \in DOMAIN rec
    <3>1. r \in Ends /\ Before(r, end)
      BY <2>2, <1>1, RidsAreEnds DEF Inv, EndIsFree
    <3> QED
      BY <3>1, <1>1, <1>9, BeforeTransitive
  <2> QED
    BY <2>1, <2>2, <1>5
<1>11. Log!Succ(end) \notin DOMAIN rec'
  BY <1>8, <1>9, <1>10, NotBeforeItself DEF EndIsFree, Before
<1> QED
  BY <1>1, <1>2, <1>3, <1>5, <1>6, <1>7, <1>8, <1>9, <1>10, <1>11
-----------------------------------------------------------------------------
(* Steps that write to neither the table nor the index.                    *)

LEMMA QuietStep ==
  ASSUME Inv, TypeOK', rec' = rec, end' = end, entries' = entries,
         WithIndex', HeldFd',
         ~(call'.op = "load" /\ call'.pc = "insert"),
         call'.op = "load" /\ call'.pc = "dummies" => call'.n = 0,
         call'.op = "load" /\ call'.pc = "lines" => ~call'.index
  PROVE  Inv'
<1>1. EndIsFree' /\ IndexPointsToRows' /\ FirstPageNotIndexed' /\ FewMissing'
  BY DEF Inv, EndIsFree, IndexPointsToRows, FirstPageNotIndexed, FewMissing,
         MissingIsLast, RowsOf
<1>2. DummiesFill'
  BY DEF Inv, TypeOK, Ends, DummiesFill, At
<1>3. NothingMissing' /\ LastIsNew'
  BY DEF NothingMissing, LastIsNew, At
<1> QED
  BY <1>1, <1>2, <1>3 DEF Inv

\* Where the table and the index are as they were, the types are a matter of
\* the other variables.
LEMMA QuietTypes ==
  ASSUME Inv, rec' = rec, end' = end, entries' = entries,
         mode' \in {"none", "r", "w"}, made' \in BOOLEAN,
         root' \in {"none", "stored", "old", "wild"},
         tree' \in {"none", "good", "old", "wild"},
         fds' \in 0 .. NFds, call' \in Commands
  PROVE  TypeOK'
BY DEF Inv, TypeOK

LEMMA FdsType == Inv => fds \in 0 .. NFds
BY DEF Inv, TypeOK

\* The descriptor that an open takes.
LEMMA FdTaken ==
  ASSUME Inv, fds < NFds
  PROVE  fds + 1 \in 0 .. NFds /\ fds + 1 > 0
BY FdsType, SqlEngineAssumption

LEMMA IdleCommand == Idle \in Commands /\ Zero \in Ends
<1>1. Zero \in Ends
  BY SqlEngineAssumption DEF Zero, Ends
<1>2. <<>> \in Seq(Rids)
  OBVIOUS
<1> QED
  BY <1>1, <1>2 DEF Idle, Commands, Places, Results

LEMMA OpenTableEffect ==
  ASSUME Inv, NEW m \in {"r", "w"}, OpenTable(m) \/ OpenTableFails(m)
  PROVE  /\ rec' = rec /\ end' = end
         /\ mode' \in {"none", "r", "w"} /\ made' \in BOOLEAN
         /\ fds' \in 0 .. NFds /\ HeldFd'
<1>1. CASE OpenTable(m)
  BY <1>1, FdTaken DEF OpenTable, Log!Open, HeldFd
<1>2. CASE OpenTableFails(m)
  BY <1>2 DEF OpenTableFails, Log!OpenFails, Inv, TypeOK, HeldFd
<1> QED
  BY <1>1, <1>2

LEMMA ReturnsEffect ==
  ASSUME Inv, NEW rc \in Results, Returns(rc)
  PROVE  call' \in Commands /\ call'.pc = "idle" /\ tree' = "none"
<1>1. call \in Commands
  BY DEF Inv, TypeOK
<1> QED
  BY <1>1, IdleCommand DEF Returns, Commands, Places

\* The steps of a load that neither append nor insert.
LEMMA LoadStartInv == ASSUME Inv, NEW index \in BOOLEAN, LoadStart(index) PROVE Inv'
<1>1. /\ rec' = rec /\ end' = end /\ mode' \in {"none", "r", "w"}
      /\ made' \in BOOLEAN /\ fds' \in 0 .. NFds /\ HeldFd'
  BY OpenTableEffect DEF LoadStart
<1>2. /\ call' \in Commands /\ call'.op = "load" /\ call'.n = 0 /\ call'.index = index
      /\ call'.pc = IF index THEN "index" ELSE "lines"
  BY IdleCommand DEF LoadStart, Commands, Places, Idle
<1>3. entries' = entries /\ root' = root /\ tree' = tree
  BY DEF LoadStart
<1>4. TypeOK'
  BY <1>1, <1>2, <1>3, QuietTypes DEF Inv, TypeOK
<1>5. WithIndex'
  BY <1>2 DEF WithIndex, At
<1> QED
  BY <1>1, <1>2, <1>3, <1>4, <1>5, QuietStep

LEMMA LoadIndexInv == ASSUME Inv, LoadIndex PROVE Inv'
<1>1. /\ call \in Commands /\ call.op = "load" /\ call.pc = "index"
      /\ call.index /\ call.n = 0
  BY DEF LoadIndex, At, Inv, TypeOK, WithIndex
<1>2. /\ call' \in Commands /\ call'.op = "load" /\ call'.pc = "dummies"
      /\ call'.n = 0 /\ call'.index
  BY <1>1 DEF LoadIndex, Commands, Places
<1>3. /\ rec' = rec /\ end' = end /\ mode' = mode /\ made' = made
      /\ entries' = entries
  BY DEF LoadIndex, table
<1>4. fds' \in 0 .. NFds /\ fds' > 0 /\ tree' \in {"none", "good", "old", "wild"}
  BY FdTaken DEF LoadIndex, OpenIndex, Inv, TypeOK
<1>5. root' \in {"none", "stored", "old", "wild"}
  BY DEF LoadIndex, Inv, TypeOK
<1>6. TypeOK'
  BY <1>2, <1>3, <1>4, <1>5, QuietTypes DEF Inv, TypeOK
<1>7. WithIndex' /\ HeldFd'
  BY <1>2, <1>4 DEF WithIndex, At, HeldFd
<1> QED
  BY <1>2, <1>3, <1>6, <1>7, QuietStep

\* An early return: the object that has the table goes, its descriptor stays.
LEMMA EarlyReturn ==
  ASSUME Inv, NEW rc \in Results, Returns(rc), Log!Drop,
         made' = made, entries' = entries, root' = root, fds' \in 0 .. NFds
  PROVE  Inv'
<1>1. call' \in Commands /\ call'.pc = "idle" /\ tree' = "none"
  BY ReturnsEffect
<1>2. rec' = rec /\ end' = end /\ mode' = "none"
  BY DEF Log!Drop
<1>3. TypeOK'
  BY <1>1, <1>2, QuietTypes DEF Inv, TypeOK
<1>4. WithIndex' /\ HeldFd'
  BY <1>1, <1>2 DEF WithIndex, At, HeldFd
<1> QED
  BY <1>1, <1>2, <1>3, <1>4, QuietStep

LEMMA OpenIndexFailsFds == ASSUME Inv, OpenIndexFails PROVE fds' \in 0 .. NFds
BY FdTaken DEF OpenIndexFails, Inv, TypeOK

LEMMA LoadReturnsInv ==
  ASSUME Inv, LoadIndexFails \/ LoadBadLine \/ LoadAppendFails
  PROVE  Inv'
<1>1. CASE LoadIndexFails
  BY <1>1, EarlyReturn, OpenIndexFailsFds DEF LoadIndexFails, OpenIndexFails, Results
<1>2. CASE LoadBadLine
  BY <1>2, EarlyReturn, FdsType DEF LoadBadLine, Results
<1>3. CASE LoadAppendFails
  BY <1>3, EarlyReturn, FdsType DEF LoadAppendFails, Results
<1> QED
  BY <1>1, <1>2, <1>3

LEMMA LoadEndInv == ASSUME Inv, LoadEnd PROVE Inv'
<1>1. call' \in Commands /\ call'.pc = "idle" /\ tree' = "none"
  BY ReturnsEffect DEF LoadEnd, Results
<1>2. rec' = rec /\ end' = end /\ mode' = "none" /\ fds' \in 0 .. NFds
  <2>1. CASE mode = "none"
    BY <2>1 DEF LoadEnd, Log!CloseFails, Inv, TypeOK
  <2>2. CASE mode # "none"
    <3>1. fds \in 0 .. NFds /\ fds > 0
      BY <2>2, FdsType DEF Inv, HeldFd
    <3>2. fds - 1 \in 0 .. NFds
      BY <3>1, SqlEngineAssumption
    <3> QED
      BY <2>2, <3>2 DEF LoadEnd, Log!Close
  <2> QED
    BY <2>1, <2>2
<1>3. made' = made /\ entries' = entries /\ root' \in {"none", "stored", "old", "wild"}
  BY DEF LoadEnd, Inv, TypeOK
<1>4. TypeOK'
  BY <1>1, <1>2, <1>3, QuietTypes DEF Inv, TypeOK
<1>5. WithIndex' /\ HeldFd'
  BY <1>1, <1>2 DEF WithIndex, At, HeldFd
<1> QED
  BY <1>1, <1>2, <1>3, <1>4, <1>5, QuietStep
-----------------------------------------------------------------------------
(* Steps that append a record.                                             *)

\* The pairs stay right when record t is appended and the index is left alone.
LEMMA PairsStay ==
  ASSUME Inv, NEW t \in Tuples, Log!Append(t), entries' = entries
  PROVE  IndexPointsToRows' /\ FirstPageNotIndexed' /\ ~\E e \in entries : e.ptr = end
<1>1. end \notin DOMAIN rec /\ DOMAIN rec' = DOMAIN rec \cup {end}
      /\ \A r \in DOMAIN rec : rec'[r] = rec[r]
  BY AppendEffect
<1>2. IndexPointsToRows /\ FirstPageNotIndexed
  BY DEF Inv
<1> QED
  BY <1>1, <1>2 DEF IndexPointsToRows, FirstPageNotIndexed, RowsOf

\* What is true of the indexed rows when t has been appended.
LEMMA IndexedRows ==
  ASSUME Inv, NEW t \in Tuples, Log!Append(t),
         NEW r \in RowsOf({"indexed"})', Log!Succ(r) \in RowsOf({"indexed"})'
  PROVE  /\ r \in RowsOf({"indexed"})
         /\ Log!Succ(r) \in RowsOf({"indexed"}) \/ (Log!Succ(r) = end /\ t.by = "indexed")
<1>1. end \notin DOMAIN rec /\ DOMAIN rec' = DOMAIN rec \cup {end}
      /\ rec'[end] = t
      /\ (\A q \in DOMAIN rec : rec'[q] = rec[q])
      /\ Log!Succ(end) \notin DOMAIN rec'
  BY AppendEffect
<1>2. r \in DOMAIN rec' /\ rec'[r].by = "indexed"
      /\ Log!Succ(r) \in DOMAIN rec' /\ rec'[Log!Succ(r)].by = "indexed"
  BY DEF RowsOf
<1>3. r # end
  BY <1>1, <1>2
<1> QED
  BY <1>1, <1>2, <1>3 DEF RowsOf

\* The record before the new end is the new one.
LEMMA NewIsLast ==
  ASSUME Inv, NEW t \in Tuples, Log!Append(t),
         NEW r \in RowsOf({"indexed"})', Log!Succ(r) = end'
  PROVE  r = end
<1>1. end \in Rids /\ end' = Log!Succ(end) /\ DOMAIN rec' \subseteq Rids
  BY AppendEffect
<1>2. r \in Ends /\ end \in Ends
  BY <1>1, RidsAreEnds DEF RowsOf
<1> QED
  BY <1>1, <1>2, SuccInjective

LEMMA AppendTypes ==
  ASSUME Inv, NEW t \in Tuples, Log!Append(t), call' \in Commands,
         UNCHANGED <<made, entries, root, tree, fds>>
  PROVE  TypeOK' /\ HeldFd'
<1>1. /\ rec' \in [DOMAIN rec' -> Tuples] /\ DOMAIN rec' \subseteq Rids
      /\ end' \in Ends /\ mode' = mode
  BY AppendEffect
<1> QED
  BY <1>1 DEF Inv, TypeOK, HeldFd

LEMMA LoadDummyInv == ASSUME Inv, NEW k \in DummyKeys, LoadDummy(k) PROVE Inv'
<1> DEFINE t == [key |-> k, value |-> NoValue, by |-> "dummy"]
<1>1. t \in Tuples /\ Log!Append(t)
  BY DEF LoadDummy, Tuples
<1> HIDE DEF t
<1>2. /\ call \in Commands /\ call.op = "load" /\ call.pc = "dummies" /\ call.index
      /\ call.n \in Nat
  BY DEF LoadDummy, At, Inv, TypeOK, WithIndex, Commands
<1>3. AfterDummies(call.n) \in {"dummies", "lines"}
  BY DEF AfterDummies
<1>4. /\ call' \in Commands /\ call'.op = "load" /\ call'.pc = AfterDummies(call.n)
      /\ call'.index /\ call'.n = call.n + 1
  <2>1. call.n + 1 \in Nat /\ AfterDummies(call.n) \in Places
    BY <1>2, <1>3 DEF Places
  <2>2. call' = [call EXCEPT !.n = call.n + 1, !.pc = AfterDummies(call.n)]
    BY DEF LoadDummy
  <2>3. call' \in Commands
    BY <1>2, <2>1, <2>2 DEF Commands
  <2>4. /\ call'.op = call.op /\ call'.pc = AfterDummies(call.n)
        /\ call'.index = call.index /\ call'.n = call.n + 1
    BY <1>2, <2>2 DEF Commands
  <2> QED
    BY <1>2, <2>3, <2>4
<1>5. UNCHANGED <<made, entries, root, tree, fds>>
  BY DEF LoadDummy
<1>6. /\ end \in Ends /\ end \notin DOMAIN rec /\ rec'[end] = t
      /\ end' = Log!Succ(end) /\ EndIsFree'
  BY <1>1, AppendEffect DEF Inv, TypeOK
<1>7. TypeOK' /\ HeldFd'
  BY <1>1, <1>4, <1>5, AppendTypes
<1>8. IndexPointsToRows' /\ FirstPageNotIndexed'
  BY <1>1, <1>5, PairsStay
<1>9. WithIndex' /\ LastIsNew'
  BY <1>3, <1>4 DEF WithIndex, LastIsNew, At
<1>10. FewMissing'
  <2> SUFFICES ASSUME "insert" \notin Faults, NEW r \in RowsOf({"indexed"})',
                      r \notin {e.ptr : e \in entries'},
                      Log!Succ(r) \in RowsOf({"indexed"})'
               PROVE FALSE
    BY DEF FewMissing, MissingIsLast, Log!Succ
  <2>1. r \in RowsOf({"indexed"}) /\ Log!Succ(r) \in RowsOf({"indexed"})
    BY <1>1, IndexedRows DEF t
  <2> QED
    BY <2>1, <1>5 DEF Inv, FewMissing, MissingIsLast
<1>11. end.pid > 0 \/ end.sid >= call.n
  BY <1>2 DEF Inv, DummiesFill, At
<1>12. DummiesFill'
  BY <1>2, <1>4, <1>6, <1>11, SqlEngineAssumption DEF DummiesFill, At, Ends, Log!Succ
<1>13. NothingMissing'
  <2>1. call'.pc = "lines" => end'.pid > 0
    BY <1>2, <1>4, <1>6, <1>11, SqlEngineAssumption DEF AfterDummies, Ends, Log!Succ
  <2>2. \A r \in RowsOf({"indexed"})' : Log!Succ(r) # end'
    BY <1>1, <1>6, NewIsLast DEF RowsOf, t
  <2> QED
    BY <2>1, <2>2 DEF NothingMissing, At, Log!Succ
<1> QED
  BY <1>6, <1>7, <1>8, <1>9, <1>10, <1>12, <1>13 DEF Inv

LEMMA LoadLineInv == ASSUME Inv, NEW l \in Lines, LoadLine(l) PROVE Inv'
<1> DEFINE t == [key |-> l.key, value |-> l.value, by |-> Writer]
<1>1. t \in Tuples /\ Log!Append(t) /\ l.key \in Keys
  BY DEF LoadLine, Tuples, Keys, Writer
<1>2. /\ t.key = l.key /\ t.by = Writer
  OBVIOUS
<1> HIDE DEF t
<1>3. call \in Commands /\ call.op = "load" /\ call.pc = "lines" /\ call.index \in BOOLEAN
  BY DEF LoadLine, At, Inv, TypeOK, Commands
<1>4. /\ call' \in Commands /\ call'.op = "load" /\ call'.key = l.key
      /\ call'.index = call.index
      /\ call'.pc = IF call.index THEN "insert" ELSE "lines"
  BY <1>1, <1>3 DEF LoadLine, Commands, Places
<1>5. UNCHANGED <<made, entries, root, tree, fds>>
  BY DEF LoadLine
<1>6. /\ end \in Ends /\ end \notin DOMAIN rec /\ rec'[end] = t
      /\ DOMAIN rec' = DOMAIN rec \cup {end} /\ ret'.rid = end
      /\ end' = Log!Succ(end) /\ EndIsFree'
  BY <1>1, AppendEffect DEF Inv, TypeOK
<1>7. TypeOK' /\ HeldFd'
  BY <1>1, <1>4, <1>5, AppendTypes
<1>8. IndexPointsToRows' /\ FirstPageNotIndexed' /\ ~\E e \in entries : e.ptr = end
  BY <1>1, <1>5, PairsStay
<1>9. WithIndex' /\ DummiesFill' /\ NothingMissing'
  BY <1>3, <1>4 DEF WithIndex, DummiesFill, NothingMissing, At
<1>10. call.index => /\ end.pid > 0
                     /\ tree = "good" /\ "insert" \notin Faults =>
                          \A r \in RowsOf({"indexed"}) : Log!Succ(r) = end => HasPair(r)
  BY <1>3 DEF Inv, NothingMissing, At
<1>11. FewMissing'
  <2> SUFFICES ASSUME "insert" \notin Faults, NEW r \in RowsOf({"indexed"})',
                      r \notin {e.ptr : e \in entries'},
                      Log!Succ(r) \in RowsOf({"indexed"})'
               PROVE FALSE
    BY DEF FewMissing, MissingIsLast, Log!Succ
  <2>1. /\ r \in RowsOf({"indexed"})
        /\ Log!Succ(r) \in RowsOf({"indexed"}) \/ (Log!Succ(r) = end /\ t.by = "indexed")
    BY <1>1, IndexedRows
  <2>2. CASE Log!Succ(r) \in RowsOf({"indexed"})
    BY <2>1, <2>2, <1>5 DEF Inv, FewMissing, MissingIsLast
  <2>3. CASE Log!Succ(r) = end /\ t.by = "indexed"
    <3>1. call.index /\ tree = "good"
      BY <2>3, <1>2 DEF Writer
    <3>2. HasPair(r)
      BY <3>1, <2>1, <2>3, <1>10
    <3> QED
      BY <3>2, <1>5 DEF HasPair
  <2> QED
    BY <2>1, <2>2, <2>3
<1>12. LastIsNew'
  <2> SUFFICES ASSUME At("load", "insert")'
               PROVE  /\ end \in RowsOf({"indexed", "unsure"})'
                      /\ rec'[end].key = l.key
                      /\ ~\E e \in entries : e.ptr = end
                      /\ end.pid # 0 /\ Log!Succ(end) = end' /\ end'.pid > 0
    BY <1>1, <1>4, <1>5, <1>6 DEF LastIsNew, HasPair, Log!Succ
  <2>1. call.index
    BY <1>3, <1>4 DEF At
  <2>2. end.pid > 0
    BY <2>1, <1>10
  <2>3. end \in RowsOf({"indexed", "unsure"})' /\ rec'[end].key = l.key
    BY <2>1, <1>2, <1>6 DEF RowsOf, Writer
  <2> QED
    BY <2>2, <2>3, <1>6, <1>8, EndsFacts DEF Ends
<1> QED
  BY <1>6, <1>7, <1>8, <1>9, <1>11, <1>12 DEF Inv
-----------------------------------------------------------------------------
(* The step that inserts the key of the last record.                       *)

LEMMA LoadInsertInv == ASSUME Inv, LoadInsert PROVE Inv'
<1>1. /\ call \in Commands /\ call.op = "load" /\ call.pc = "insert" /\ call.index
  BY DEF LoadInsert, At, Inv, TypeOK, WithIndex
<1>2. /\ call' \in Commands /\ call'.op = "load" /\ call'.pc = "lines" /\ call'.index
  BY <1>1 DEF LoadInsert, Commands, Places
<1>3. /\ ret.rid \in RowsOf({"indexed", "unsure"})
      /\ rec[ret.rid].key = call.key /\ call.key \in Keys
      /\ ~HasPair(ret.rid) /\ ret.rid.pid # 0
      /\ Log!Succ(ret.rid) = end /\ end.pid > 0
  BY <1>1 DEF Inv, LastIsNew, At
<1>4. UNCHANGED <<rec, end, mode, made, tree, fds>>
  BY DEF LoadInsert, table
<1>5. entries' = entries \cup {Pair} \/ entries' = entries
  BY DEF LoadInsert
<1>6. "insert" \notin Faults /\ tree = "good" => entries' = entries \cup {Pair}
  BY DEF LoadInsert
<1>7. Pair.key = call.key /\ Pair.ptr = ret.rid
  BY DEF Pair
<1>8. Pair \in Pairs
  BY <1>3 DEF Pair, Pairs, RowsOf, Inv, TypeOK
<1>9. TypeOK'
  <2>1. entries' \subseteq Pairs
    BY <1>5, <1>8 DEF Inv, TypeOK
  <2>2. root' \in {"none", "stored", "old", "wild"}
    BY DEF LoadInsert, Inv, TypeOK
  <2> QED
    BY <2>1, <2>2, <1>2, <1>4 DEF Inv, TypeOK
<1>10. EndIsFree' /\ HeldFd' /\ WithIndex' /\ DummiesFill' /\ LastIsNew'
  BY <1>2, <1>4 DEF Inv, EndIsFree, HeldFd, WithIndex, DummiesFill, LastIsNew, At
<1>11. IndexPointsToRows' /\ FirstPageNotIndexed'
  BY <1>3, <1>4, <1>5, <1>7
     DEF Inv, IndexPointsToRows, FirstPageNotIndexed, RowsOf, HasPair
<1>12. FewMissing'
  BY <1>4, <1>5 DEF Inv, FewMissing, MissingIsLast, RowsOf
<1>13. NothingMissing'
  <2> SUFFICES ASSUME tree = "good", "insert" \notin Faults,
                      NEW r \in RowsOf({"indexed"}), Log!Succ(r) = end
               PROVE  HasPair(r)'
    BY <1>3, <1>4 DEF NothingMissing, RowsOf, Log!Succ
  <2>1. r \in Ends /\ ret.rid \in Ends
    BY <1>3, RidsAreEnds DEF RowsOf, Inv, TypeOK
  <2>2. r = ret.rid
    BY <2>1, <1>3, SuccInjective
  <2> QED
    BY <2>2, <1>6, <1>7 DEF HasPair
<1> QED
  BY <1>9, <1>10, <1>11, <1>12, <1>13 DEF Inv
-----------------------------------------------------------------------------
(* select and the end of the process.                                      *)

\* A step of a SELECT keeps the invariant if it keeps the types.
LEMMA SelectStep ==
  ASSUME Inv, rec' = rec, end' = end, entries' = entries, made' \in BOOLEAN,
         mode' \in {"none", "r", "w"}, fds' \in 0 .. NFds, HeldFd',
         root' = root, tree' \in {"none", "good", "old", "wild"},
         call' \in Commands, call'.op = "select"
  PROVE  Inv'
<1>1. TypeOK'
  BY QuietTypes DEF Inv, TypeOK
<1>2. WithIndex'
  BY DEF WithIndex, At
<1> QED
  BY <1>1, <1>2, QuietStep

\* The same for a step that moves nothing but the cursor and the answer.
LEMMA CursorStep ==
  ASSUME Inv, rec' = rec, end' = end, mode' = mode,
         UNCHANGED <<made, entries, root, tree, fds>>,
         call' \in Commands, call'.op = "select"
  PROVE  Inv'
BY SelectStep DEF Inv, TypeOK, HeldFd

LEMMA StartIsBehind ==
  ASSUME Inv, NEW conds, NEW s \in Start(conds)
  PROVE  s \subseteq Pairs
<1>1. entries \subseteq Pairs /\ \A k : UpTo(k) \subseteq entries
  BY DEF Inv, TypeOK, UpTo
<1>2. \A k : \A b \in StepBack(UpTo(k)) : b \subseteq UpTo(k)
  BY DEF StepBack
<1> QED
  BY <1>1, <1>2 DEF Start

LEMMA ConsideredType ==
  ASSUME NEW c \in Commands, NEW rid \in Rids, NEW r
  PROVE  Considered(c, rid, r) \in Commands /\ Considered(c, rid, r).op = c.op
<1>1. Append(c.rows, rid) \in Seq(Rids)
  BY DEF Commands
<1>2. [c EXCEPT !.rows = Append(@, rid)] \in Commands
  BY <1>1 DEF Commands
<1>3. [c EXCEPT !.pc = "close"] \in Commands
  BY DEF Commands, Places
<1> QED
  BY <1>2, <1>3 DEF Considered, Commands

LEMMA SelectStartInv ==
  ASSUME Inv, NEW conds \in CondLists, SelectStart(conds)
  PROVE  Inv'
<1>1. /\ call' \in Commands /\ call'.op = "select"
  <2>1. PICK via \in {"index", "scan"} :
          call' = [Idle EXCEPT !.op = "select", !.pc = "table", !.conds = conds, !.via = via]
    BY DEF SelectStart
  <2>2. [Idle EXCEPT !.op = "select", !.pc = "table", !.conds = conds, !.via = via]
          \in Commands
    BY IdleCommand DEF Commands, Places
  <2>3. Idle.op = "none" /\ call'.op = "select"
    BY <2>1 DEF Idle
  <2> QED
    BY <2>1, <2>2, <2>3
<1>2. fds' \in 0 .. NFds /\ fds' >= fds
  BY FdsType, FdTaken, SqlEngineAssumption DEF SelectStart, OpenIndex, OpenIndexFails
<1>3. tree' \in {"none", "good", "old", "wild"} /\ root' = root
  BY DEF SelectStart, OpenIndex, OpenIndexFails, Inv, TypeOK
<1>4. UNCHANGED <<rec, end, mode, made, entries>>
  BY DEF SelectStart, table
<1>5. HeldFd'
  BY <1>2, <1>4, FdsType DEF Inv, HeldFd
<1> QED
  BY <1>1, <1>2, <1>3, <1>4, <1>5, SelectStep DEF Inv, TypeOK

LEMMA SelectTableInv == ASSUME Inv, SelectTable \/ SelectTableFails PROVE Inv'
<1>1. call \in Commands /\ call.op = "select"
  BY DEF SelectTable, SelectTableFails, At, Inv, TypeOK
<1>2. /\ rec' = rec /\ end' = end
      /\ mode' \in {"none", "r", "w"} /\ made' \in BOOLEAN
      /\ fds' \in 0 .. NFds /\ HeldFd'
  BY OpenTableEffect DEF SelectTable, SelectTableFails
<1>3. entries' = entries /\ root' = root
  BY DEF SelectTable, SelectTableFails
<1>4. CASE SelectTable
  <2>1. call' \in Commands /\ call'.op = "select"
    BY <1>1, <1>4 DEF SelectTable, Commands, Places
  <2> QED
    BY <2>1, <1>2, <1>3, <1>4, SelectStep DEF SelectTable, Inv, TypeOK
<1>5. CASE SelectTableFails
  <2>1. call' \in Commands /\ tree' = "none" /\ call'.op = "select"
    BY <1>1, <1>5, ReturnsEffect DEF SelectTableFails, Returns, Results, Commands
  <2> QED
    BY <2>1, <1>2, <1>3, SelectStep
<1> QED
  BY <1>4, <1>5

LEMMA SelectLocateInv ==
  ASSUME Inv, SelectLocate \/ SelectLocateFails
  PROVE  Inv'
<1>1. call \in Commands /\ call.op = "select"
  BY DEF SelectLocate, SelectLocateFails, At, Inv, TypeOK
<1>2. UNCHANGED <<rec, end, mode, made, entries, root, tree, fds>>
  BY DEF SelectLocate, SelectLocateFails, table
<1>3. CASE SelectLocate
  <2>1. PICK s \in Start(call.conds), pc \in {"walk", "astray"} :
          call' = [call EXCEPT !.pc = pc, !.behind = s]
    BY <1>3 DEF SelectLocate
  <2>2. s \subseteq Pairs
    BY StartIsBehind
  <2>3. call' \in Commands /\ call'.op = "select"
    BY <1>1, <2>1, <2>2 DEF Commands, Places
  <2> QED
    BY <1>2, <2>3, CursorStep
<1>4. CASE SelectLocateFails
  <2>1. PICK s \in SUBSET entries, pc \in {"walk", "astray"} :
          call' = [call EXCEPT !.pc = pc, !.behind = s, !.cut = TRUE]
    BY <1>4 DEF SelectLocateFails
  <2>2. s \subseteq Pairs
    BY DEF Inv, TypeOK
  <2>3. call' \in Commands /\ call'.op = "select"
    BY <1>1, <2>1, <2>2 DEF Commands, Places
  <2> QED
    BY <1>2, <2>3, CursorStep
<1> QED
  BY <1>3, <1>4

LEMMA WalkInv ==
  ASSUME Inv, WalkOn \/ WalkOut \/ WalkAstray \/ WalkEnd \/ WalkFails
  PROVE  Inv'
<1>1. call \in Commands /\ call.op = "select"
  BY DEF WalkOn, WalkOut, WalkAstray, WalkEnd, WalkFails, At, Inv, TypeOK
<1>2. /\ rec' = rec /\ end' = end /\ mode' = mode
      /\ UNCHANGED <<made, entries, root, tree, fds>>
  BY DEF WalkOn, WalkOut, WalkAstray, WalkEnd, WalkFails, Log!Read, table
<1>3. call' \in Commands /\ call'.op = "select"
  <2>1. CASE WalkOn
    <3>1. PICK e \in Least(Ahead) :
            call' = [Considered(call, e.ptr, ret'.record) EXCEPT !.behind = @ \cup {e}]
      BY <2>1 DEF WalkOn
    <3>2. e \in Pairs /\ e.ptr \in Rids
      BY DEF Least, Ahead, Inv, TypeOK, Pairs
    <3>3. Considered(call, e.ptr, ret'.record) \in Commands
          /\ Considered(call, e.ptr, ret'.record).op = "select"
      BY <1>1, <3>2, ConsideredType
    <3> QED
      BY <3>1, <3>2, <3>3 DEF Commands
  <2>2. CASE WalkAstray
    <3>1. PICK rid \in DOMAIN rec :
            \/ call' = [call EXCEPT !.extra = @ + 1]
            \/ call' = Considered(call, rid, rec[rid])
      BY <2>2 DEF WalkAstray
    <3>2. rid \in Rids
      BY DEF Inv, TypeOK
    <3>3. /\ [call EXCEPT !.extra = @ + 1] \in Commands
          /\ [call EXCEPT !.extra = @ + 1].op = "select"
      BY <1>1 DEF Commands
    <3>4. /\ Considered(call, rid, rec[rid]) \in Commands
          /\ Considered(call, rid, rec[rid]).op = "select"
      BY <1>1, <3>2, ConsideredType
    <3> QED
      BY <3>1, <3>3, <3>4
  <2>3. CASE WalkOut \/ WalkEnd \/ WalkFails
    BY <1>1, <2>3 DEF WalkOut, WalkEnd, WalkFails, Commands, Places
  <2> QED
    BY <2>1, <2>2, <2>3
<1> QED
  BY <1>2, <1>3, CursorStep

LEMMA ScanInv == ASSUME Inv, ScanOn \/ ScanFails \/ ScanEnd PROVE Inv'
<1>1. call \in Commands /\ call.op = "select"
  BY DEF ScanOn, ScanFails, ScanEnd, At, Inv, TypeOK
<1>2. /\ rec' = rec /\ end' = end /\ mode' = mode
      /\ UNCHANGED <<made, entries, root, tree, fds>>
  BY DEF ScanOn, ScanFails, ScanEnd, Log!Read, Log!ReadFails, table
<1>3. call' \in Commands /\ call'.op = "select"
  <2>1. CASE ScanOn
    <3>1. call.rid \in Rids /\ call.rid \in Ends
      BY <2>1, RidsAreEnds DEF ScanOn, Log!Read, Inv, TypeOK
    <3>2. Log!Succ(call.rid) \in Ends /\ Append(call.rows, call.rid) \in Seq(Rids)
      BY <1>1, <3>1, EndsFacts DEF Commands
    <3> QED
      BY <1>1, <2>1, <3>2 DEF ScanOn, NextTuple, Commands
  <2>2. CASE ScanFails \/ ScanEnd
    BY <1>1, <2>2 DEF ScanFails, ScanEnd, Commands, Places, Results
  <2> QED
    BY <2>1, <2>2
<1> QED
  BY <1>2, <1>3, CursorStep

LEMMA SelectCloseInv == ASSUME Inv, SelectClose PROVE Inv'
<1>1. call \in Commands /\ call.op = "select" /\ call.rc \in Results
  BY DEF SelectClose, At, Inv, TypeOK, Commands
<1>2. call' \in Commands /\ tree' = "none" /\ call'.op = "select"
  BY <1>1, ReturnsEffect DEF SelectClose, Returns, Commands
<1>3. rec' = rec /\ end' = end /\ mode' = "none" /\ mode # "none" /\ fds' = fds - 1
      /\ made' = made /\ entries' = entries /\ root' = root
  BY DEF SelectClose, Log!Close
<1>4. fds > 0
  BY <1>3 DEF Inv, HeldFd
<1>5. fds' \in 0 .. NFds
  BY <1>3, <1>4, FdsType, SqlEngineAssumption
<1>6. HeldFd'
  BY <1>3 DEF HeldFd
<1> QED
  BY <1>2, <1>3, <1>5, <1>6, SelectStep DEF Inv, TypeOK

LEMMA RestartInv == ASSUME Inv, Restart PROVE Inv'
<1>1. call' \in Commands /\ call'.pc = "idle" /\ call'.op = "none"
  BY IdleCommand DEF Restart, Idle
<1>2. /\ rec' = rec /\ end' = end /\ mode' = "none" /\ fds' = 0 /\ tree' = "none"
      /\ made' = made /\ entries' = entries /\ root' = root
  BY DEF Restart, Log!Drop
<1>3. fds' \in 0 .. NFds
  BY <1>2, SqlEngineAssumption
<1>4. TypeOK'
  BY <1>1, <1>2, <1>3, QuietTypes DEF Inv, TypeOK
<1>5. WithIndex' /\ HeldFd'
  BY <1>1, <1>2 DEF WithIndex, HeldFd, At
<1> QED
  BY <1>1, <1>2, <1>4, <1>5, QuietStep
-----------------------------------------------------------------------------
(* The specification.                                                      *)

LEMMA InitInv == Init => Inv
<1> SUFFICES ASSUME Init PROVE Inv
  OBVIOUS
<1>1. /\ rec = [r \in {} |-> NoRecord] /\ end = Zero
      /\ mode = "none" /\ made = FALSE /\ entries = {} /\ root = "none"
      /\ tree = "none" /\ fds = 0 /\ call = Idle
  BY DEF Init, Log!Init, Log!Zero, Zero
<1>2. DOMAIN rec = {} /\ rec \in [DOMAIN rec -> Tuples]
  BY <1>1
<1>3. TypeOK
  <2>1. made \in BOOLEAN
    BY <1>1, Zenon
  <2>2. fds \in 0 .. NFds
    BY <1>1, SqlEngineAssumption
  <2>3. end \in Ends /\ call \in Commands
    BY <1>1, IdleCommand
  <2>4. /\ DOMAIN rec \subseteq Rids /\ entries \subseteq Pairs
        /\ mode \in {"none", "r", "w"}
        /\ root \in {"none", "stored", "old", "wild"}
        /\ tree \in {"none", "good", "old", "wild"}
    BY <1>1, <1>2
  <2> QED
    BY <1>2, <2>1, <2>2, <2>3, <2>4 DEF TypeOK
<1>4. call.pc = "idle" /\ call.op = "none"
  BY <1>1 DEF Idle
<1>5. EndIsFree /\ IndexPointsToRows /\ FirstPageNotIndexed /\ FewMissing
  BY <1>1, <1>2
     DEF EndIsFree, IndexPointsToRows, FirstPageNotIndexed, FewMissing, MissingIsLast, RowsOf
<1>6. WithIndex /\ HeldFd /\ DummiesFill /\ NothingMissing /\ LastIsNew
  BY <1>1, <1>4
     DEF WithIndex, HeldFd, DummiesFill, NothingMissing, LastIsNew, At
<1> QED
  BY <1>3, <1>5, <1>6 DEF Inv

LEMMA StutterInv == ASSUME Inv, UNCHANGED vars PROVE Inv'
BY DEF vars, Inv, TypeOK, EndIsFree, WithIndex, HeldFd, DummiesFill, NothingMissing,
       LastIsNew, IndexPointsToRows, FirstPageNotIndexed, FewMissing, MissingIsLast,
       RowsOf, HasPair, At

LEMMA NextInv == Inv /\ [Next]_vars => Inv'
<1> SUFFICES ASSUME Inv, [Next]_vars PROVE Inv'
  OBVIOUS
<1>1. CASE \E index \in BOOLEAN : LoadStart(index)
  BY <1>1, LoadStartInv
<1>2. CASE \E conds \in CondLists : SelectStart(conds)
  BY <1>2, SelectStartInv
<1>3. CASE Step
  BY <1>3, LoadIndexInv, LoadReturnsInv, LoadDummyInv, LoadLineInv, LoadInsertInv,
     LoadEndInv, SelectTableInv, SelectLocateInv, WalkInv, ScanInv, SelectCloseInv
     DEF Step
<1>4. CASE SelectLocateFails \/ WalkFails \/ WalkAstray \/ WalkEnd \/ ScanFails \/ Restart
  BY <1>4, SelectLocateInv, WalkInv, ScanInv, RestartInv
<1>5. CASE UNCHANGED vars
  BY <1>5, StutterInv
<1> QED
  BY <1>1, <1>2, <1>3, <1>4, <1>5 DEF Next

LEMMA InvHolds == Spec => []Inv
BY InitInv, NextInv, PTL DEF Spec

\* The types, and the descriptors in use: load() and select() never take more
\* than the process has, though they leave some open.
THEOREM TypeCorrect == Spec => []TypeOK
<1>1. Inv => TypeOK
  BY DEF Inv
<1> QED
  BY <1>1, InvHolds, PTL

\* Whatever fails, whenever load() returns and whenever the process ends, a
\* pair of the index is the key and the id of a row of the table, and no row
\* has two.
THEOREM PairsAreRows == Spec => []IndexPointsToRows
<1>1. Inv => IndexPointsToRows
  BY DEF Inv
<1> QED
  BY <1>1, InvHolds, PTL

\* As many dummies as a page holds are enough: no pair ever points to the
\* first page, where readForward() takes an id for the end of a leaf.
THEOREM DummiesSuffice == Spec => []FirstPageNotIndexed
<1>1. Inv => FirstPageNotIndexed
  BY DEF Inv
<1> QED
  BY <1>1, InvHolds, PTL

\* As long as insert() itself does not fail, an interrupted load leaves at
\* most its last row out of a good index.
THEOREM OnlyLastMissing ==
  ASSUME "insert" \notin Faults
  PROVE  Spec => []MissingIsLast
<1>1. Inv => MissingIsLast
  BY DEF Inv, FewMissing
<1> QED
  BY <1>1, InvHolds, PTL
-----------------------------------------------------------------------------
(* What SELECT answers.                                                    *)

\* The comparisons that a SELECT may ask for.
Conditions ==
  [attr : {1, 2}, comp : {"EQ", "NE", "LT", "GT", "LE", "GE"}, value : Int]

CondsTyped == CondLists \subseteq Seq(Conditions)

\* A walk without a bound starts behind the key 0.
KeysPositive == \A l \in Lines : l.key \in Nat /\ l.key > 0

\* Where the walk finds every key once.
WalkOrdered == ~Duplicates /\ KeysPositive /\ CondsTyped

Meets(conds, r) == \A i \in DOMAIN conds : Holds(conds[i], rec[r])

\* The answer of c so far is that for the ids in s, each once.
Lists(c, s) ==
  IsInjective(c.rows) /\ ToSet(c.rows) = {r \in s : Meets(c.conds, r)}

InKeyOrder(c) ==
  \A i, j \in DOMAIN c.rows : i < j => rec[c.rows[i]].key < rec[c.rows[j]].key

Ptrs(s) == {e.ptr : e \in s}

\* No pair of s is at a key that a pair of t is at or before.
AllBelow(s, t) == \A e \in s, f \in t : e.key < f.key

\* The first equality is met by one of the pairs s at the most, and before
\* it there is no other.
OneUpTo(conds, s) ==
  KeysOf(conds, {"EQ"}) # {} =>
    LET k == conds[Min(KeysOf(conds, {"EQ"}))].value
    IN \A e, f \in s : e.key <= k /\ f.key <= k => e = f

\* A key is loaded once.
KeysOnce ==
  \A r, q \in DOMAIN rec :
    rec[r].by # "dummy" /\ rec[q].by # "dummy" /\ rec[r].key = rec[q].key => r = q

\* The way the command goes, with the root it has.
Route ==
  call.op = "select" =>
    /\ call.conds \in CondLists
    /\ call.via \in {"scan", "index"}
    /\ call.pc \in {"table", "locate", "walk", "astray", "scan", "close", "idle"}
    /\ call.pc \in {"locate", "walk", "astray"} => call.via = "index"
    /\ call.pc = "scan" => call.via = "scan"
    /\ call.pc = "walk" => tree = "good"
    /\ call.pc \in {"table", "locate"} /\ call.via = "index" /\ root = "stored"
       => tree = "good"
    /\ call.pc \in {"table", "locate"} => call.rows = <<>> /\ call.rid = Zero

ScanSoFar ==
  At("select", "scan") => Lists(call, {r \in DOMAIN rec : Before(r, call.rid)})

WalkSoFar ==
  At("select", "walk") /\ ~call.cut =>
    /\ call.behind \subseteq entries
    /\ AllBelow(call.behind, Ahead)
    /\ Lists(call, Ptrs(call.behind))
    /\ InKeyOrder(call)
    /\ OneUpTo(call.conds, Ahead)

\* The rows are complete once the walk is behind the last pair, or is stopped.
Answered ==
  call.op = "select" /\ call.pc \in {"astray", "close", "idle"} /\ call.rc = "OK" /\ ~call.cut =>
    /\ call.via = "scan" => Lists(call, DOMAIN rec)
    /\ call.via = "index" /\ root = "stored" /\ WalkOrdered =>
         Lists(call, Ptrs(entries)) /\ InKeyOrder(call)

AnswerInv ==
  /\ ~Duplicates => KeysOnce
  /\ Route /\ ScanSoFar /\ Answered
  /\ WalkOrdered => WalkSoFar

\* A set of natural numbers has a least element.
LEMMA LeastFirst ==
  ASSUME NEW S, S \subseteq Nat, S # {}
  PROVE  Min(S) \in S /\ \A y \in S : Min(S) <= y
<1> DEFINE R == {ss \in Nat \X Nat : ss[1] < ss[2]}
<1>1. IsWellFoundedOn(R, Nat)
  BY NatLessThanWellFounded DEF OpToRel
<1>2. \A x, y \in S : <<y, x>> \in R <=> y < x
  OBVIOUS
<1> HIDE DEF R
<1>3. PICK x \in S : \A y \in S : ~ (<<y, x>> \in R)
  BY <1>1, WFMin
<1>4. \A y \in S : ~(y < x)
  BY <1>2, <1>3
<1>5. \A y \in S : x <= y
  BY <1>4
<1> QED
  BY <1>5 DEF Min

\* So do finitely many integers have a greatest.
LEMMA GreatestLast ==
  ASSUME NEW n \in Nat, NEW S, S \subseteq 1 .. n, S # {}, NEW v, \A i \in S : v[i] \in Int
  PROVE  \E i \in S : \A j \in S : v[j] <= v[i]
<1> DEFINE T == {m \in 0 .. n : \E i \in S : \A j \in S : j > m => v[j] <= v[i]}
<1>1. n \in T /\ T \subseteq Nat /\ T # {}
  <2>1. \A j \in S : ~(j > n)
    OBVIOUS
  <2>2. PICK i \in S : TRUE
    OBVIOUS
  <2>3. \A j \in S : j > n => v[j] <= v[i]
    BY <2>1
  <2>4. n \in 0 .. n
    OBVIOUS
  <2>5. n \in T
    BY <2>2, <2>3, <2>4
  <2>6. T \subseteq 0 .. n
    OBVIOUS
  <2> HIDE DEF T
  <2> QED
    BY <2>5, <2>6
<1>2. PICK m \in T : \A y \in T : m <= y
  BY <1>1, LeastFirst
<1>3. PICK i \in S : \A j \in S : j > m => v[j] <= v[i]
  BY <1>2
<1>4. ASSUME m # 0 PROVE FALSE
  <2>1. m - 1 \in 0 .. n /\ ~(m <= m - 1)
    BY <1>2, <1>4
  <2>2. m - 1 \notin T
    BY <1>2, <2>1
  <2>3. \A j \in S : j > m - 1 <=> j = m \/ j > m
    BY <2>1, <1>2
  <2>4. m \in S /\ ~(v[m] <= v[i])
    BY <2>1, <2>2, <2>3, <1>3
  <2>5. \A j \in S : j > m - 1 => v[j] <= v[m]
    BY <2>3, <2>4, <1>3
  <2> QED
    BY <2>1, <2>2, <2>4, <2>5
<1> QED
  BY <1>3, <1>4
-----------------------------------------------------------------------------
(* One more row considered.                                                *)

LEMMA AppendRow ==
  ASSUME NEW rows \in Seq(Rids), NEW r \in Rids
  PROVE  /\ DOMAIN Append(rows, r) = DOMAIN rows \cup {Len(rows) + 1}
         /\ Len(rows) + 1 \notin DOMAIN rows
         /\ \A i \in DOMAIN rows : i < Len(rows) + 1 /\ Append(rows, r)[i] = rows[i]
         /\ Append(rows, r)[Len(rows) + 1] = r
         /\ ToSet(Append(rows, r)) = ToSet(rows) \cup {r}
<1>1. /\ DOMAIN Append(rows, r) = DOMAIN rows \cup {Len(rows) + 1}
      /\ Len(rows) + 1 \notin DOMAIN rows
      /\ \A i \in DOMAIN rows : i < Len(rows) + 1 /\ Append(rows, r)[i] = rows[i]
      /\ Append(rows, r)[Len(rows) + 1] = r
  OBVIOUS
<1> DEFINE new == Append(rows, r)
<1> HIDE DEF new
<1>2. ToSet(new) = ToSet(rows) \cup {r}
  BY <1>1 DEF ToSet, new
<1> QED
  BY <1>1, <1>2 DEF new

LEMMA OneMore ==
  ASSUME NEW c, NEW d, c.rows \in Seq(Rids), NEW s, NEW r \in Rids, r \notin s,
         Lists(c, s), d.conds = c.conds,
         d.rows = IF Meets(c.conds, r) THEN Append(c.rows, r) ELSE c.rows
  PROVE  Lists(d, s \cup {r})
<1>1. CASE Meets(c.conds, r)
  <2>1. r \notin ToSet(c.rows)
    BY DEF Lists
  <2>2. IsInjective(d.rows)
    BY <1>1, <2>1, AppendRow DEF Lists, IsInjective, ToSet
  <2>3. ToSet(d.rows) = ToSet(c.rows) \cup {r}
    BY <1>1, AppendRow
  <2> QED
    BY <1>1, <2>2, <2>3 DEF Lists
<1>2. CASE ~Meets(c.conds, r)
  BY <1>2 DEF Lists
<1> QED
  BY <1>1, <1>2

LEMMA OneMoreInOrder ==
  ASSUME NEW c, NEW d, c.rows \in Seq(Rids), NEW r \in Rids,
         \A q \in ToSet(c.rows) : rec[q].key < rec[r].key,
         InKeyOrder(c),
         d.rows = Append(c.rows, r) \/ d.rows = c.rows
  PROVE  InKeyOrder(d)
<1>1. CASE d.rows = Append(c.rows, r)
  <2>1. \A i \in DOMAIN c.rows : c.rows[i] \in ToSet(c.rows)
    BY DEF ToSet
  <2>2. \A i \in DOMAIN c.rows : ~(Len(c.rows) + 1 < i)
    OBVIOUS
  <2> QED
    BY <1>1, <2>1, <2>2, AppendRow DEF InKeyOrder
<1>2. CASE d.rows = c.rows
  BY <1>2 DEF InKeyOrder
<1> QED
  BY <1>1, <1>2

LEMMA BrokenNot ==
  ASSUME NEW conds, NEW r
  PROVE  Broken(conds, rec[r]) = {} <=> Meets(conds, r)
BY DEF Broken, Meets
-----------------------------------------------------------------------------
(* Where the walk begins and where it may stop.                            *)

LEMMA CondsOf ==
  ASSUME NEW conds \in Seq(Conditions)
  PROVE  /\ DOMAIN conds = 1 .. Len(conds) /\ Len(conds) \in Nat
         /\ \A i \in DOMAIN conds :
              /\ conds[i].attr \in {1, 2} /\ conds[i].value \in Int
              /\ conds[i].comp \in {"EQ", "NE", "LT", "GT", "LE", "GE"}
<1>1. /\ DOMAIN conds = 1 .. Len(conds) /\ Len(conds) \in Nat
      /\ \A i \in DOMAIN conds : conds[i] \in Conditions
  OBVIOUS
<1> QED
  BY <1>1 DEF Conditions

LEMMA KeyComparison ==
  ASSUME NEW c, c.attr = 1, c.value \in Int, NEW r, r.key \in Int
  PROVE  /\ c.comp = "EQ" => (Holds(c, r) <=> r.key = c.value)
         /\ c.comp = "LT" => (Holds(c, r) <=> r.key < c.value)
         /\ c.comp = "LE" => (Holds(c, r) <=> r.key <= c.value)
         /\ c.comp = "GT" => (Holds(c, r) <=> r.key > c.value)
         /\ c.comp = "GE" => (Holds(c, r) <=> r.key >= c.value)
<1> DEFINE diff == r.key - c.value
<1>1. Diff(c, r) = diff
  BY DEF Diff
<1>2. /\ diff = 0 <=> r.key = c.value
      /\ diff < 0 <=> r.key < c.value
      /\ diff <= 0 <=> r.key <= c.value
      /\ diff > 0 <=> r.key > c.value
      /\ diff >= 0 <=> r.key >= c.value
  OBVIOUS
<1> HIDE DEF diff
<1> QED
  BY <1>1, <1>2 DEF Holds

\* The pairs of an index have keys that its rows have, each of them once.
LEMMA PairKeys ==
  ASSUME Inv
  PROVE  /\ \A e \in entries : /\ e.ptr \in DOMAIN rec /\ e.ptr \in Rids
                               /\ rec[e.ptr].key = e.key /\ e.key \in Keys
         /\ KeysOnce => \A e, f \in entries : e.key = f.key => e = f
<1>1. \A e \in entries : /\ e.ptr \in RowsOf({"indexed", "unsure"})
                         /\ rec[e.ptr].key = e.key
  BY DEF Inv, IndexPointsToRows
<1>2. \A e \in entries : /\ e.ptr \in DOMAIN rec /\ rec[e.ptr].by # "dummy"
                         /\ rec[e.ptr].key = e.key
  BY <1>1 DEF RowsOf
<1>3. \A e \in entries : e.ptr \in Rids /\ e.key \in Keys
  BY DEF Inv, TypeOK, Pairs
<1>4. ASSUME KeysOnce, NEW e \in entries, NEW f \in entries, e.key = f.key
      PROVE  e = f
  <2>1. e.ptr = f.ptr
    BY <1>2, <1>4 DEF KeysOnce
  <2> QED
    BY <2>1 DEF Inv, IndexPointsToRows
<1> QED
  BY <1>2, <1>3, <1>4

LEMMA KeysAreInts == ASSUME KeysPositive PROVE \A k \in Keys : k \in Int /\ k > 0
BY DEF KeysPositive, Keys

\* The key that the walk begins with is that of a condition, which every row
\* with a smaller key breaks.
LEMMA StartKeyFacts ==
  ASSUME NEW conds \in Seq(Conditions), NEW k \in StartKeys(conds)
  PROVE  /\ k \in Int
         /\ KeysOf(conds, {"EQ"}) # {} => k = conds[Min(KeysOf(conds, {"EQ"}))].value
         /\ \E i \in DOMAIN conds : /\ conds[i].attr = 1 /\ conds[i].value = k
                                    /\ conds[i].comp \in {"EQ", "GT", "GE"}
<1> DEFINE eq == KeysOf(conds, {"EQ"})
           gt == KeysOf(conds, {"GT", "GE"})
<1>1. /\ eq \subseteq DOMAIN conds /\ gt \subseteq DOMAIN conds
      /\ eq \subseteq Nat /\ gt \subseteq 1 .. Len(conds)
      /\ \A i \in eq : conds[i].attr = 1 /\ conds[i].comp = "EQ"
      /\ \A i \in gt : conds[i].attr = 1 /\ conds[i].comp \in {"GT", "GE"}
  BY CondsOf DEF KeysOf
<1>2. StartKeys(conds) =
        CASE eq # {} -> {conds[Min(eq)].value}
          [] eq = {} /\ gt # {} -> {Max({conds[i].value : i \in gt})}
          [] OTHER -> {}
  BY DEF StartKeys
<1> HIDE DEF eq, gt
<1>3. CASE eq # {}
  <2>1. k = conds[Min(eq)].value
    BY <1>2, <1>3
  <2>2. Min(eq) \in eq
    BY <1>1, <1>3, LeastFirst
  <2> QED
    BY <1>1, <2>1, <2>2, CondsOf DEF eq
<1>4. CASE eq = {} /\ gt # {}
  <2> DEFINE V == {conds[i].value : i \in gt}
             v == [i \in gt |-> conds[i].value]
  <2>1. k = Max(V)
    BY <1>2, <1>4
  <2>2. \A i \in gt : v[i] = conds[i].value /\ v[i] \in Int
    BY <1>1, CondsOf
  <2> HIDE DEF v
  <2>3. PICK i \in gt : \A j \in gt : v[j] <= v[i]
    BY <1>1, <1>4, <2>2, CondsOf, GreatestLast
  <2>4. v[i] \in V /\ \A y \in V : v[i] >= y
    BY <2>2, <2>3
  <2>5. Max(V) \in V
    BY <2>4 DEF Max
  <2>6. PICK j \in gt : k = conds[j].value
    BY <2>1, <2>5
  <2> QED
    BY <1>1, <1>4, <2>6, CondsOf DEF eq
<1>5. CASE eq = {} /\ gt = {}
  BY <1>2, <1>5
<1> QED
  BY <1>3, <1>4, <1>5

LEMMA StartFacts ==
  ASSUME Inv, KeysOnce, KeysPositive, NEW conds \in Seq(Conditions), NEW s \in Start(conds)
  PROVE  /\ s \subseteq entries
         /\ AllBelow(s, entries \ s)
         /\ \A e \in s : ~Meets(conds, e.ptr)
         /\ OneUpTo(conds, entries \ s)
<1>1. \A e \in entries : e.key \in Int /\ e.key > 0 /\ rec[e.ptr].key = e.key
  BY PairKeys, KeysAreInts
<1>2. CASE StartKeys(conds) = {}
  <2>1. s = {}
    BY <1>1, <1>2 DEF Start, UpTo
  <2>2. KeysOf(conds, {"EQ"}) = {}
    BY <1>2 DEF StartKeys
  <2> QED
    BY <2>1, <2>2 DEF AllBelow, OneUpTo
<1>3. CASE StartKeys(conds) # {}
  <2>1. PICK k \in StartKeys(conds) : s \in StepBack(UpTo(k))
    BY <1>3 DEF Start
  <2>2. k \in Int
    BY StartKeyFacts
  <2>3. CASE UpTo(k) = {}
    <3>1. s = {} /\ \A e \in entries : ~(e.key <= k)
      BY <2>1, <2>3 DEF StepBack, UpTo
    <3> QED
      BY <3>1, StartKeyFacts DEF AllBelow, OneUpTo
  <2>4. CASE UpTo(k) # {}
    <3>1. PICK g \in Greatest(UpTo(k)) : s = UpTo(k) \ {g}
      BY <2>1, <2>4 DEF StepBack
    <3>2. g \in entries /\ g.key <= k /\ \A f \in entries : f.key <= k => f.key <= g.key
      BY <3>1 DEF Greatest, UpTo
    <3>3. \A e \in s : e \in entries /\ e.key < g.key
      <4>1. \A e \in s : e \in entries /\ e.key <= k /\ e # g
        BY <3>1 DEF UpTo
      <4>2. \A e \in s : e.key # g.key
        BY <4>1, <3>2, PairKeys
      <4> QED
        BY <4>1, <4>2, <3>2, <1>1
    <3>4. \A f \in entries \ s : f = g \/ ~(f.key <= k)
      BY <3>1 DEF UpTo
    <3>5. AllBelow(s, entries \ s)
      BY <1>1, <2>2, <3>2, <3>3, <3>4 DEF AllBelow
    <3>6. ASSUME NEW e \in s PROVE ~Meets(conds, e.ptr)
      <4>1. e \in entries /\ e.key < k
        BY <1>1, <2>2, <3>2, <3>3
      <4>2. PICK i \in DOMAIN conds : /\ conds[i].attr = 1 /\ conds[i].value = k
                                      /\ conds[i].comp \in {"EQ", "GT", "GE"}
        BY StartKeyFacts
      <4>3. ~Holds(conds[i], rec[e.ptr])
        BY <1>1, <2>2, <4>1, <4>2, KeyComparison
      <4> QED
        BY <4>3 DEF Meets
    <3>7. OneUpTo(conds, entries \ s)
      BY <3>4, StartKeyFacts DEF OneUpTo
    <3> QED
      BY <3>3, <3>5, <3>6, <3>7
  <2> QED
    BY <2>3, <2>4
<1> QED
  BY <1>2, <1>3

\* Behind a row at which the walk stops no row meets the conditions.
LEMMA StopIsSafe ==
  ASSUME Inv, KeysPositive, NEW conds \in Seq(Conditions), NEW s, s \subseteq entries,
         NEW e \in s, \A f \in s \ {e} : e.key < f.key, OneUpTo(conds, s),
         Broken(conds, rec[e.ptr]) # {}, Stops(conds, rec[e.ptr])
  PROVE  \A f \in s : ~Meets(conds, f.ptr)
<1> DEFINE m == Min(Broken(conds, rec[e.ptr]))
           eq == KeysOf(conds, {"EQ"})
<1>1. \A f \in entries : f.key \in Int /\ rec[f.ptr].key = f.key
  BY PairKeys, KeysAreInts
<1>2. Broken(conds, rec[e.ptr]) \subseteq Nat /\ eq \subseteq Nat /\ eq \subseteq DOMAIN conds
  BY CondsOf DEF Broken, KeysOf
<1>3. m \in Broken(conds, rec[e.ptr])
  BY <1>2, LeastFirst
<1>4. m \in DOMAIN conds /\ ~Holds(conds[m], rec[e.ptr])
  BY <1>3 DEF Broken
<1>5. conds[m].attr = 1 /\ conds[m].comp \in {"EQ", "LT", "LE"}
  BY DEF Stops
<1> HIDE DEF m
<1>6. SUFFICES ASSUME NEW f \in s \ {e} PROVE ~Meets(conds, f.ptr)
  BY <1>4 DEF Meets
<1>7. f \in entries /\ e \in entries /\ e.key < f.key /\ conds[m].value \in Int
  BY <1>4, CondsOf
<1>8. CASE conds[m].comp \in {"LT", "LE"}
  <2>1. ~Holds(conds[m], rec[f.ptr])
    BY <1>1, <1>4, <1>5, <1>7, <1>8, KeyComparison
  <2> QED
    BY <2>1, <1>4 DEF Meets
<1>9. CASE conds[m].comp = "EQ"
  <2>1. m \in eq
    BY <1>4, <1>5, <1>9 DEF KeysOf
  <2>2. Min(eq) \in eq
    BY <2>1, <1>2, LeastFirst
  <2>3. Min(eq) \in DOMAIN conds /\ conds[Min(eq)].attr = 1 /\ conds[Min(eq)].comp = "EQ"
        /\ conds[Min(eq)].value \in Int
    BY <2>2, CondsOf DEF KeysOf
  <2>4. ~(e.key <= conds[Min(eq)].value /\ f.key <= conds[Min(eq)].value)
    BY <2>1, <1>6 DEF OneUpTo
  <2>5. f.key # conds[Min(eq)].value
    BY <2>3, <2>4, <1>1, <1>7
  <2>6. ~Holds(conds[Min(eq)], rec[f.ptr])
    BY <1>1, <1>7, <2>3, <2>5, KeyComparison
  <2> QED
    BY <2>3, <2>6 DEF Meets
<1> QED
  BY <1>5, <1>8, <1>9
-----------------------------------------------------------------------------
(* Every step keeps the answer right.                                      *)

\* A step of a load, and the end of the process, leave no answer.
LEMMA NoAnswer ==
  ASSUME AnswerInv, call'.op # "select", ~Duplicates => KeysOnce'
  PROVE  AnswerInv'
BY DEF AnswerInv, Route, ScanSoFar, WalkSoFar, Answered, At

LEMMA KeysStay == ASSUME AnswerInv, rec' = rec PROVE ~Duplicates => KeysOnce'
BY DEF AnswerInv, KeysOnce

LEMMA AppendKeys ==
  ASSUME Inv, AnswerInv, NEW t \in Tuples, Log!Append(t),
         ~Duplicates /\ t.by # "dummy" => t.key \notin LoadedKeys
  PROVE  ~Duplicates => KeysOnce'
<1>1. /\ DOMAIN rec' = DOMAIN rec \cup {end} /\ rec'[end] = t
      /\ \A r \in DOMAIN rec : rec'[r] = rec[r]
  BY AppendEffect
<1>2. ASSUME NEW r \in DOMAIN rec, rec[r].by # "dummy" PROVE rec[r].key \in LoadedKeys
  BY <1>2 DEF LoadedKeys
<1> QED
  BY <1>1, <1>2 DEF AnswerInv, KeysOnce

LEMMA LoadAnswer ==
  ASSUME Inv, AnswerInv,
         \/ \E index \in BOOLEAN : LoadStart(index)
         \/ LoadIndex \/ LoadIndexFails \/ LoadBadLine \/ LoadAppendFails
         \/ LoadInsert \/ LoadEnd \/ Restart
  PROVE  AnswerInv'
<1>1. call \in Commands
  BY DEF Inv, TypeOK
<1>2. call'.op # "select"
  <2>1. CASE \E index \in BOOLEAN : LoadStart(index)
    <3>1. PICK index \in BOOLEAN : LoadStart(index)
      BY <2>1
    <3>2. call'.op = "load"
      BY <3>1 DEF LoadStart, Idle
    <3> QED
      BY <3>2
  <2>2. CASE LoadIndexFails \/ LoadBadLine \/ LoadAppendFails \/ LoadEnd
    BY <1>1, <2>2 DEF LoadIndexFails, LoadBadLine, LoadAppendFails, LoadEnd, Returns, At, Commands
  <2>3. CASE LoadIndex \/ LoadInsert
    BY <1>1, <2>3 DEF LoadIndex, LoadInsert, At, Commands
  <2>4. CASE Restart
    BY <2>4 DEF Restart, Idle
  <2> QED
    BY <2>1, <2>2, <2>3, <2>4
<1>3. rec' = rec
  BY DEF LoadStart, OpenTable, OpenTableFails, Log!Open, Log!OpenFails, LoadIndex,
         LoadIndexFails, LoadBadLine, LoadAppendFails, LoadInsert, LoadEnd, Restart,
         Log!Drop, Log!Close, Log!CloseFails, table
<1> QED
  BY <1>2, <1>3, KeysStay, NoAnswer

LEMMA LoadRowAnswer ==
  ASSUME Inv, AnswerInv,
         (\E k \in DummyKeys : LoadDummy(k)) \/ (\E l \in Lines : LoadLine(l))
  PROVE  AnswerInv'
<1>1. call \in Commands
  BY DEF Inv, TypeOK
<1>2. CASE \E k \in DummyKeys : LoadDummy(k)
  <2>1. PICK k \in DummyKeys : LoadDummy(k)
    BY <1>2
  <2> DEFINE t == [key |-> k, value |-> NoValue, by |-> "dummy"]
  <2>2. t \in Tuples /\ Log!Append(t) /\ t.by = "dummy" /\ call'.op # "select"
    BY <1>1, <2>1 DEF LoadDummy, Tuples, At, Commands
  <2> HIDE DEF t
  <2> QED
    BY <2>2, AppendKeys, NoAnswer
<1>3. CASE \E l \in Lines : LoadLine(l)
  <2>1. PICK l \in Lines : LoadLine(l)
    BY <1>3
  <2> DEFINE t == [key |-> l.key, value |-> l.value, by |-> Writer]
  <2>2. t \in Tuples /\ t.key = l.key
    BY DEF Tuples, Keys, Writer
  <2>3. Log!Append(t) /\ (~Duplicates => l.key \notin LoadedKeys)
    BY <2>1 DEF LoadLine
  <2>4. call'.op # "select"
    BY <1>1, <2>1 DEF LoadLine, At, Commands
  <2> HIDE DEF t
  <2> QED
    BY <2>2, <2>3, <2>4, AppendKeys, NoAnswer
<1> QED
  BY <1>2, <1>3

\* What the steps of a SELECT leave alone.
LEMMA SelectKeeps ==
  ASSUME \/ \E conds \in CondLists : SelectStart(conds)
         \/ SelectTable \/ SelectTableFails \/ SelectLocate \/ SelectLocateFails
         \/ WalkOn \/ WalkOut \/ WalkAstray \/ WalkEnd \/ WalkFails
         \/ ScanOn \/ ScanFails \/ ScanEnd \/ SelectClose
  PROVE  rec' = rec /\ end' = end /\ entries' = entries /\ root' = root
BY DEF SelectStart, OpenIndex, OpenIndexFails, SelectTable, SelectTableFails,
       OpenTable, OpenTableFails, Log!Open, Log!OpenFails, SelectLocate,
       SelectLocateFails, WalkOn, WalkOut, WalkAstray, WalkEnd, WalkFails, ScanOn, ScanFails,
       ScanEnd, SelectClose, Log!Read, Log!ReadFails, Log!Close, table

LEMMA NoRowsYet ==
  ASSUME NEW c, c.rows = <<>>, NEW s, \A r \in s : ~Meets(c.conds, r)
  PROVE  Lists(c, s) /\ InKeyOrder(c)
BY DEF Lists, InKeyOrder, IsInjective, ToSet

LEMMA NothingBeforeZero == \A r \in Rids : ~Before(r, Zero)
<1>1. \A r \in Ends : r.pid >= 0 /\ r.sid >= 0 /\ r.pid \in Nat /\ r.sid \in Nat
  BY SqlEngineAssumption DEF Ends
<1> QED
  BY <1>1, RidsAreEnds DEF Before, Zero

LEMMA SelectStartAnswer ==
  ASSUME Inv, AnswerInv, NEW conds \in CondLists, SelectStart(conds)
  PROVE  AnswerInv'
<1>1. /\ call'.op = "select" /\ call'.pc = "table" /\ call'.conds = conds
      /\ call'.via \in {"scan", "index"} /\ call'.rows = <<>> /\ call'.rid = Zero
  BY DEF SelectStart, Idle
<1>2. call'.via = "index" /\ root' = "stored" => tree' = "good"
  BY DEF SelectStart, OpenIndex, Idle
<1>3. Route'
  BY <1>1, <1>2, Zenon DEF Route, Zero
<1> QED
  BY <1>1, <1>3, SelectKeeps, KeysStay DEF AnswerInv, ScanSoFar, WalkSoFar, Answered, At

LEMMA SelectTableAnswer ==
  ASSUME Inv, AnswerInv, SelectTable \/ SelectTableFails
  PROVE  AnswerInv'
<1>1. /\ call \in Commands /\ call.op = "select" /\ call.pc = "table" /\ Route
      /\ DOMAIN rec \subseteq Rids
  BY DEF SelectTable, SelectTableFails, At, Inv, AnswerInv, TypeOK
<1>2. rec' = rec /\ root' = root
  BY SelectKeeps
<1>3. CASE SelectTable
  <2>1. /\ call'.op = "select" /\ call'.conds = call.conds /\ call'.via = call.via
        /\ call'.pc = IF call.via = "index" THEN "locate" ELSE "scan"
        /\ call'.rows = call.rows /\ call'.rid = call.rid /\ tree' = tree
    BY <1>1, <1>3 DEF SelectTable, Commands
  <2>2. call.rows = <<>> /\ call.rid = Zero
    BY <1>1 DEF Route
  <2>3. Route'
    BY <1>1, <1>2, <2>1, Zenon DEF Route, Zero
  <2>4. \A r \in DOMAIN rec : ~Before(r, Zero)
    BY <1>1, NothingBeforeZero
  <2>5. ScanSoFar'
    <3>1. Lists(call', {r \in DOMAIN rec : Before(r, call'.rid)})
      BY <2>1, <2>2, <2>4, NoRowsYet
    <3> QED
      BY <1>2, <3>1 DEF ScanSoFar, Lists, Meets, Before
  <2> QED
    BY <1>2, <2>1, <2>3, <2>5, KeysStay DEF AnswerInv, WalkSoFar, Answered, At
<1>4. CASE SelectTableFails
  <2>1. /\ call'.op = "select" /\ call'.pc = "idle" /\ call'.rc = "RC_FILE_OPEN_FAILED"
        /\ call'.via = call.via /\ call'.conds = call.conds
    BY <1>1, <1>4 DEF SelectTableFails, Returns, Commands
  <2>2. Route'
    BY <1>1, <2>1 DEF Route
  <2> QED
    BY <1>2, <2>1, <2>2, KeysStay DEF AnswerInv, ScanSoFar, WalkSoFar, Answered, At
<1> QED
  BY <1>3, <1>4

\* A step of the walk or the scan that goes on to pc keeps to the route.
LEMMA RouteStep ==
  ASSUME Inv, AnswerInv, call.op = "select",
         call.pc \in {"locate", "walk", "astray", "scan", "close"},
         root' = root, call'.op = "select", call'.conds = call.conds, call'.via = call.via,
         \/ call'.pc \in {"close", "idle"}
         \/ call'.pc = "walk" /\ call.pc \in {"locate", "walk"} /\ tree' = "good"
         \/ call'.pc = "astray" /\ call.pc \in {"locate", "walk", "astray"}
         \/ call'.pc = "scan" /\ call.pc = "scan"
  PROVE  Route'
BY DEF AnswerInv, Route

LEMMA SelectLocateAnswer ==
  ASSUME Inv, AnswerInv, SelectLocate \/ SelectLocateFails
  PROVE  AnswerInv'
<1>1. /\ call \in Commands /\ call.op = "select" /\ call.pc = "locate" /\ Route
      /\ tree' = tree
  BY DEF SelectLocate, SelectLocateFails, At, Inv, AnswerInv, TypeOK
<1>2. rec' = rec /\ entries' = entries /\ root' = root
  BY SelectKeeps
<1>3. /\ call'.op = "select" /\ call'.conds = call.conds
      /\ call'.via = call.via /\ call'.rows = call.rows
      /\ call'.pc \in {"walk", "astray"}
      /\ call'.pc = "walk" => tree' = "good"
      /\ call'.pc = "astray" => call'.cut \/ tree # "good"
  <2>1. CASE SelectLocate
    <3>1. PICK s \in Start(call.conds) :
            call' = [call EXCEPT !.pc = IF tree = "good" THEN "walk" ELSE "astray",
                                 !.behind = s]
      BY <2>1 DEF SelectLocate
    <3> QED
      BY <1>1, <3>1 DEF Commands
  <2>2. CASE SelectLocateFails
    BY <1>1, <2>2 DEF SelectLocateFails, Commands
  <2> QED
    BY <2>1, <2>2
<1>4. Route'
  BY <1>1, <1>2, <1>3, RouteStep
<1>5. ASSUME WalkOrdered, ~call'.cut PROVE WalkSoFar'
  <2>1. CASE SelectLocate
    <3>1. PICK s \in Start(call.conds) : call'.behind = s
      BY <2>1, <1>1 DEF SelectLocate, Commands
    <3>2. call.conds \in Seq(Conditions) /\ KeysOnce /\ KeysPositive /\ call.rows = <<>>
      BY <1>1, <1>5 DEF WalkOrdered, CondsTyped, Route, AnswerInv
    <3>3. /\ s \subseteq entries
          /\ AllBelow(s, entries \ s)
          /\ \A e \in s : ~Meets(call.conds, e.ptr)
          /\ OneUpTo(call.conds, entries \ s)
      BY <3>2, StartFacts
    <3>4. \A r \in Ptrs(s) : ~Meets(call'.conds, r)
      BY <1>3, <3>3 DEF Ptrs
    <3>5. Lists(call', Ptrs(s)) /\ InKeyOrder(call')
      BY <1>3, <3>2, <3>4, NoRowsYet
    <3> QED
      BY <1>2, <1>3, <3>1, <3>3, <3>5
         DEF WalkSoFar, Ahead, Lists, InKeyOrder, Meets, Ptrs, AllBelow, OneUpTo, KeysOf
  <2>2. CASE SelectLocateFails
    BY <2>2, <1>1, <1>5 DEF SelectLocateFails, Commands
  <2> QED
    BY <2>1, <2>2
<1>6. WalkOrdered => WalkSoFar'
  BY <1>5 DEF WalkSoFar
<1>7. ~call'.cut /\ call'.pc = "astray" => root' # "stored" /\ call'.via = "index"
  BY <1>1, <1>2, <1>3 DEF Route
<1>8. Answered'
  BY <1>3, <1>7 DEF Answered
<1> QED
  BY <1>2, <1>3, <1>4, <1>6, <1>8, KeysStay DEF AnswerInv, ScanSoFar, At

\* Where a step of the walk reads the pair e, the least ahead.
LEMMA WalkOnAnswer == ASSUME Inv, AnswerInv, WalkOn PROVE AnswerInv'
<1>1. /\ call \in Commands /\ call.op = "select" /\ call.pc = "walk" /\ Route
      /\ tree = "good" /\ tree' = tree /\ call.via = "index"
  BY DEF WalkOn, At, Inv, AnswerInv, TypeOK, Route
<1>2. rec' = rec /\ entries' = entries /\ root' = root
  BY SelectKeeps
<1>3. PICK e \in Least(Ahead) :
        /\ Log!Read(e.ptr)
        /\ call' = [Considered(call, e.ptr, ret'.record) EXCEPT !.behind = @ \cup {e}]
  BY DEF WalkOn
<1> DEFINE stops == ~Meets(call.conds, e.ptr) /\ Stops(call.conds, rec[e.ptr])
<1>4. ret'.record = rec[e.ptr]
  BY <1>3 DEF Log!Read
<1>5. /\ call'.op = "select" /\ call'.conds = call.conds /\ call'.via = call.via
      /\ call'.rc = call.rc /\ call'.cut = call.cut
      /\ call'.pc = IF stops THEN "close" ELSE "walk"
      /\ call'.behind = call.behind \cup {e}
      /\ call'.rows = IF Meets(call.conds, e.ptr) THEN Append(call.rows, e.ptr) ELSE call.rows
  BY <1>1, <1>3, <1>4, BrokenNot DEF Considered, Commands
<1>6. Route'
  BY <1>1, <1>2, <1>5, RouteStep
<1>7. ASSUME WalkOrdered, ~call.cut
      PROVE  /\ ~stops => WalkSoFar'
             /\ stops => Lists(call', Ptrs(entries)) /\ InKeyOrder(call')
  <2>1. /\ call.conds \in Seq(Conditions) /\ KeysOnce /\ KeysPositive
        /\ call.rows \in Seq(Rids)
    BY <1>1, <1>7 DEF WalkOrdered, CondsTyped, Route, AnswerInv, Commands
  <2>2. /\ call.behind \subseteq entries /\ AllBelow(call.behind, Ahead)
        /\ Lists(call, Ptrs(call.behind)) /\ InKeyOrder(call)
        /\ OneUpTo(call.conds, Ahead)
    BY <1>1, <1>7 DEF AnswerInv, WalkSoFar, At
  <2>3. e \in Ahead /\ e \in entries /\ e \notin call.behind
    BY DEF Least, Ahead
  <2>4. /\ \A f, g \in entries : f.key = g.key => f = g
        /\ \A f, g \in entries : f.ptr = g.ptr => f = g
        /\ \A f \in entries : f.key \in Int /\ f.ptr \in Rids /\ rec[f.ptr].key = f.key
    BY <2>1, PairKeys, KeysAreInts DEF Inv, IndexPointsToRows
  <2>5. \A f \in Ahead \ {e} : e.key < f.key
    <3>1. \A f \in Ahead : e.key <= f.key /\ f \in entries
      BY DEF Least, Ahead
    <3> QED
      BY <2>3, <2>4, <3>1
  <2>6. Lists(call', Ptrs(call.behind) \cup {e.ptr})
    <3>1. e.ptr \in Rids /\ e.ptr \notin Ptrs(call.behind)
      BY <2>2, <2>3, <2>4 DEF Ptrs
    <3> QED
      BY <1>5, <2>1, <2>2, <3>1, OneMore
  <2>7. InKeyOrder(call')
    <3>1. \A q \in ToSet(call.rows) : rec[q].key < rec[e.ptr].key
      BY <2>2, <2>3, <2>4 DEF Lists, Ptrs, AllBelow
    <3> QED
      BY <1>5, <2>1, <2>2, <2>3, <2>4, <3>1, OneMoreInOrder
  <2>8. ASSUME ~stops PROVE WalkSoFar'
    <3>1. AllBelow(call'.behind, entries \ call'.behind)
      BY <1>5, <2>2, <2>5 DEF AllBelow, Ahead
    <3>2. OneUpTo(call'.conds, entries \ call'.behind)
      BY <1>5, <2>2 DEF OneUpTo, Ahead
    <3>3. Lists(call', Ptrs(call'.behind))
      <4>1. Ptrs(call'.behind) = Ptrs(call.behind) \cup {e.ptr}
        BY <1>5 DEF Ptrs
      <4> QED
        BY <2>6, <4>1
    <3>4. call'.behind \subseteq entries
      BY <1>5, <2>2, <2>3
    <3> QED
      BY <1>2, <2>7, <3>1, <3>2, <3>3, <3>4
         DEF WalkSoFar, Ahead, Lists, InKeyOrder, Meets, Ptrs, AllBelow, OneUpTo, KeysOf
  <2>9. ASSUME stops PROVE Lists(call', Ptrs(entries))
    <3>1. Broken(call.conds, rec[e.ptr]) # {}
      BY <2>9, BrokenNot
    <3>2. \A f \in Ahead : ~Meets(call.conds, f.ptr)
      BY <2>1, <2>2, <2>3, <2>5, <2>9, <3>1, StopIsSafe DEF Ahead
    <3>3. \A r \in Ptrs(entries) :
            r \in Ptrs(call.behind) \cup {e.ptr} \/ ~Meets(call.conds, r)
      BY <3>2 DEF Ptrs, Ahead
    <3>4. Ptrs(call.behind) \cup {e.ptr} \subseteq Ptrs(entries)
      BY <2>2, <2>3 DEF Ptrs
    <3> QED
      BY <1>5, <2>6, <3>3, <3>4 DEF Lists
  <2> QED
    BY <2>7, <2>8, <2>9
<1>8. Answered'
  BY <1>1, <1>2, <1>5, <1>7 DEF Answered, Lists, InKeyOrder, Meets, Ptrs
<1>9. WalkOrdered => WalkSoFar'
  BY <1>5, <1>7 DEF WalkSoFar, At
<1>10. ScanSoFar'
  BY <1>5 DEF ScanSoFar, At
<1> QED
  BY <1>2, <1>6, <1>8, <1>9, <1>10, KeysStay DEF AnswerInv

\* What is read astray is no part of the answer.
LEMMA WalkAstrayAnswer == ASSUME Inv, AnswerInv, WalkAstray \/ WalkEnd PROVE AnswerInv'
<1>1. /\ call \in Commands /\ call.op = "select" /\ call.pc = "astray" /\ Route
      /\ Answered
  BY DEF WalkAstray, WalkEnd, At, Inv, AnswerInv, TypeOK
<1>2. rec' = rec /\ entries' = entries /\ root' = root
  BY SelectKeeps
<1>3. /\ call'.op = "select" /\ call'.conds = call.conds /\ call'.via = call.via
      /\ call'.rows = call.rows /\ call'.rc = call.rc /\ call'.cut = call.cut
      /\ call'.pc \in {"close", "astray"}
  BY <1>1 DEF WalkAstray, WalkEnd, Considered, Commands
<1>4. Route'
  BY <1>1, <1>2, <1>3, RouteStep
<1>5. Answered'
  BY <1>1, <1>2, <1>3 DEF Answered, Lists, InKeyOrder, Meets, Ptrs
<1> QED
  BY <1>2, <1>3, <1>4, <1>5, KeysStay DEF AnswerInv, ScanSoFar, WalkSoFar, At

\* Behind the last pair the walk has found every row.
LEMMA WalkOutAnswer == ASSUME Inv, AnswerInv, WalkOut \/ WalkFails PROVE AnswerInv'
<1>1. /\ call \in Commands /\ call.op = "select" /\ call.pc = "walk" /\ Route
      /\ tree' = tree /\ call.via = "index"
  BY DEF WalkOut, WalkFails, At, Inv, AnswerInv, TypeOK, Route
<1>2. rec' = rec /\ entries' = entries /\ root' = root
  BY SelectKeeps
<1>3. /\ call'.op = "select" /\ call'.conds = call.conds /\ call'.via = call.via
      /\ call'.pc \in {"close", "astray"} /\ call'.rows = call.rows
      /\ WalkOut => call'.cut = call.cut
      /\ WalkFails => call'.cut
  BY <1>1 DEF WalkOut, WalkFails, Commands
<1>4. Route'
  BY <1>1, <1>2, <1>3, RouteStep
<1>5. ASSUME WalkOrdered, ~call'.cut
      PROVE  Lists(call, Ptrs(entries)) /\ InKeyOrder(call)
  <2>1. ~call.cut /\ Ahead = {}
    BY <1>1, <1>3, <1>5 DEF WalkOut
  <2>2. /\ call.behind \subseteq entries
        /\ Lists(call, Ptrs(call.behind)) /\ InKeyOrder(call)
    BY <1>1, <1>5, <2>1 DEF AnswerInv, WalkSoFar, At
  <2>3. call.behind = entries
    BY <2>1, <2>2 DEF Ahead
  <2> QED
    BY <2>2, <2>3
<1>6. Answered'
  BY <1>1, <1>2, <1>3, <1>5 DEF Answered, Lists, InKeyOrder, Meets, Ptrs
<1> QED
  BY <1>2, <1>3, <1>4, <1>6, KeysStay DEF AnswerInv, ScanSoFar, WalkSoFar, At

\* The ids before the next are those before this one, and this one.
LEMMA BeforeNext ==
  ASSUME NEW r \in Ends, NEW q \in Ends
  PROVE  Before(r, Log!Succ(q)) <=> Before(r, q) \/ r = q
BY SqlEngineAssumption DEF Ends, Log!Succ, Before

LEMMA ScanAnswer == ASSUME Inv, AnswerInv, ScanOn \/ ScanFails \/ ScanEnd PROVE AnswerInv'
<1>1. /\ call \in Commands /\ call.op = "select" /\ call.pc = "scan" /\ Route
      /\ call.via = "scan"
  BY DEF ScanOn, ScanFails, ScanEnd, At, Inv, AnswerInv, TypeOK, Route
<1>2. rec' = rec /\ entries' = entries /\ root' = root
  BY SelectKeeps
<1>3. Lists(call, {r \in DOMAIN rec : Before(r, call.rid)})
  BY <1>1 DEF AnswerInv, ScanSoFar, At
<1>4. CASE ScanOn
  <2>1. call.rid \in DOMAIN rec /\ call.rid \in Rids /\ call.rid \in Ends
        /\ DOMAIN rec \subseteq Ends
    BY <1>4, RidsAreEnds DEF ScanOn, Log!Read, Inv, TypeOK
  <2>2. /\ call'.op = "select" /\ call'.pc = "scan" /\ call'.conds = call.conds
        /\ call'.via = call.via /\ call'.rid = Log!Succ(call.rid)
        /\ call'.rows = IF Meets(call.conds, call.rid) THEN Append(call.rows, call.rid)
                        ELSE call.rows
    BY <1>1, <1>4, BrokenNot DEF ScanOn, NextTuple, Log!Read, Commands
  <2>3. call.rows \in Seq(Rids) /\ ~Before(call.rid, call.rid)
    BY <1>1, <2>1, NotBeforeItself DEF Commands
  <2>4. Lists(call', {r \in DOMAIN rec : Before(r, call.rid)} \cup {call.rid})
    BY <1>3, <2>1, <2>2, <2>3, OneMore
  <2>5. {r \in DOMAIN rec : Before(r, call'.rid)}
          = {r \in DOMAIN rec : Before(r, call.rid)} \cup {call.rid}
    BY <2>1, <2>2, BeforeNext
  <2>6. ScanSoFar'
    BY <1>2, <2>4, <2>5 DEF ScanSoFar, Lists, Meets, Before
  <2>7. Route'
    BY <1>1, <1>2, <2>2, RouteStep
  <2> QED
    BY <1>2, <2>2, <2>6, <2>7, KeysStay DEF AnswerInv, WalkSoFar, Answered, At
<1>5. CASE ScanFails
  <2>1. /\ call'.op = "select" /\ call'.pc = "close" /\ call'.rc = "RC_FILE_READ_FAILED"
        /\ call'.conds = call.conds /\ call'.via = call.via
    BY <1>1, <1>5 DEF ScanFails, Commands
  <2>2. Route'
    BY <1>1, <1>2, <2>1, RouteStep
  <2> QED
    BY <1>2, <2>1, <2>2, KeysStay DEF AnswerInv, ScanSoFar, WalkSoFar, Answered, At
<1>6. CASE ScanEnd
  <2>1. /\ call'.op = "select" /\ call'.pc = "close" /\ call'.rows = call.rows
        /\ call'.conds = call.conds /\ call'.via = call.via
    BY <1>1, <1>6 DEF ScanEnd, Commands
  <2>2. {r \in DOMAIN rec : Before(r, call.rid)} = DOMAIN rec
    BY <1>6 DEF ScanEnd, Inv, EndIsFree
  <2>3. Lists(call, DOMAIN rec)
    BY <1>3, <2>2
  <2>4. Route'
    BY <1>1, <1>2, <2>1, RouteStep
  <2>5. Answered'
    BY <1>1, <1>2, <2>1, <2>3 DEF Answered, Lists, Meets
  <2> QED
    BY <1>2, <2>1, <2>4, <2>5, KeysStay DEF AnswerInv, ScanSoFar, WalkSoFar, At
<1> QED
  BY <1>4, <1>5, <1>6

LEMMA SelectCloseAnswer == ASSUME Inv, AnswerInv, SelectClose PROVE AnswerInv'
<1>1. call \in Commands /\ call.op = "select" /\ call.pc = "close"
  BY DEF SelectClose, At, Inv, TypeOK
<1>2. rec' = rec /\ entries' = entries /\ root' = root
  BY SelectKeeps
<1>3. /\ call'.op = "select" /\ call'.pc = "idle" /\ call'.conds = call.conds
      /\ call'.via = call.via /\ call'.rows = call.rows /\ call'.rc = call.rc
      /\ call'.cut = call.cut
  BY <1>1 DEF SelectClose, Returns, Commands
<1>4. Route'
  BY <1>1, <1>2, <1>3, RouteStep
<1>5. Answered'
  BY <1>1, <1>2, <1>3 DEF AnswerInv, Answered, Lists, InKeyOrder, Meets, Ptrs
<1> QED
  BY <1>2, <1>3, <1>4, <1>5, KeysStay DEF AnswerInv, ScanSoFar, WalkSoFar, At

LEMMA InitAnswer == Init => AnswerInv
<1> SUFFICES ASSUME Init PROVE AnswerInv
  OBVIOUS
<1>1. call.op = "none" /\ DOMAIN rec = {}
  BY DEF Init, Idle, Log!Init
<1> QED
  BY <1>1 DEF AnswerInv, KeysOnce, Route, ScanSoFar, WalkSoFar, Answered, At

LEMMA NextAnswer == Inv /\ AnswerInv /\ [Next]_vars => AnswerInv'
<1> SUFFICES ASSUME Inv, AnswerInv, [Next]_vars PROVE AnswerInv'
  OBVIOUS
<1>1. CASE \E index \in BOOLEAN : LoadStart(index)
  BY <1>1, LoadAnswer
<1>2. CASE \E conds \in CondLists : SelectStart(conds)
  BY <1>2, SelectStartAnswer
<1>3. CASE Step
  BY <1>3, LoadAnswer, LoadRowAnswer, SelectTableAnswer, SelectLocateAnswer,
     WalkOnAnswer, WalkOutAnswer, ScanAnswer, SelectCloseAnswer
     DEF Step
<1>4. CASE SelectLocateFails \/ WalkFails \/ WalkAstray \/ WalkEnd \/ ScanFails \/ Restart
  BY <1>4, LoadAnswer, SelectLocateAnswer, WalkOutAnswer, WalkAstrayAnswer, ScanAnswer
<1>5. CASE UNCHANGED vars
  <2>1. rec' = rec /\ entries' = entries /\ root' = root /\ tree' = tree /\ call' = call
    BY <1>5 DEF vars
  <2>2. Route' /\ (~Duplicates => KeysOnce')
    BY <2>1, KeysStay DEF AnswerInv, Route
  <2>3. ScanSoFar' /\ Answered'
    BY <2>1 DEF AnswerInv, ScanSoFar, Answered, At, Lists, InKeyOrder, Meets, Ptrs, Before
  <2>4. WalkOrdered => WalkSoFar'
    BY <2>1 DEF AnswerInv, WalkSoFar, At, Lists, InKeyOrder, Meets, Ptrs, AllBelow,
                OneUpTo, KeysOf, Ahead
  <2> QED
    BY <2>2, <2>3, <2>4 DEF AnswerInv
<1> QED
  BY <1>1, <1>2, <1>3, <1>4, <1>5 DEF Next

LEMMA AnswerHolds == Spec => []AnswerInv
<1>1. Init => Inv /\ AnswerInv
  BY InitInv, InitAnswer
<1>2. Inv /\ AnswerInv /\ [Next]_vars => (Inv /\ AnswerInv)'
  BY NextInv, NextAnswer
<1> QED
  BY <1>1, <1>2, PTL DEF Spec

\* A SELECT that scans answers exactly, whatever the table, its duplicates
\* and the conditions are.
THEOREM ScanExact == Spec => [](call.via = "scan" => SelectExact)
<1>1. AnswerInv => (call.via = "scan" => SelectExact)
  BY DEF AnswerInv, Answered, Lists, Meets, SelectExact, Matching, At
<1> QED
  BY <1>1, AnswerHolds, PTL

\* So does one that walks along the index up to its last pair, where keys are
\* positive and are loaded once: though it begins at one condition and stops at
\* another, it misses no row of the index and finds none twice.  What it prints
\* behind the last pair, where the code does not stop it, is not spoken of.
THEOREM AnswersExact ==
  ASSUME WalkOrdered
  PROVE  Spec => []SelectExact
<1>1. AnswerInv => SelectExact
  BY DEF AnswerInv, Route, Answered, Lists, Meets, InKeyOrder, Ptrs, SelectExact, Matching, At
<1> QED
  BY <1>1, AnswerHolds, PTL
=============================================================================
