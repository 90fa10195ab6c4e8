----------------------------- MODULE RecordFile -----------------------------
(***************************************************************************)
(* Class RecordFile over one file of pages.  Each call makes at most one   *)
(* open, one read and one write of a PageFile, whose promise (PageStore)   *)
(* is used here: a page is on disk as it was last written.  The number of  *)
(* records is kept on each page and nowhere else; the end of the file is   *)
(* computed from the last page by open() and advanced by append().         *)
(***************************************************************************)
EXTENDS Integers

CONSTANTS
  Pids,               \* page numbers: 0 .. n, or Nat
  RECORDS_PER_PAGE,   \* slots of a page
  MAX_VALUE_LENGTH,   \* bytes of a value field, the closing 0 included
  Keys,               \* keys of records
  Texts,              \* what a value says
  Lengths,            \* how long a value may be
  NoRecord,           \* a slot never written; the record of a call that returns none
  NoRid,              \* the id of a call that returns none
  Unset,              \* what an erid that was never given a value may hold
  Faults              \* subset of {"open", "read", "write", "close"}

Sids == 0 .. RECORDS_PER_PAGE - 1
Rids == [pid : Pids, sid : Sids]
Values == [text : Texts, len : Lengths]

ASSUME RecordFileAssumption ==
  /\ Pids \subseteq Nat
  /\ 0 \in Pids
  /\ \A p \in Pids : 0 .. p \subseteq Pids
  /\ RECORDS_PER_PAGE \in Nat \ {0}
  /\ MAX_VALUE_LENGTH \in Nat \ {0}
  /\ Lengths \subseteq Nat
  /\ \A l \in Lengths : 0 .. l \subseteq Lengths
  /\ NoRecord \notin [key : Keys, value : Values]
  /\ Unset \subseteq [pid : Int, sid : Int]

VARIABLES
  dir,    \* whether the file exists
  size,   \* pages of the file
  page,   \* [Pids -> [count, slot]]
  mode,   \* of pf: "none" (fd = -1), "r", "w", or "stale" once ::close has
          \* failed, freed the descriptor and left fd as it was
  erid,   \* RecordFile::erid
  wild,   \* whether append() has written outside its page buffer
  ret     \* what the last call returned: [rc, rid, record]

disk == <<dir, size, page>>
vars == <<dir, size, page, mode, erid, wild, ret>>

Code(rc) == [rc |-> rc, rid |-> NoRid, record |-> NoRecord]
Zero == [pid |-> 0, sid |-> 0]
ZeroPage == [count |-> 0, slot |-> [s \in Sids |-> NoRecord]]

Init ==
  /\ dir = FALSE
  /\ size = 0
  /\ page = [p \in Pids |-> ZeroPage]
  /\ mode = "none"
  /\ erid = Zero
  /\ wild = FALSE
  /\ ret = Code("OK")
-----------------------------------------------------------------------------
(* Record ids.                                                             *)

\* Mutant of Succ: a page with one slot more than it has.
SuccLate(rid) ==
  IF rid.sid + 1 > RECORDS_PER_PAGE
  THEN [pid |-> rid.pid + 1, sid |-> 0]
  ELSE [pid |-> rid.pid, sid |-> rid.sid + 1]

\* Mutant of Succ: the last slot of a page is not followed by the next page.
SuccStuck(rid) == [pid |-> rid.pid, sid |-> (rid.sid + 1) % RECORDS_PER_PAGE]

\* operator++
Succ(rid) ==
  IF rid.sid + 1 >= RECORDS_PER_PAGE
  THEN [pid |-> rid.pid + 1, sid |-> 0]
  ELSE [pid |-> rid.pid, sid |-> rid.sid + 1]

\* operator<
Before(r, q) == r.pid < q.pid \/ (r.pid = q.pid /\ r.sid < q.sid)
-----------------------------------------------------------------------------
(* Slots.                                                                  *)

\* writeSlot cuts a value that does not fit with its closing 0.
Stored(v) == IF v.len >= MAX_VALUE_LENGTH
             THEN [v EXCEPT !.len = MAX_VALUE_LENGTH - 1] ELSE v

\* Mutant of WithRecord: setRecordCount is left out.
WithRecordUncounted(pg, sid, k, v) ==
  [pg EXCEPT !.slot[sid] = [key |-> k, value |-> Stored(v)]]

\* The page after writeSlot and setRecordCount.
WithRecord(pg, sid, k, v) ==
  [count |-> sid + 1,
   slot  |-> [pg.slot EXCEPT ![sid] = [key |-> k, value |-> Stored(v)]]]

\* The end as open() computes it from the last page.
EndOf ==
  IF size = 0 THEN Zero
  ELSE IF page[size - 1].count >= RECORDS_PER_PAGE
       THEN [pid |-> size, sid |-> 0]
       ELSE [pid |-> size - 1, sid |-> page[size - 1].count]
-----------------------------------------------------------------------------
(* Calls.                                                                  *)

IsOpen == mode \in {"r", "w"}

OpenOK(m) ==
  /\ mode = "none"
  /\ m = "w" \/ dir
  /\ dir' = TRUE
  /\ mode' = m
  /\ erid' = EndOf
  /\ ret' = Code("OK")
  /\ UNCHANGED <<size, page>>

\* pf.open fails: the object keeps the erid it had.
OpenRefused(m) ==
  /\ \/ mode # "none"
     \/ m = "r" /\ ~dir
     \/ "open" \in Faults
  /\ ret' = Code("RC_FILE_OPEN_FAILED")
  /\ UNCHANGED <<disk, mode, erid>>

\* The last page cannot be read: open() undoes itself.
OpenUnread(m) ==
  /\ mode = "none"
  /\ m = "w" \/ dir
  /\ size > 0 /\ "read" \in Faults
  /\ dir' = TRUE
  /\ erid' = Zero
  /\ ret' = Code("RC_FILE_READ_FAILED")
  /\ mode' = "none" \/ ("close" \in Faults /\ mode' = "stale")
  /\ UNCHANGED <<size, page>>

Open(m) == OpenOK(m) \/ OpenRefused(m) \/ OpenUnread(m)

\* close() resets erid whether pf.close works or not.
CloseOK ==
  /\ IsOpen
  /\ mode' = "none"
  /\ erid' = Zero
  /\ ret' = Code("OK")
  /\ UNCHANGED disk

CloseFails ==
  /\ \/ ~IsOpen /\ UNCHANGED mode
     \/ IsOpen /\ "close" \in Faults /\ mode' = "stale"
  /\ erid' = Zero
  /\ ret' = Code("RC_FILE_CLOSE_FAILED")
  /\ UNCHANGED disk

Close == CloseOK \/ CloseFails

\* The object leaves its scope unclosed, or the process ends, and the next one
\* starts afresh.
Drop ==
  /\ mode' = "none"
  /\ erid' = Zero
  /\ wild' = FALSE
  /\ ret' = Code("OK")
  /\ UNCHANGED disk

\* RecordFile(filename, mode) ignores the result of open, and when that is an
\* error of pf.open erid has never been given a value.
Construct(m) ==
  /\ mode = "none"
  /\ \/ OpenOK(m) \/ OpenUnread(m)
     \/ /\ (m = "r" /\ ~dir) \/ "open" \in Faults
        /\ erid' \in Unset
        /\ ret' = Code("RC_FILE_OPEN_FAILED")
        /\ UNCHANGED <<disk, mode>>

\* pf.read finds page p: its bound check is against the size of the file.
PageReadable(p) == IsOpen /\ p < size

ReadOK(rid) ==
  /\ Before(rid, erid)
  /\ PageReadable(rid.pid)
  /\ ret' = [rc |-> "OK", rid |-> NoRid, record |-> page[rid.pid].slot[rid.sid]]
  /\ UNCHANGED <<disk, mode, erid>>

ReadFails(rid) ==
  /\ \/ ~Before(rid, erid) /\ ret' = Code("RC_INVALID_RID")
     \/ /\ Before(rid, erid)
        /\ \/ ~PageReadable(rid.pid) /\ ret' = Code("RC_INVALID_PID")
           \/ /\ PageReadable(rid.pid) /\ "read" \in Faults
              /\ ret' = Code("RC_FILE_READ_FAILED")
  /\ UNCHANGED <<disk, mode, erid>>

Read(rid) == ReadOK(rid) \/ ReadFails(rid)

\* Mutant of Basis: the page that has records is not read first.
BasisZero == ZeroPage

\* The page that append() starts from: a zeroed one for the first slot, else
\* the page as it is.
Basis == IF erid.sid > 0 THEN page[erid.pid] ELSE ZeroPage

AppendOK(k, v) ==
  /\ erid.sid > 0 => PageReadable(erid.pid)
  /\ mode = "w"
  /\ erid.pid \in Pids
  /\ page' = [page EXCEPT ![erid.pid] = WithRecord(Basis, erid.sid, k, v)]
  /\ size' = IF erid.pid >= size THEN erid.pid + 1 ELSE size
  /\ ret' = [rc |-> "OK", rid |-> erid, record |-> NoRecord]
  /\ erid' = Succ(erid)
  /\ UNCHANGED <<dir, mode>>

AppendFails ==
  /\ erid.sid >= 0
  /\ \/ /\ erid.sid > 0
        /\ \/ ~PageReadable(erid.pid) /\ ret' = Code("RC_INVALID_PID")
           \/ /\ PageReadable(erid.pid) /\ "read" \in Faults
              /\ ret' = Code("RC_FILE_READ_FAILED")
     \/ /\ erid.sid > 0 => PageReadable(erid.pid)
        /\ \/ erid.pid < 0 /\ ret' = Code("RC_INVALID_PID")
           \/ /\ erid.pid >= 0 /\ ~IsOpen
              /\ ret' = Code("RC_FILE_SEEK_FAILED")
           \/ /\ IsOpen /\ (mode = "r" \/ "write" \in Faults)
              /\ ret' = Code("RC_FILE_WRITE_FAILED")
  /\ UNCHANGED <<disk, mode, erid>>

\* append() with a negative erid.sid skips the read, and writeSlot writes in
\* front of the page: what the process does from there on is anything.
AppendWild ==
  /\ erid.sid < 0
  /\ wild' = TRUE
  /\ UNCHANGED <<disk, mode, erid, ret>>

\* A call that stays within its memory.
Call ==
  \/ \E m \in {"r", "w"} : Open(m) \/ Construct(m)
  \/ Close \/ AppendFails
  \/ \E k \in Keys, v \in Values : AppendOK(k, v)
  \/ \E rid \in Rids : Read(rid)

Next ==
  \/ ~wild /\ Call /\ UNCHANGED wild
  \/ AppendWild \/ Drop

Spec == Init /\ [][Next]_vars
-----------------------------------------------------------------------------
(* Properties.                                                             *)

Stamped == [key : Keys, value : Values]
Pages == [count : 0 .. RECORDS_PER_PAGE, slot : [Sids -> Stamped \cup {NoRecord}]]

\* The members and the pages have the types RecordFile.h gives them; the
\* counter of a page never exceeds its slots.  The end of an object that has
\* opened its file is a slot of a page, and so append() never writes outside
\* its buffer on it; of an object that has not it may be any two integers.
TypeOK ==
  /\ dir \in BOOLEAN
  /\ size \in Nat
  /\ page \in [Pids -> Pages]
  /\ mode \in {"none", "r", "w", "stale"}
  /\ erid \in [pid : Int, sid : Int]
  /\ IsOpen => erid \in [pid : Nat, sid : Sids]
  /\ wild \in BOOLEAN
  /\ IsOpen => ~wild

\* The layout that open() relies on to find the end: every page but the last
\* is full, the last is not empty, and the slots in use are the first ones.
Dense ==
  /\ 0 .. size - 1 \subseteq Pids
  /\ \A p \in 0 .. size - 1 :
       /\ p # size - 1 => page[p].count = RECORDS_PER_PAGE
       /\ page[p].count > 0
       /\ \A s \in Sids : s < page[p].count => page[p].slot[s] # NoRecord

\* The end that an open object has advanced append by append is the one that
\* a new open() would compute from the disk.
EndCurrent == IsOpen => erid = EndOf

\* The ids in use, and the log they make.
Used == {r \in Rids : r.pid < size /\ r.sid < page[r.pid].count}

Log == INSTANCE RecordLog WITH
  Records <- [key : Keys, value : {Stored(v) : v \in Values}],
  rec <- [r \in Used |-> page[r.pid].slot[r.sid]],
  end <- EndOf,
  mode <- IF mode = "stale" THEN "none" ELSE mode

\* A record once appended keeps its id and its contents through failed calls,
\* closes, reopens, leaked objects and the end of the process; ids are handed
\* out in order with none skipped and none given twice.
ImplementsRecordLog == Log!Spec
=============================================================================
