----------------------------- MODULE RecordLog -----------------------------
(***************************************************************************)
(* What class RecordFile promises to SqlEngine: a log of records.  A       *)
(* record is appended at the end, is given the next id, and from then on   *)
(* a read of that id returns it, whatever is closed, reopened or killed.   *)
(* A call that returns an error has not changed the log.                   *)
(***************************************************************************)
EXTENDS Integers

CONSTANTS
  Pids,               \* page numbers
  RECORDS_PER_PAGE,   \* records that a page holds
  Records,            \* what a slot may hold once written: [key, value]
  NoRecord,           \* the record of a call that returns none
  NoRid,              \* the id of a call that returns none
  Faults              \* the system calls that may fail

VARIABLES
  rec,    \* the records, a function on the ids of the log
  end,    \* the id after the last
  mode,   \* how the object has the log open: "none", "r" or "w"
  ret     \* what the last call returned: [rc, rid, record]

vars == <<rec, end, mode, ret>>

Code(rc) == [rc |-> rc, rid |-> NoRid, record |-> NoRecord]
Rids == [pid : Pids, sid : 0 .. RECORDS_PER_PAGE - 1]
Zero == [pid |-> 0, sid |-> 0]

\* The id that follows rid: operator++ of RecordFile.cc.
Succ(rid) ==
  IF rid.sid + 1 >= RECORDS_PER_PAGE
  THEN [pid |-> rid.pid + 1, sid |-> 0]
  ELSE [pid |-> rid.pid, sid |-> rid.sid + 1]

Init ==
  /\ rec = [r \in {} |-> NoRecord]
  /\ end = Zero
  /\ mode = "none"
  /\ ret = Code("OK")

Open(m) ==
  /\ mode = "none"
  /\ mode' = m
  /\ ret' = Code("OK")
  /\ UNCHANGED <<rec, end>>

Close ==
  /\ mode # "none"
  /\ mode' = "none"
  /\ ret' = Code("OK")
  /\ UNCHANGED <<rec, end>>

Append(r) ==
  /\ mode = "w"
  /\ end.pid \in Pids
  /\ rec' = [i \in DOMAIN rec \cup {end} |-> IF i = end THEN r ELSE rec[i]]
  /\ end' = Succ(end)
  /\ ret' = [rc |-> "OK", rid |-> end, record |-> NoRecord]
  /\ UNCHANGED mode

Read(rid) ==
  /\ mode # "none"
  /\ rid \in DOMAIN rec
  /\ ret' = [rc |-> "OK", rid |-> NoRid, record |-> rec[rid]]
  /\ UNCHANGED <<rec, end, mode>>

\* The ways a call may fail.  None changes the log; an open that cannot read
\* the end of the log leaves it closed.
OpenFails(m) ==
  /\ \/ mode # "none"
     \/ m = "r" /\ end = Zero      \* it was never created
     \/ {"open", "read", "close"} \cap Faults # {}
  /\ ret' \in {Code("RC_FILE_OPEN_FAILED"), Code("RC_FILE_READ_FAILED")}
  /\ UNCHANGED <<rec, end, mode>>

CloseFails ==
  /\ mode = "none" \/ "close" \in Faults
  /\ mode' = "none"
  /\ ret' = Code("RC_FILE_CLOSE_FAILED")
  /\ UNCHANGED <<rec, end>>

AppendFails ==
  /\ \/ mode # "w"
     \/ "read" \in Faults /\ end.sid > 0
     \/ "write" \in Faults
  /\ ret' \in {Code("RC_INVALID_PID"), Code("RC_FILE_READ_FAILED"),
               Code("RC_FILE_SEEK_FAILED"), Code("RC_FILE_WRITE_FAILED")}
  /\ UNCHANGED <<rec, end, mode>>

ReadFails(rid) ==
  /\ rid \notin DOMAIN rec \/ mode = "none" \/ "read" \in Faults
  /\ ret' \in {Code("RC_INVALID_RID"), Code("RC_INVALID_PID"),
               Code("RC_FILE_READ_FAILED")}
  /\ UNCHANGED <<rec, end, mode>>

\* The object goes away, or the whole process does.
Drop ==
  /\ mode' = "none"
  /\ ret' = Code("OK")
  /\ UNCHANGED <<rec, end>>

Next ==
  \/ \E m \in {"r", "w"} : Open(m) \/ OpenFails(m)
  \/ Close \/ CloseFails \/ Drop
  \/ \E r \in Records : Append(r)
  \/ AppendFails
  \/ \E rid \in Rids : Read(rid) \/ ReadFails(rid)

Spec == Init /\ [][Next]_vars
=============================================================================
