----------------------------- MODULE PageStore -----------------------------
(***************************************************************************)
(* What class PageFile promises to RecordFile and BTreeIndex, with no      *)
(* cache, no file descriptors and no clock: a set of files of pages, and   *)
(* objects that open a file, read and write its pages and close it.  A     *)
(* read that returns 0 returns the page as it was last written; a write    *)
(* that returns 0 has stored the page; an operation that returns an error  *)
(* has changed no page.  PageFile is checked and proved to implement this  *)
(* specification.                                                          *)
(***************************************************************************)
EXTENDS Integers

CONSTANTS
  Files,      \* names of the files
  Handles,    \* PageFile objects
  Pids,       \* page numbers
  Contents,   \* what a page may hold
  Blank,      \* the page of zeros, which a hole in a file reads as
  NoData,     \* the buffer of an operation that returns no page
  NoFile,     \* the file of an object that is closed
  Reach,      \* the pages whose byte offset fits in the code's int
  Faults      \* the system calls that may fail

VARIABLES
  dir,        \* the files that exist
  disk,       \* [Files -> [size, page]]
  opened,     \* [Handles -> [file, mode]]
  ret         \* what the last operation returned: [rc, data]

vars == <<dir, disk, opened, ret>>

EmptyFile == [size |-> 0, page |-> [p \in Pids |-> Blank]]
Closed == [file |-> NoFile, mode |-> "none"]
Code(rc) == [rc |-> rc, data |-> NoData]

Init ==
  /\ disk = [f \in Files |-> EmptyFile]
  /\ dir = {}
  /\ opened = [h \in Handles |-> Closed]
  /\ ret = Code("OK")

\* No two objects in scope have the same file open.
Unshared(h, f) == \A g \in Handles \ {h} : opened[g].file # f

\* m is the mode asked for; "x" stands for every mode that is not 'r' or 'w'.
Open(h, f, m) ==
  /\ m \in {"r", "w"}
  /\ opened[h] = Closed
  /\ Unshared(h, f)
  /\ m = "w" \/ f \in dir
  /\ opened' = [opened EXCEPT ![h] = [file |-> f, mode |-> m]]
  /\ dir' = dir \cup {f}
  /\ ret' = Code("OK")
  /\ UNCHANGED disk

\* An open that fails may still have created the file.
OpenFails(h, f, m) ==
  /\ \/ m \in {"r", "w"} /\ ret' = Code("RC_FILE_OPEN_FAILED")
     \/ m = "x" /\ ret' \in {Code("RC_FILE_OPEN_FAILED"), Code("RC_INVALID_FILE_MODE")}
  /\ \/ UNCHANGED dir
     \/ m = "w" /\ dir' = dir \cup {f}
  /\ UNCHANGED <<disk, opened>>

Close(h) ==
  /\ opened[h] # Closed
  /\ opened' = [opened EXCEPT ![h] = Closed]
  /\ ret' = Code("OK")
  /\ UNCHANGED <<dir, disk>>

CloseFails(h) ==
  /\ opened[h] = Closed
  /\ ret' = Code("RC_FILE_CLOSE_FAILED")
  /\ UNCHANGED <<dir, disk, opened>>

\* The object leaves its scope, closed or not.
Drop(h) ==
  /\ opened' = [opened EXCEPT ![h] = Closed]
  /\ UNCHANGED <<dir, disk, ret>>

Readable(h, p) ==
  opened[h] # Closed /\ p \in Pids /\ p < disk[opened[h].file].size

Read(h, p) ==
  /\ Readable(h, p)
  /\ ret' = [rc |-> "OK", data |-> disk[opened[h].file].page[p]]
  /\ UNCHANGED <<dir, disk, opened>>

ReadFails(h, p) ==
  /\ \/ ~Readable(h, p) /\ ret' = Code("RC_INVALID_PID")
     \/ "read" \in Faults /\ ret' = Code("RC_FILE_READ_FAILED")
  /\ UNCHANGED <<dir, disk, opened>>

Write(h, p, d) ==
  /\ opened[h].mode = "w"
  /\ p \in Pids
  /\ disk' = [disk EXCEPT ![opened[h].file] =
       [size |-> IF p >= @.size THEN p + 1 ELSE @.size,
        page |-> [@.page EXCEPT ![p] = d]]]
  /\ ret' = Code("OK")
  /\ UNCHANGED <<dir, opened>>

WriteFails(h, p) ==
  /\ \/ p \notin Pids /\ ret' = Code("RC_INVALID_PID")
     \/ /\ opened[h] = Closed \/ p >= Reach
        /\ ret' = Code("RC_FILE_SEEK_FAILED")
     \/ /\ opened[h].mode = "r" \/ "write" \in Faults
        /\ ret' = Code("RC_FILE_WRITE_FAILED")
  /\ UNCHANGED <<dir, disk, opened>>

\* The process ends, at any moment, and is started again.
Restart ==
  /\ opened' = [h \in Handles |-> Closed]
  /\ ret' = Code("OK")
  /\ UNCHANGED <<dir, disk>>

Next ==
  \/ \E h \in Handles :
       \/ \E f \in Files, m \in {"r", "w", "x"} : Open(h, f, m) \/ OpenFails(h, f, m)
       \/ Close(h) \/ CloseFails(h) \/ Drop(h)
       \/ \E p \in Pids \cup {-1} :
            \/ Read(h, p) \/ ReadFails(h, p) \/ WriteFails(h, p)
            \/ \E d \in Contents : Write(h, p, d)
  \/ Restart

Spec == Init /\ [][Next]_vars
=============================================================================
