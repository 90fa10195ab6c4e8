------------------------------ MODULE PageFile ------------------------------
(***************************************************************************)
(* Class PageFile: files read and written a page at a time through Unix    *)
(* file descriptors, with one LRU cache of pages that every object of the  *)
(* process shares.  A slot of the cache is tagged with a descriptor and a  *)
(* page number and is empty when its lastAccessed is 0; hits and misses    *)
(* stamp it from one clock.                                                *)
(*                                                                         *)
(* The environment may make a system call fail (Faults), end the process   *)
(* at any moment (Restart), and let an object go out of scope without      *)
(* closing it (Drop): the class has no destructor, so the descriptor       *)
(* stays open.                                                             *)
(***************************************************************************)
EXTENDS Integers

CONSTANTS
  Files,        \* names of the files
  Handles,      \* PageFile objects
  Fds,          \* descriptors the system hands out: the positive ones only
  Pids,         \* page numbers
  Contents,     \* what a caller may write to a page
  Blank,        \* the page of zeros: a hole in a file, a buffer never filled
  Torn,         \* a page that a short write left half old and half new
  Mixed,        \* a buffer that a short read filled in part
  NoData,       \* the buffer of an operation that returns no page
  NoFile,       \* the file of a descriptor that is free
  CACHE_COUNT,  \* slots of the cache
  IntMax,       \* the largest int: cacheClock wraps below it
  Reach,        \* pages whose byte offset fits in an int: 2^31 \div PAGE_SIZE
  ClockBound,   \* bound of the model: no read once the clock is here
  Faults        \* subset of {"open", "read", "write", "short", "close"}

Pages == Contents \cup {Blank, Torn, Mixed}
Slots == 0 .. CACHE_COUNT - 1
CacheStruct ==
  [fd : Fds \cup {0}, pid : Pids \cup {0}, lastAccessed : Int, buffer : Pages]
Modes == {"r", "w", "x"}   \* "x": any mode that is not 'r', 'R', 'w' or 'W'

ASSUME PageFileAssumption ==
  /\ Fds \subseteq Nat \ {0}
  /\ Pids \subseteq Nat
  /\ CACHE_COUNT \in Nat \ {0}
  /\ IntMax \in Nat \ {0}
  /\ Reach \in Nat \ {0}
  /\ ClockBound \in Int
  /\ NoFile \notin Files
  /\ \A p \in Pids : 0 .. p \subseteq Pids

VARIABLES
  dir,          \* the files that exist
  disk,         \* [Files -> [size, page]]: like dir, survives the process
  fdTable,      \* [Fds -> [file, mode]]: the descriptors of the process
  pf,           \* [Handles -> [fd, epid]]: the members of the objects
  cacheClock,   \* PageFile::cacheClock
  readCache,    \* PageFile::readCache, [Slots -> [fd, pid, lastAccessed, buffer]]
  ret           \* what the last operation returned: [rc, data]

cacheVars == <<cacheClock, readCache>>
vars == <<dir, disk, fdTable, pf, cacheClock, readCache, ret>>

ReturnCodes ==     \* of Bruinbase.h, those this class returns; "OK" is 0
  {"OK", "RC_FILE_OPEN_FAILED", "RC_FILE_CLOSE_FAILED", "RC_FILE_SEEK_FAILED",
   "RC_FILE_READ_FAILED", "RC_FILE_WRITE_FAILED", "RC_INVALID_FILE_MODE",
   "RC_INVALID_PID"}

EmptyFile == [size |-> 0, page |-> [p \in Pids |-> Blank]]
FreeFd == [file |-> NoFile, mode |-> "none"]
NewObject == [fd |-> -1, epid |-> 0]
EmptySlot == [fd |-> 0, pid |-> 0, lastAccessed |-> 0, buffer |-> Blank]
Code(rc) == [rc |-> rc, data |-> NoData]

Init ==
  /\ disk = [f \in Files |-> EmptyFile]
  /\ dir = {}
  /\ fdTable = [d \in Fds |-> FreeFd]
  /\ pf = [h \in Handles |-> NewObject]
  /\ cacheClock = 1
  /\ readCache = [i \in Slots |-> EmptySlot]
  /\ ret = Code("OK")
-----------------------------------------------------------------------------
(* The cache.                                                              *)

Valid(i) == readCache[i].lastAccessed # 0

\* Mutant of Match: a search that stops before the last slot.
MatchButLast(i, d, p) ==
  /\ i < CACHE_COUNT - 1
  /\ Valid(i) /\ readCache[i].fd = d /\ readCache[i].pid = p

Match(i, d, p) == Valid(i) /\ readCache[i].fd = d /\ readCache[i].pid = p

FirstMatch(i, d, p) ==
  Match(i, d, p) /\ \A j \in Slots : j < i => ~Match(j, d, p)

Cached(d, p) == \E i \in Slots : Match(i, d, p)

\* Mutant of Victim: the comparison of the stamps turned round.
VictimNewest(i) ==
  \/ ~Valid(i) /\ \A j \in Slots : j < i => Valid(j)
  \/ \A j \in Slots :
       Valid(j) /\ readCache[i].lastAccessed >= readCache[j].lastAccessed

\* The slot a miss fills: the first that is empty, else the first of those
\* with the least lastAccessed.
Victim(i) ==
  \/ ~Valid(i) /\ \A j \in Slots : j < i => Valid(j)
  \/ \A j \in Slots :
       /\ Valid(j)
       /\ readCache[i].lastAccessed <= readCache[j].lastAccessed
       /\ j < i => readCache[i].lastAccessed # readCache[j].lastAccessed

\* ++cacheClock on an int.
Tick(c) == IF c = IntMax THEN -IntMax - 1 ELSE c + 1

\* Mutant of Emptied: the fd that a closed PageFile has.
EmptiedMinusOne(s) == [fd |-> -1, pid |-> 0, lastAccessed |-> 0, buffer |-> s.buffer]

\* close() and write() empty a slot without clearing its buffer.
Emptied(s) == [fd |-> 0, pid |-> 0, lastAccessed |-> 0, buffer |-> s.buffer]

\* Mutant of Evicted: close() leaves the cache alone.
EvictedNone(d) == readCache

Evicted(d) ==
  [i \in Slots |-> IF Valid(i) /\ readCache[i].fd = d
                   THEN Emptied(readCache[i]) ELSE readCache[i]]

\* Mutant of Invalidate: write() leaves the cache alone.
InvalidateNone(d, p) == UNCHANGED readCache

\* write() leaves its loop at the first slot that holds the page.
Invalidate(d, p) ==
  \/ \E i \in Slots :
       /\ FirstMatch(i, d, p)
       /\ readCache' = [readCache EXCEPT ![i] = Emptied(@)]
  \/ ~Cached(d, p) /\ UNCHANGED readCache
-----------------------------------------------------------------------------
(* open and close.                                                         *)

Live(h) == pf[h].fd # -1
IsOpen(d) == d \in Fds /\ fdTable[d] # FreeFd
FileOf(h) == fdTable[pf[h].fd].file

LowestFree(d) == d \in Fds /\ ~IsOpen(d) /\ \A e \in Fds : e < d => IsOpen(e)

\* The programs that use the class never have one file open in two objects.
Unshared(h, f) ==
  \A g \in Handles \ {h} : Live(g) => FileOf(g) # f

OpenOK(h, f, m) ==
  /\ ~Live(h)
  /\ Unshared(h, f)
  /\ m = "w" \/ (m = "r" /\ f \in dir)
  /\ \E d \in Fds :
       /\ LowestFree(d)
       /\ fdTable' = [fdTable EXCEPT ![d] = [file |-> f, mode |-> m]]
       /\ pf' = [pf EXCEPT ![h] = [fd |-> d, epid |-> disk[f].size]]
  /\ dir' = dir \cup {f}
  /\ ret' = Code("OK")
  /\ UNCHANGED <<disk, cacheVars>>

OpenRefused(h, f, m) ==
  /\ \/ Live(h) /\ ret' = Code("RC_FILE_OPEN_FAILED")
     \/ ~Live(h) /\ m = "x" /\ ret' = Code("RC_INVALID_FILE_MODE")
     \/ /\ ~Live(h) /\ m # "x"
        /\ \/ m = "r" /\ f \notin dir
           \/ \A d \in Fds : IsOpen(d)      \* EMFILE
           \/ "open" \in Faults
        /\ ret' = Code("RC_FILE_OPEN_FAILED")
  /\ UNCHANGED <<dir, disk, fdTable, pf, cacheClock, readCache>>

\* fstat fails: the descriptor is closed again, the file stays created.
OpenUnsized(h, f, m) ==
  /\ "open" \in Faults
  /\ ~Live(h)
  /\ m = "w" \/ (m = "r" /\ f \in dir)
  /\ \E d \in Fds : LowestFree(d)
  /\ dir' = dir \cup {f}
  /\ ret' = Code("RC_FILE_OPEN_FAILED")
  /\ UNCHANGED <<disk, fdTable, pf, cacheClock, readCache>>

Open(h, f, m) == OpenOK(h, f, m) \/ OpenRefused(h, f, m) \/ OpenUnsized(h, f, m)

\* Mutant of CloseOK: fd and epid are not reset.
CloseKeepsFd(h) ==
  /\ Live(h)
  /\ IsOpen(pf[h].fd)
  /\ fdTable' = [fdTable EXCEPT ![pf[h].fd] = FreeFd]
  /\ readCache' = Evicted(pf[h].fd)
  /\ ret' = Code("OK")
  /\ UNCHANGED <<dir, disk, pf, cacheClock>>

CloseOK(h) ==
  /\ Live(h)
  /\ IsOpen(pf[h].fd)
  /\ fdTable' = [fdTable EXCEPT ![pf[h].fd] = FreeFd]
  /\ readCache' = Evicted(pf[h].fd)
  /\ pf' = [pf EXCEPT ![h] = NewObject]
  /\ ret' = Code("OK")
  /\ UNCHANGED <<dir, disk, cacheClock>>

\* ::close fails: the object and the cache stay as they are.  Whether the
\* descriptor is free again is up to the system (on Linux it is).
CloseRefused(h) ==
  /\ \/ ~Live(h) /\ UNCHANGED fdTable
     \/ Live(h) /\ ~IsOpen(pf[h].fd) /\ UNCHANGED fdTable
     \/ /\ Live(h) /\ IsOpen(pf[h].fd) /\ "close" \in Faults
        /\ \/ UNCHANGED fdTable
           \/ fdTable' = [fdTable EXCEPT ![pf[h].fd] = FreeFd]
  /\ ret' = Code("RC_FILE_CLOSE_FAILED")
  /\ UNCHANGED <<dir, disk, pf, cacheClock, readCache>>

Close(h) == CloseOK(h) \/ CloseRefused(h)

\* The object goes out of scope and another takes its place.
Drop(h) ==
  /\ Live(h)
  /\ pf' = [pf EXCEPT ![h] = NewObject]
  /\ UNCHANGED <<dir, disk, fdTable, cacheClock, readCache, ret>>
-----------------------------------------------------------------------------
(* seek, read and write.                                                   *)

\* seek computes pid * PAGE_SIZE in an int.  The page that offset falls on
\* after the product has wrapped, and -1 for an offset that is negative.
SeekPage(p) ==
  LET q == p % (2 * Reach) IN IF q < Reach THEN q ELSE -1

Seek(d, p) == IF IsOpen(d) THEN SeekPage(p) ELSE -1

ReadInvalid(h, p) ==
  /\ p < 0 \/ p >= pf[h].epid
  /\ ret' = Code("RC_INVALID_PID")
  /\ UNCHANGED <<dir, disk, fdTable, pf, cacheClock, readCache>>

InFile(h, p) == 0 <= p /\ p < pf[h].epid /\ cacheClock < ClockBound

ReadHit(h, p) ==
  /\ InFile(h, p)
  /\ \E i \in Slots :
       /\ FirstMatch(i, pf[h].fd, p)
       /\ ret' = [rc |-> "OK", data |-> readCache[i].buffer]
       /\ readCache' = [readCache EXCEPT ![i].lastAccessed = Tick(cacheClock)]
  /\ cacheClock' = Tick(cacheClock)
  /\ UNCHANGED <<dir, disk, fdTable, pf>>

ReadUnseekable(h, p) ==
  /\ InFile(h, p)
  /\ ~Cached(pf[h].fd, p)
  /\ Seek(pf[h].fd, p) = -1
  /\ ret' = Code("RC_FILE_SEEK_FAILED")
  /\ UNCHANGED <<dir, disk, fdTable, pf, cacheClock, readCache>>

\* What ::read leaves in a buffer b: the page, or, where the file ends before the
\* page does, as much of it as there is.  Neither is a negative result.
Filled(file, q, b) ==
  IF q < file.size THEN file.page[q]
  ELSE IF file.page[q] = Torn THEN Mixed ELSE b

\* The slot is tagged before ::read, so a read that fails leaves the tag on
\* the buffer of whatever page the slot held.
ReadMiss(h, p) ==
  /\ InFile(h, p)
  /\ ~Cached(pf[h].fd, p)
  /\ Seek(pf[h].fd, p) # -1
  /\ cacheClock' = Tick(cacheClock)
  /\ \E i \in Slots :
       /\ Victim(i)
       /\ \/ LET page == Filled(disk[FileOf(h)], Seek(pf[h].fd, p), readCache[i].buffer) IN
             /\ readCache' = [readCache EXCEPT ![i] =
                  [fd |-> pf[h].fd, pid |-> p,
                   lastAccessed |-> Tick(cacheClock), buffer |-> page]]
             /\ ret' = [rc |-> "OK", data |-> page]
          \/ /\ "read" \in Faults
             /\ readCache' = [readCache EXCEPT ![i] =
                  [fd |-> pf[h].fd, pid |-> p,
                   lastAccessed |-> Tick(cacheClock), buffer |-> @.buffer]]
             /\ ret' = Code("RC_FILE_READ_FAILED")
  /\ UNCHANGED <<dir, disk, fdTable, pf>>

Read(h, p) ==
  ReadInvalid(h, p) \/ ReadHit(h, p) \/ ReadUnseekable(h, p) \/ ReadMiss(h, p)

WriteRefused(h, p) ==
  /\ \/ p < 0 /\ ret' = Code("RC_INVALID_PID")
     \/ /\ p >= 0 /\ Seek(pf[h].fd, p) = -1
        /\ ret' = Code("RC_FILE_SEEK_FAILED")
     \/ /\ p >= 0 /\ Seek(pf[h].fd, p) # -1
        /\ fdTable[pf[h].fd].mode = "r" \/ "write" \in Faults
        /\ ret' = Code("RC_FILE_WRITE_FAILED")
  /\ UNCHANGED <<dir, disk, fdTable, pf, cacheClock, readCache>>

\* Mutant of EndPid: a page written at the end does not extend the file.
EndPidStrict(h, p) == IF p > pf[h].epid THEN p + 1 ELSE pf[h].epid

EndPid(h, p) == IF p >= pf[h].epid THEN p + 1 ELSE pf[h].epid

Extended(file, q, d) ==
  [size |-> IF q >= file.size THEN q + 1 ELSE file.size,
   page |-> [file.page EXCEPT ![q] = d]]

\* What the system stores: the whole page, or part of it, which write() does
\* not look at.
StorePage(f, q, d) ==
  \/ disk' = [disk EXCEPT ![f] = Extended(@, q, d)]
  \/ /\ "short" \in Faults
     /\ disk' = [disk EXCEPT ![f] =
          [size |-> IF q >= @.size THEN q ELSE @.size,
           page |-> [@.page EXCEPT ![q] = Torn]]]

WriteOK(h, p, d) ==
  /\ p >= 0
  /\ Seek(pf[h].fd, p) # -1
  /\ fdTable[pf[h].fd].mode = "w"
  /\ StorePage(FileOf(h), Seek(pf[h].fd, p), d)
  /\ Invalidate(pf[h].fd, p)
  /\ pf' = [pf EXCEPT ![h].epid = EndPid(h, p)]
  /\ ret' = Code("OK")
  /\ UNCHANGED <<dir, fdTable, cacheClock>>

\* The process ends; the next one starts with an empty cache.
Restart ==
  /\ fdTable' = [d \in Fds |-> FreeFd]
  /\ pf' = [h \in Handles |-> NewObject]
  /\ cacheClock' = 1
  /\ readCache' = [i \in Slots |-> EmptySlot]
  /\ ret' = Code("OK")
  /\ UNCHANGED <<dir, disk>>

Next ==
  \/ \E h \in Handles :
       \/ \E f \in Files, m \in Modes : Open(h, f, m)
       \/ Close(h) \/ Drop(h)
       \/ \E p \in Pids \cup {-1} :
            \/ Read(h, p) \/ WriteRefused(h, p)
            \/ \E d \in Contents : WriteOK(h, p, d)
  \/ Restart

Spec == Init /\ [][Next]_vars
-----------------------------------------------------------------------------
(* Properties.                                                             *)

\* Every variable has the type its declaration in PageFile.h gives it, and a
\* tag names a descriptor that the system can hand out (or 0, when empty).
TypeOK ==
  /\ dir \subseteq Files
  /\ disk \in [Files -> [size : Nat, page : [Pids -> Pages]]]
  /\ fdTable \in [Fds -> {FreeFd} \cup [file : Files, mode : {"r", "w"}]]
  /\ pf \in [Handles -> [fd : Fds \cup {-1}, epid : Nat]]
  /\ cacheClock \in Int
  /\ readCache \in [Slots -> CacheStruct]
  /\ ret \in [rc : ReturnCodes, data : Pages \cup {NoData}]

\* One page is never in two slots: read() serves the first slot it finds, and
\* write() invalidates the first and leaves its loop, so a second copy would
\* be served stale for ever.
UniqueTags ==
  \A i, j \in Slots :
    /\ Valid(i) /\ Valid(j)
    /\ readCache[i].fd = readCache[j].fd
    /\ readCache[i].pid = readCache[j].pid
    => i = j

\* No slot outlives its descriptor, so a descriptor number that the system
\* hands out again never finds the pages of the file that had it before.
NoOrphanSlots == \A i \in Slots : Valid(i) => IsOpen(readCache[i].fd)

\* What the cache holds for a descriptor that an object uses is what the disk
\* holds: through hits, misses, evictions, writes, closes and new opens.
CacheCoherent ==
  \A i \in Slots, h \in Handles :
    Valid(i) /\ Live(h) /\ readCache[i].fd = pf[h].fd
    => readCache[i].buffer = disk[FileOf(h)].page[readCache[i].pid]

\* The end an object keeps in memory is the end of the file on disk, which
\* RecordFile and BTreeIndex take for the page that is allocated next.
EpidCurrent ==
  \A h \in Handles :
    pf[h].epid = IF Live(h) THEN disk[FileOf(h)].size ELSE 0

\* The objects of the process use distinct open descriptors on distinct files.
Separate ==
  /\ \A h \in Handles : Live(h) => IsOpen(pf[h].fd)
  /\ \A g, h \in Handles : g # h /\ Live(g) /\ Live(h) => FileOf(g) # FileOf(h)

\* What an object stands for: the file and the mode of its descriptor.
opened == [h \in Handles |-> IF Live(h) THEN fdTable[pf[h].fd] ELSE FreeFd]

Store == INSTANCE PageStore

\* The class keeps the promise of its header: whatever the cache and the
\* descriptors do, a caller sees pages that hold what was last written.
ImplementsPageStore == Store!Spec

\* The page that a slot holds.
Tag(i) == <<readCache[i].fd, readCache[i].pid>>

ValidSlots == {i \in Slots : Valid(i)}

Before(i, j) == readCache[i].lastAccessed < readCache[j].lastAccessed

\* The pages in the cache, and which of two was used before the other.
held == {Tag(i) : i \in ValidSlots}
older == {x \in held \X held :
            \E i, j \in ValidSlots : Before(i, j) /\ x = <<Tag(i), Tag(j)>>}

Lru == INSTANCE LruOrder WITH Capacity <- CACHE_COUNT, Keys <- Fds \X Pids

\* The clock and the stamps implement least-recently-used replacement, as the
\* comment on cacheClock (PageFile.h) says.
ImplementsLru == Lru!Spec

\* read() returns 0 only with the page that is on disk ("read a disk page
\* into memory buffer", PageFile.h).
ReadReturnsPage ==
  [][\A h \in Handles, p \in Pids :
       Read(h, p) /\ ret'.rc = "OK" /\ IsOpen(pf[h].fd)
       => ret'.data = disk[FileOf(h)].page[p]]_vars
=============================================================================
