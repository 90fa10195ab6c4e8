-------------------------- MODULE PageFile_proofs --------------------------
(***************************************************************************)
(* Proofs about PageFile, for every number of files, objects, descriptors, *)
(* pages and slots and every width of the clock.  Types and tags are kept  *)
(* whatever fails.  The rest is lost to the failures that leave no trace   *)
(* in the object, each part to some of them only, which its hypothesis     *)
(* names.                                                                  *)
(***************************************************************************)
EXTENDS PageFile, FiniteSetTheorems, TLAPS

\* A descriptor is in use until close() has returned 0.
ClosesSucceed == "close" \notin Faults

\* No offset wraps back into the file.
OffsetsExact == \A p \in Pids : p < 2 * Reach

WritesWhole == ClosesSucceed /\ OffsetsExact /\ "short" \notin Faults
ReadsFaithful ==
  ClosesSucceed /\ OffsetsExact /\ {"short", "read"} \cap Faults = {}

\* A write beyond the pages that an offset reaches is refused.
SizeInReach == \A f \in Files : disk[f].size <= Reach

Inv ==
  /\ TypeOK
  /\ UniqueTags
  /\ ClosesSucceed => NoOrphanSlots /\ Separate
  /\ ReadsFaithful => CacheCoherent
  /\ WritesWhole => EpidCurrent /\ SizeInReach

USE DEF PageFileAssumption

LEMMA SeekExact ==
  ASSUME NEW p \in Nat, p < 2 * Reach
  PROVE  SeekPage(p) = IF p < Reach THEN p ELSE -1
<1>1. Reach \in Nat \ {0}
  BY PageFileAssumption
<1>2. p % (2 * Reach) = p
  BY <1>1
<1>. QED
  BY <1>2 DEF SeekPage

LEMMA SeekInPids ==
  ASSUME NEW p \in Pids
  PROVE  SeekPage(p) # -1 => SeekPage(p) \in Pids /\ SeekPage(p) \in Nat
<1> DEFINE m == 2 * Reach
           q == p % m
<1>1. p \in Nat /\ m \in Nat /\ m > 0 /\ 0 .. p \subseteq Pids
  BY PageFileAssumption
<1>2. SeekPage(p) = IF q < Reach THEN q ELSE -1
  BY DEF SeekPage
<1> HIDE DEF m
<1>3. q \in 0 .. m - 1 /\ (p < m => q = p)
  BY <1>1
<1> HIDE DEF q
<1>4. q \in 0 .. p
  BY <1>1, <1>3
<1>. QED
  BY <1>1, <1>2, <1>4

\* Where a seek succeeds there is a file and a page of it.
LEMMA SeekFinds ==
  ASSUME TypeOK, NEW h \in Handles, NEW p \in Pids, Seek(pf[h].fd, p) # -1
  PROVE  /\ Live(h) /\ pf[h].fd \in Fds /\ IsOpen(pf[h].fd) /\ FileOf(h) \in Files
         /\ Seek(pf[h].fd, p) \in Pids /\ Seek(pf[h].fd, p) \in Nat
         /\ OffsetsExact => Seek(pf[h].fd, p) = p /\ p < Reach
<1>1. IsOpen(pf[h].fd) /\ Seek(pf[h].fd, p) = SeekPage(p)
  BY DEF Seek
<1>2. pf[h].fd \in Fds /\ FileOf(h) \in Files /\ Live(h)
  <2>1. pf[h].fd \in Fds /\ fdTable[pf[h].fd] # FreeFd
    BY <1>1 DEF IsOpen
  <2>2. fdTable[pf[h].fd] \in [file : Files, mode : {"r", "w"}]
    BY <2>1 DEF TypeOK
  <2>3. pf[h].fd # -1
    BY <2>1, PageFileAssumption
  <2>. QED
    BY <2>1, <2>2, <2>3 DEF FileOf, Live
<1>3. p \in Nat
  BY PageFileAssumption
<1>. QED
  BY <1>1, <1>2, <1>3, SeekInPids, SeekExact DEF OffsetsExact

LEMMA InitInv == Init => Inv
<1>. SUFFICES ASSUME Init PROVE Inv
  OBVIOUS
<1>1. TypeOK
  <2>1. disk \in [Files -> [size : Nat, page : [Pids -> Pages]]]
    BY DEF Init, Pages, EmptyFile
  <2>2. fdTable \in [Fds -> {FreeFd} \cup [file : Files, mode : {"r", "w"}]]
    BY DEF Init, FreeFd
  <2>3. pf \in [Handles -> [fd : Fds \cup {-1}, epid : Nat]]
    BY DEF Init, NewObject
  <2>4. readCache \in [Slots -> CacheStruct]
    BY DEF Init, EmptySlot, Pages, CacheStruct
  <2>5. dir \subseteq Files /\ cacheClock \in Int /\ ret \in [rc : ReturnCodes, data : Pages \cup {NoData}]
    BY DEF Init, Code, ReturnCodes
  <2>. QED
    BY <2>1, <2>2, <2>3, <2>4, <2>5 DEF TypeOK
<1>2. \A i \in Slots : ~Valid(i)
  BY DEF Init, Valid, EmptySlot
<1>3. \A h \in Handles : ~Live(h)
  BY DEF Init, Live, NewObject
<1>4. UniqueTags /\ NoOrphanSlots /\ CacheCoherent /\ Separate
  BY <1>2, <1>3 DEF UniqueTags, NoOrphanSlots, CacheCoherent, Separate
<1>5. EpidCurrent
  BY <1>3 DEF EpidCurrent, Init, NewObject
<1>6. SizeInReach
  <2>1. \A f \in Files : disk[f].size = 0
    BY DEF Init, EmptyFile
  <2>2. 0 <= Reach
    BY PageFileAssumption
  <2>. QED
    BY <2>1, <2>2 DEF SizeInReach
<1>. QED
  BY <1>1, <1>4, <1>5, <1>6 DEF Inv
-----------------------------------------------------------------------------
(* Every action preserves Inv.                                             *)

LEMMA OpenOKInv ==
  ASSUME Inv, NEW h \in Handles, NEW f \in Files, NEW m \in Modes, OpenOK(h, f, m)
  PROVE  Inv'
<1>. USE DEF Inv
<1>1. PICK d \in Fds :
        /\ LowestFree(d)
        /\ fdTable' = [fdTable EXCEPT ![d] = [file |-> f, mode |-> m]]
        /\ pf' = [pf EXCEPT ![h] = [fd |-> d, epid |-> disk[f].size]]
  BY DEF OpenOK
<1>2. /\ dir' = dir \cup {f}
      /\ ret' = Code("OK")
      /\ UNCHANGED <<disk, cacheClock, readCache>>
      /\ m \in {"r", "w"}
      /\ Unshared(h, f)
  BY DEF OpenOK, cacheVars
<1>3. TypeOK'
  <2>1. (fdTable \in [Fds -> {FreeFd} \cup [file : Files, mode : {"r", "w"}]])'
    BY <1>1, <1>2 DEF TypeOK
  <2>2. (pf \in [Handles -> [fd : Fds \cup {-1}, epid : Nat]])'
    BY <1>1 DEF TypeOK
  <2>3. (ret \in [rc : ReturnCodes, data : Pages \cup {NoData}])'
    BY <1>2 DEF Code, ReturnCodes
  <2>. QED
    BY <1>2, <2>1, <2>2, <2>3 DEF TypeOK
<1>4. /\ \A e \in Fds : IsOpen(e) => e # d /\ fdTable'[e] = fdTable[e] /\ IsOpen(e)'
      /\ IsOpen(d)' /\ fdTable'[d].file = f
  BY <1>1, PageFileAssumption DEF TypeOK, IsOpen, LowestFree, FreeFd
<1>5. \A g \in Handles \ {h} : pf'[g] = pf[g]
  BY <1>1 DEF TypeOK
<1>6. pf'[h].fd = d /\ pf'[h].epid = disk[f].size
  BY <1>1 DEF TypeOK
<1>7. ASSUME ClosesSucceed, NEW g \in Handles \ {h}, Live(g)'
      PROVE  /\ Live(g) /\ IsOpen(pf[g].fd) /\ pf[g].fd \in Fds
             /\ pf[g].fd # d /\ IsOpen(pf[g].fd)'
             /\ FileOf(g)' = FileOf(g)
  <2>1. Live(g) /\ pf'[g].fd = pf[g].fd
    BY <1>5, <1>7 DEF Live
  <2>2. IsOpen(pf[g].fd) /\ pf[g].fd \in Fds
    BY <1>7, <2>1 DEF Separate, IsOpen
  <2>. QED
    BY <1>4, <2>1, <2>2 DEF FileOf
<1>8. Live(h)' /\ FileOf(h)' = f
  BY <1>4, <1>6, PageFileAssumption DEF Live, FileOf
<1>9. UniqueTags' /\ (SizeInReach => SizeInReach')
  BY <1>2 DEF UniqueTags, SizeInReach, Valid
<1>10. ClosesSucceed => NoOrphanSlots'
  BY <1>2, <1>4 DEF NoOrphanSlots, Valid, IsOpen
<1>11. ClosesSucceed => Separate'
  BY <1>1, <1>2, <1>4, <1>6, <1>7, <1>8 DEF Separate, Unshared
<1>12. ReadsFaithful => CacheCoherent'
  <2>. SUFFICES ASSUME ReadsFaithful, NEW i \in Slots, NEW g \in Handles,
                       Valid(i), Live(g)', readCache[i].fd = pf'[g].fd
                PROVE  readCache[i].buffer = disk[FileOf(g)'].page[readCache[i].pid]
    BY <1>2 DEF CacheCoherent, Valid
  <2>. USE DEF ReadsFaithful
  <2>1. readCache[i].fd # d
    BY <1>1 DEF NoOrphanSlots, LowestFree
  <2>2. g # h
    BY <2>1, <1>6
  <2>. QED
    BY <2>2, <1>5, <1>7 DEF CacheCoherent
<1>13. WritesWhole => EpidCurrent'
  <2>. SUFFICES ASSUME WritesWhole, NEW g \in Handles
                PROVE  pf'[g].epid = IF Live(g)' THEN disk[FileOf(g)'].size ELSE 0
    BY <1>2 DEF EpidCurrent
  <2>1. CASE g = h
    BY <2>1, <1>6, <1>8
  <2>2. CASE g # h
    BY <2>2, <1>5, <1>7 DEF EpidCurrent, Live, WritesWhole
  <2>. QED
    BY <2>1, <2>2
<1>. QED
  BY <1>3, <1>9, <1>10, <1>11, <1>12, <1>13

\* The operations that are refused change no more than ret and dir.
LEMMA QuietInv ==
  ASSUME Inv, UNCHANGED <<disk, fdTable, pf, cacheClock, readCache>>,
         dir' \subseteq Files, NEW rc \in ReturnCodes, ret' = Code(rc)
  PROVE  Inv'
<1>1. TypeOK'
  BY DEF Inv, TypeOK, Code
<1>2. /\ UniqueTags' /\ (NoOrphanSlots => NoOrphanSlots')
      /\ SizeInReach => SizeInReach'
  BY DEF Inv, UniqueTags, NoOrphanSlots, SizeInReach, Valid, IsOpen
<1>3. (CacheCoherent => CacheCoherent') /\ (EpidCurrent => EpidCurrent')
  BY DEF CacheCoherent, EpidCurrent, Valid, Live, FileOf
<1>4. Separate => Separate'
  BY DEF Separate, Live, IsOpen, FileOf
<1>. QED
  BY <1>1, <1>2, <1>3, <1>4 DEF Inv

LEMMA CloseOKInv ==
  ASSUME Inv, NEW h \in Handles, CloseOK(h)
  PROVE  Inv'
<1>. USE DEF Inv
<1>. DEFINE d == pf[h].fd
<1>1. /\ d \in Fds /\ IsOpen(d) /\ Live(h)
      /\ fdTable' = [fdTable EXCEPT ![d] = FreeFd]
      /\ readCache' = Evicted(d)
      /\ pf' = [pf EXCEPT ![h] = NewObject]
      /\ ret' = Code("OK")
      /\ UNCHANGED <<dir, disk, cacheClock>>
  BY DEF CloseOK, IsOpen
<1>2. TypeOK'
  <2>1. (fdTable \in [Fds -> {FreeFd} \cup [file : Files, mode : {"r", "w"}]])'
    BY <1>1 DEF TypeOK, FreeFd
  <2>2. (pf \in [Handles -> [fd : Fds \cup {-1}, epid : Nat]])'
    BY <1>1 DEF TypeOK, NewObject
  <2>3. (readCache \in [Slots -> CacheStruct])'
    <3>1. \A s \in CacheStruct : Emptied(s) \in CacheStruct
      BY DEF CacheStruct, Emptied
    <3>. QED
      BY <1>1, <3>1 DEF TypeOK, Evicted
  <2>4. (ret \in [rc : ReturnCodes, data : Pages \cup {NoData}])'
    BY <1>1 DEF Code, ReturnCodes
  <2>. QED
    BY <1>1, <2>1, <2>2, <2>3, <2>4 DEF TypeOK
<1>3. \A i \in Slots : Valid(i)' =>
        Valid(i) /\ readCache'[i] = readCache[i] /\ readCache[i].fd # d
  BY <1>1 DEF Evicted, Emptied, Valid, TypeOK, CacheStruct
<1>4. \A g \in Handles : Live(g)' => g # h /\ Live(g) /\ pf'[g] = pf[g]
  BY <1>1 DEF Live, NewObject, TypeOK
<1>5. \A e \in Fds \ {d} : fdTable'[e] = fdTable[e]
  BY <1>1 DEF TypeOK
<1>6. ASSUME ClosesSucceed, NEW g \in Handles, Live(g)'
      PROVE  pf[g].fd \in Fds \ {d} /\ IsOpen(pf[g].fd)' /\ FileOf(g)' = FileOf(g)
  <2>1. pf[g].fd \in Fds /\ IsOpen(pf[g].fd) /\ FileOf(g) # FileOf(h)
    BY <1>1, <1>4, <1>6 DEF Separate, IsOpen
  <2>2. pf[g].fd # d
    BY <2>1 DEF FileOf
  <2>. QED
    BY <2>1, <2>2, <1>4, <1>5, <1>6 DEF IsOpen, FileOf
<1>7. UniqueTags' /\ (SizeInReach => SizeInReach')
  BY <1>1, <1>3 DEF UniqueTags, SizeInReach
<1>8. ClosesSucceed => NoOrphanSlots'
  BY <1>3, <1>5 DEF NoOrphanSlots, IsOpen
<1>9. ClosesSucceed => Separate'
  BY <1>4, <1>6 DEF Separate
<1>10. ReadsFaithful => CacheCoherent'
  BY <1>1, <1>3, <1>4, <1>6 DEF CacheCoherent, ReadsFaithful
<1>11. WritesWhole => EpidCurrent'
  <2>1. \A g \in Handles : ~Live(g)' => (EpidCurrent => pf'[g].epid = 0)
    BY <1>1 DEF EpidCurrent, NewObject, Live, TypeOK
  <2>. QED
    BY <2>1, <1>1, <1>4, <1>6 DEF EpidCurrent, WritesWhole
<1>. QED
  BY <1>2, <1>7, <1>8, <1>9, <1>10, <1>11

LEMMA DropInv ==
  ASSUME Inv, NEW h \in Handles, Drop(h)
  PROVE  Inv'
<1>. USE DEF Inv
<1>1. /\ pf' = [pf EXCEPT ![h] = NewObject]
      /\ UNCHANGED <<dir, disk, fdTable, cacheClock, readCache, ret>>
  BY DEF Drop
<1>2. TypeOK'
  <2>1. (pf \in [Handles -> [fd : Fds \cup {-1}, epid : Nat]])'
    BY <1>1 DEF TypeOK, NewObject
  <2>. QED
    BY <1>1, <2>1 DEF TypeOK
<1>3. \A g \in Handles : Live(g)' =>
        g # h /\ Live(g) /\ pf'[g] = pf[g] /\ FileOf(g)' = FileOf(g)
  BY <1>1 DEF Live, NewObject, TypeOK, FileOf
<1>4. UniqueTags' /\ (NoOrphanSlots => NoOrphanSlots') /\ (SizeInReach => SizeInReach')
  BY <1>1 DEF UniqueTags, NoOrphanSlots, SizeInReach, Valid, IsOpen
<1>5. CacheCoherent => CacheCoherent'
  BY <1>1, <1>3 DEF CacheCoherent, Valid
<1>6. Separate => Separate'
  BY <1>1, <1>3 DEF Separate, IsOpen
<1>7. EpidCurrent => EpidCurrent'
  <2>1. \A g \in Handles : ~Live(g)' => (EpidCurrent => pf'[g].epid = 0)
    BY <1>1 DEF EpidCurrent, NewObject, Live, TypeOK
  <2>. QED
    BY <2>1, <1>1, <1>3 DEF EpidCurrent
<1>. QED
  BY <1>2, <1>4, <1>5, <1>6, <1>7

LEMMA ReadHitInv ==
  ASSUME Inv, NEW h \in Handles, NEW p \in Pids \cup {-1}, ReadHit(h, p)
  PROVE  Inv'
<1>. USE DEF Inv
<1>1. PICK i \in Slots :
        /\ FirstMatch(i, pf[h].fd, p)
        /\ ret' = [rc |-> "OK", data |-> readCache[i].buffer]
        /\ readCache' = [readCache EXCEPT ![i].lastAccessed = Tick(cacheClock)]
  BY DEF ReadHit
<1>2. cacheClock' = Tick(cacheClock) /\ UNCHANGED <<dir, disk, fdTable, pf>>
  BY DEF ReadHit
<1>3. Tick(cacheClock) \in Int
  BY PageFileAssumption DEF Tick, TypeOK
<1>4. /\ readCache' \in [Slots -> CacheStruct]
      /\ \A j \in Slots : /\ readCache'[j].fd = readCache[j].fd
                          /\ readCache'[j].pid = readCache[j].pid
                          /\ readCache'[j].buffer = readCache[j].buffer
                          /\ Valid(j)' => Valid(j)
  BY <1>1, <1>3 DEF TypeOK, CacheStruct, FirstMatch, Match, Valid
<1>5. TypeOK'
  <2>1. readCache[i].buffer \in Pages
    BY DEF TypeOK, CacheStruct
  <2>2. (ret \in [rc : ReturnCodes, data : Pages \cup {NoData}])'
    BY <1>1, <2>1 DEF ReturnCodes
  <2>. QED
    BY <1>2, <1>3, <1>4, <2>2 DEF TypeOK
<1>6. UniqueTags' /\ (SizeInReach => SizeInReach')
  BY <1>2, <1>4 DEF UniqueTags, SizeInReach
<1>7. (NoOrphanSlots => NoOrphanSlots') /\ (Separate => Separate')
  BY <1>2, <1>4 DEF NoOrphanSlots, Separate, IsOpen, Live, FileOf
<1>8. CacheCoherent => CacheCoherent'
  <2>1. \A g \in Handles : (Live(g)' <=> Live(g)) /\ FileOf(g)' = FileOf(g)
    BY <1>2 DEF Live, FileOf
  <2>. QED
    BY <2>1, <1>2, <1>4 DEF CacheCoherent
<1>9. EpidCurrent => EpidCurrent'
  BY <1>2 DEF EpidCurrent, Live, FileOf
<1>. QED
  BY <1>5, <1>6, <1>7, <1>8, <1>9

\* A miss tags the victim with the page that was asked for; unless the read
\* fails or the file ends before the page, what it holds then is that page.
LEMMA MissFills ==
  ASSUME TypeOK, NEW h \in Handles, NEW p \in Pids \cup {-1}, ReadMiss(h, p)
  PROVE  /\ p \in Pids /\ Live(h) /\ pf[h].fd \in Fds /\ IsOpen(pf[h].fd)
         /\ FileOf(h) \in Files
         /\ \E i \in Slots, b \in Pages :
              /\ readCache' = [readCache EXCEPT ![i] =
                   [fd |-> pf[h].fd, pid |-> p,
                    lastAccessed |-> Tick(cacheClock), buffer |-> b]]
              /\ ret' \in [rc : ReturnCodes, data : Pages \cup {NoData}]
              /\ ReadsFaithful /\ EpidCurrent =>
                   /\ b = disk[FileOf(h)].page[p]
                   /\ ret' = [rc |-> "OK", data |-> disk[FileOf(h)].page[p]]
<1>1. p \in Pids /\ Seek(pf[h].fd, p) # -1
  BY PageFileAssumption DEF ReadMiss, InFile
<1>2. /\ Live(h) /\ pf[h].fd \in Fds /\ IsOpen(pf[h].fd) /\ FileOf(h) \in Files
      /\ Seek(pf[h].fd, p) \in Pids
      /\ ReadsFaithful => Seek(pf[h].fd, p) = p
  BY <1>1, SeekFinds DEF ReadsFaithful
<1> DEFINE page(i) == Filled(disk[FileOf(h)], Seek(pf[h].fd, p), readCache[i].buffer)
           Slot(b) == [fd |-> pf[h].fd, pid |-> p, lastAccessed |-> Tick(cacheClock), buffer |-> b]
<1>3. ASSUME NEW i \in Slots
      PROVE  /\ page(i) \in Pages
             /\ ReadsFaithful /\ EpidCurrent => page(i) = disk[FileOf(h)].page[p]
  <2>1. readCache[i].buffer \in Pages
    BY DEF TypeOK, CacheStruct
  <2>2. disk[FileOf(h)].page[Seek(pf[h].fd, p)] \in Pages /\ Mixed \in Pages
    BY <1>2 DEF TypeOK, Pages
  <2>3. ASSUME EpidCurrent PROVE p < disk[FileOf(h)].size
    BY <1>2, <2>3 DEF EpidCurrent, ReadMiss, InFile
  <2>. QED
    BY <1>2, <2>1, <2>2, <2>3 DEF Filled
<1>4. PICK i \in Slots :
        \/ /\ readCache' = [readCache EXCEPT ![i] = Slot(page(i))]
           /\ ret' = [rc |-> "OK", data |-> page(i)]
        \/ /\ ~ReadsFaithful
           /\ readCache' = [readCache EXCEPT ![i] = Slot(readCache[i].buffer)]
           /\ ret' = Code("RC_FILE_READ_FAILED")
  BY DEF ReadMiss, ReadsFaithful
<1>5. readCache[i].buffer \in Pages
  BY DEF TypeOK, CacheStruct
<1>6. /\ [rc |-> "OK", data |-> page(i)] \in [rc : ReturnCodes, data : Pages \cup {NoData}]
      /\ Code("RC_FILE_READ_FAILED") \in [rc : ReturnCodes, data : Pages \cup {NoData}]
  BY <1>3 DEF Code, ReturnCodes
<1>. HIDE DEF page
<1>. QED
  BY <1>1, <1>2, <1>3, <1>4, <1>5, <1>6

LEMMA ReadMissInv ==
  ASSUME Inv, NEW h \in Handles, NEW p \in Pids \cup {-1}, ReadMiss(h, p)
  PROVE  Inv'
<1>. USE DEF Inv
<1>1. p \in Pids /\ Live(h) /\ pf[h].fd \in Fds /\ IsOpen(pf[h].fd) /\ FileOf(h) \in Files
  BY MissFills
<1>2. PICK i \in Slots, b \in Pages :
        /\ readCache' = [readCache EXCEPT ![i] =
             [fd |-> pf[h].fd, pid |-> p, lastAccessed |-> Tick(cacheClock), buffer |-> b]]
        /\ ret' \in [rc : ReturnCodes, data : Pages \cup {NoData}]
        /\ ReadsFaithful => b = disk[FileOf(h)].page[p]
  BY MissFills DEF ReadsFaithful, WritesWhole
<1>3. /\ cacheClock' = Tick(cacheClock) /\ UNCHANGED <<dir, disk, fdTable, pf>>
      /\ ~Cached(pf[h].fd, p)
  BY DEF ReadMiss
<1>4. Tick(cacheClock) \in Int
  BY PageFileAssumption DEF Tick, TypeOK
<1>5. /\ \A j \in Slots \ {i} : readCache'[j] = readCache[j]
      /\ readCache'[i] = [fd |-> pf[h].fd, pid |-> p,
                          lastAccessed |-> Tick(cacheClock), buffer |-> b]
      /\ readCache' \in [Slots -> CacheStruct]
  BY <1>1, <1>2, <1>4 DEF TypeOK, CacheStruct
<1>6. TypeOK'
  BY <1>2, <1>3, <1>4, <1>5 DEF TypeOK
<1>7. UniqueTags'
  BY <1>3, <1>5 DEF UniqueTags, Cached, Match, Valid
<1>8. /\ NoOrphanSlots => NoOrphanSlots'
      /\ Separate => Separate'
      /\ SizeInReach => SizeInReach'
  BY <1>1, <1>3, <1>5 DEF NoOrphanSlots, Separate, SizeInReach, IsOpen, Live, FileOf, Valid
<1>9. ReadsFaithful => CacheCoherent'
  <2>. SUFFICES ASSUME ReadsFaithful, NEW j \in Slots, NEW g \in Handles,
                       Valid(j)', Live(g), readCache'[j].fd = pf[g].fd
                PROVE  readCache'[j].buffer = disk[FileOf(g)].page[readCache'[j].pid]
    BY <1>3 DEF CacheCoherent, Live, FileOf
  <2>1. CASE j = i
    BY <2>1, <1>2, <1>5 DEF FileOf
  <2>2. CASE j # i
    BY <2>2, <1>5 DEF CacheCoherent, Valid
  <2>. QED
    BY <2>1, <2>2
<1>10. EpidCurrent => EpidCurrent'
  BY <1>3 DEF EpidCurrent, Live, FileOf
<1>. QED
  BY <1>6, <1>7, <1>8, <1>9, <1>10

\* What a write leaves in the file: the rest of it is as it was, and unless
\* the write was short the page is the one that was asked for.
LEMMA WriteStores ==
  ASSUME TypeOK, NEW h \in Handles, NEW p \in Pids \cup {-1},
         NEW d \in Contents, WriteOK(h, p, d)
  PROVE  /\ p \in Pids /\ Live(h) /\ IsOpen(pf[h].fd)
         /\ pf[h].fd \in Fds /\ FileOf(h) \in Files
         /\ \E stored \in [size : Nat, page : [Pids -> Pages]] :
              /\ disk' = [disk EXCEPT ![FileOf(h)] = stored]
              /\ OffsetsExact =>
                   /\ p < Reach
                   /\ \A q \in Pids \ {p} : stored.page[q] = disk[FileOf(h)].page[q]
              /\ WritesWhole => stored = Extended(disk[FileOf(h)], p, d)
<1>1. p \in Pids /\ Seek(pf[h].fd, p) # -1
  BY PageFileAssumption DEF WriteOK
<1> DEFINE s == Seek(pf[h].fd, p)
           file == disk[FileOf(h)]
           torn == [size |-> IF s >= file.size THEN s ELSE file.size,
                    page |-> [file.page EXCEPT ![s] = Torn]]
<1>2. /\ Live(h) /\ pf[h].fd \in Fds /\ IsOpen(pf[h].fd) /\ FileOf(h) \in Files
      /\ s \in Pids /\ s \in Nat
      /\ OffsetsExact => s = p /\ p < Reach
  BY <1>1, SeekFinds
<1>3. file \in [size : Nat, page : [Pids -> Pages]]
  BY <1>2 DEF TypeOK
<1>4. \/ disk' = [disk EXCEPT ![FileOf(h)] = Extended(file, s, d)]
      \/ ~WritesWhole /\ disk' = [disk EXCEPT ![FileOf(h)] = torn]
  BY DEF WriteOK, StorePage, WritesWhole
<1>. HIDE DEF s, file
<1>5. /\ Extended(file, s, d) \in [size : Nat, page : [Pids -> Pages]]
      /\ \A q \in Pids \ {s} : Extended(file, s, d).page[q] = file.page[q]
  BY <1>2, <1>3 DEF Extended, Pages
<1>6. /\ torn \in [size : Nat, page : [Pids -> Pages]]
      /\ \A q \in Pids \ {s} : torn.page[q] = file.page[q]
  BY <1>2, <1>3 DEF Pages
<1>. HIDE DEF torn
<1>7. WritesWhole => OffsetsExact
  BY DEF WritesWhole
<1>8. CASE disk' = [disk EXCEPT ![FileOf(h)] = Extended(file, s, d)]
  BY <1>1, <1>2, <1>5, <1>7, <1>8 DEF file
<1>9. CASE ~WritesWhole /\ disk' = [disk EXCEPT ![FileOf(h)] = torn]
  BY <1>1, <1>2, <1>6, <1>9 DEF file
<1>. QED
  BY <1>4, <1>8, <1>9

\* After the invalidation no slot holds the page, and the others are as before.
LEMMA Invalidates ==
  ASSUME TypeOK, UniqueTags, NEW d, NEW p, Invalidate(d, p)
  PROVE  /\ readCache' \in [Slots -> CacheStruct]
         /\ \A i \in Slots : Valid(i)' =>
              Valid(i) /\ readCache'[i] = readCache[i] /\ ~Match(i, d, p)
<1>1. CASE ~Cached(d, p) /\ UNCHANGED readCache
  BY <1>1 DEF Cached, TypeOK, Valid
<1>2. ASSUME NEW i \in Slots, FirstMatch(i, d, p),
             readCache' = [readCache EXCEPT ![i] = Emptied(@)]
      PROVE  /\ readCache' \in [Slots -> CacheStruct]
             /\ \A j \in Slots : Valid(j)' =>
                  Valid(j) /\ readCache'[j] = readCache[j] /\ ~Match(j, d, p)
  <2>1. Emptied(readCache[i]) \in CacheStruct
    BY DEF TypeOK, CacheStruct, Emptied
  <2>2. readCache' \in [Slots -> CacheStruct]
    BY <1>2, <2>1 DEF TypeOK
  <2>3. ~Valid(i)'
    BY <1>2 DEF TypeOK, Valid, Emptied
  <2>4. \A j \in Slots \ {i} : readCache'[j] = readCache[j] /\ ~Match(j, d, p)
    BY <1>2 DEF TypeOK, UniqueTags, FirstMatch, Match
  <2>. QED
    BY <2>2, <2>3, <2>4 DEF Valid
<1>. QED
  BY <1>1, <1>2 DEF Invalidate

LEMMA WriteOKInv ==
  ASSUME Inv, NEW h \in Handles, NEW p \in Pids \cup {-1},
         NEW d \in Contents, WriteOK(h, p, d)
  PROVE  Inv'
<1>. USE DEF Inv
<1>. DEFINE f == FileOf(h)
<1>1. /\ p \in Pids /\ p \in Nat /\ Live(h) /\ IsOpen(pf[h].fd)
      /\ pf[h].fd \in Fds /\ f \in Files
  BY WriteStores, PageFileAssumption
<1>2. PICK stored \in [size : Nat, page : [Pids -> Pages]] :
        /\ disk' = [disk EXCEPT ![f] = stored]
        /\ OffsetsExact =>
             p < Reach /\ \A q \in Pids \ {p} : stored.page[q] = disk[f].page[q]
        /\ WritesWhole => stored = Extended(disk[f], p, d)
  BY WriteStores
<1>3. /\ Invalidate(pf[h].fd, p)
      /\ pf' = [pf EXCEPT ![h].epid = EndPid(h, p)]
      /\ ret' = Code("OK")
      /\ UNCHANGED <<dir, fdTable, cacheClock>>
  BY DEF WriteOK
<1>4. /\ readCache' \in [Slots -> CacheStruct]
      /\ \A i \in Slots : Valid(i)' =>
           Valid(i) /\ readCache'[i] = readCache[i] /\ ~Match(i, pf[h].fd, p)
  BY <1>3, Invalidates
<1>5. /\ disk' \in [Files -> [size : Nat, page : [Pids -> Pages]]]
      /\ \A e \in Files \ {f} : disk'[e] = disk[e]
      /\ disk'[f] = stored
      /\ WritesWhole =>
           disk'[f].size = IF p >= disk[f].size THEN p + 1 ELSE disk[f].size
  BY <1>1, <1>2 DEF TypeOK, Extended
<1>6. /\ pf' \in [Handles -> [fd : Fds \cup {-1}, epid : Nat]]
      /\ \A g \in Handles : pf'[g].fd = pf[g].fd
      /\ \A g \in Handles \ {h} : pf'[g].epid = pf[g].epid
      /\ pf'[h].epid = EndPid(h, p)
  <2>1. EndPid(h, p) \in Nat
    BY <1>1 DEF TypeOK, EndPid
  <2>. QED
    BY <1>3, <2>1 DEF TypeOK
<1>7. \A g \in Handles : (Live(g)' <=> Live(g)) /\ FileOf(g)' = FileOf(g)
  BY <1>3, <1>6 DEF Live, FileOf
<1>8. ASSUME ClosesSucceed, NEW g \in Handles \ {h}, Live(g)
      PROVE  FileOf(g) # f /\ FileOf(g) \in Files /\ pf[g].fd # pf[h].fd
  BY <1>1, <1>8 DEF Separate, IsOpen, TypeOK, FileOf
<1>9. TypeOK'
  BY <1>3, <1>4, <1>5, <1>6 DEF TypeOK, Code, ReturnCodes
<1>10. UniqueTags' /\ (NoOrphanSlots => NoOrphanSlots')
  BY <1>3, <1>4 DEF UniqueTags, NoOrphanSlots, IsOpen
<1>11. Separate => Separate'
  BY <1>3, <1>6, <1>7 DEF Separate, IsOpen
<1>12. WritesWhole => SizeInReach'
  <2>. SUFFICES ASSUME WritesWhole PROVE SizeInReach'
    OBVIOUS
  <2>1. disk'[f].size <= Reach
    BY <1>1, <1>2, <1>5, PageFileAssumption DEF SizeInReach, WritesWhole, TypeOK
  <2>. QED
    BY <2>1, <1>5 DEF SizeInReach
<1>13. ReadsFaithful => CacheCoherent'
  <2>. SUFFICES ASSUME ReadsFaithful, NEW i \in Slots, NEW g \in Handles,
                       Valid(i)', Live(g), readCache[i].fd = pf[g].fd
                PROVE  readCache[i].buffer = disk'[FileOf(g)].page[readCache[i].pid]
    BY <1>4, <1>6, <1>7 DEF CacheCoherent
  <2>. USE DEF ReadsFaithful
  <2>1. readCache[i].buffer = disk[FileOf(g)].page[readCache[i].pid]
    BY <1>4 DEF CacheCoherent
  <2>2. CASE g # h
    BY <2>1, <2>2, <1>5, <1>8
  <2>3. CASE g = h
    <3>1. readCache[i].pid # p
      BY <1>4, <2>3 DEF Match
    <3>2. readCache[i].pid \in Pids
      <4>1. 0 \in 0 .. p
        BY <1>1
      <4>2. 0 \in Pids
        BY <1>1, <4>1, PageFileAssumption
      <4>. QED
        BY <4>2 DEF TypeOK, CacheStruct
    <3>. QED
      BY <2>1, <2>3, <3>1, <3>2, <1>2, <1>5
  <2>. QED
    BY <2>2, <2>3
<1>14. WritesWhole => EpidCurrent'
  <2>. SUFFICES ASSUME WritesWhole PROVE EpidCurrent'
    OBVIOUS
  <2>. USE DEF WritesWhole
  <2>1. pf'[h].epid = disk'[f].size
    BY <1>1, <1>5, <1>6 DEF EndPid, EpidCurrent
  <2>2. \A g \in Handles \ {h} :
          pf'[g].epid = IF Live(g) THEN disk'[FileOf(g)].size ELSE 0
    BY <1>5, <1>6, <1>8 DEF EpidCurrent
  <2>. QED
    BY <2>1, <2>2, <1>1, <1>7 DEF EpidCurrent
<1>. QED
  BY <1>9, <1>10, <1>11, <1>12, <1>13, <1>14

LEMMA RestartInv ==
  ASSUME Inv, Restart
  PROVE  Inv'
<1>. USE DEF Inv
<1>1. TypeOK'
  <2>1. (fdTable \in [Fds -> {FreeFd} \cup [file : Files, mode : {"r", "w"}]])'
    BY DEF Restart
  <2>2. (pf \in [Handles -> [fd : Fds \cup {-1}, epid : Nat]])'
    BY DEF Restart, NewObject
  <2>3. (readCache \in [Slots -> CacheStruct])'
    BY DEF Restart, EmptySlot, CacheStruct, Pages
  <2>4. (ret \in [rc : ReturnCodes, data : Pages \cup {NoData}])' /\ (cacheClock \in Int)'
    BY DEF Restart, Code, ReturnCodes
  <2>. QED
    BY <2>1, <2>2, <2>3, <2>4 DEF Restart, TypeOK
<1>2. \A i \in Slots : ~Valid(i)'
  BY DEF Restart, Valid, EmptySlot
<1>3. \A h \in Handles : ~Live(h)'
  BY DEF Restart, Live, NewObject
<1>4. UniqueTags' /\ NoOrphanSlots' /\ CacheCoherent' /\ Separate'
  BY <1>2, <1>3 DEF UniqueTags, NoOrphanSlots, CacheCoherent, Separate
<1>5. EpidCurrent'
  BY <1>3 DEF EpidCurrent, Restart, NewObject
<1>6. SizeInReach => SizeInReach'
  BY DEF SizeInReach, Restart
<1>. QED
  BY <1>1, <1>4, <1>5, <1>6

\* A close that fails may free the descriptor of an object that stays open.
LEMMA CloseRefusedInv ==
  ASSUME Inv, NEW h \in Handles, CloseRefused(h)
  PROVE  Inv'
<1>1. /\ ret' = Code("RC_FILE_CLOSE_FAILED")
      /\ UNCHANGED <<dir, disk, pf, cacheClock, readCache>>
  BY DEF CloseRefused
<1>2. CASE UNCHANGED fdTable
  BY <1>1, <1>2, QuietInv DEF ReturnCodes, Inv, TypeOK
<1>3. CASE ~ClosesSucceed /\ fdTable' = [fdTable EXCEPT ![pf[h].fd] = FreeFd]
  <2>1. TypeOK'
    BY <1>1, <1>3 DEF Inv, TypeOK, Code, ReturnCodes
  <2>2. UniqueTags'
    BY <1>1 DEF Inv, UniqueTags, Valid
  <2>. QED
    BY <1>3, <2>1, <2>2 DEF Inv, ReadsFaithful, WritesWhole
<1>. QED
  BY <1>2, <1>3 DEF CloseRefused, ClosesSucceed

LEMMA NextInv ==
  ASSUME Inv, [Next]_vars
  PROVE  Inv'
<1>1. ASSUME NEW h \in Handles, NEW f \in Files, NEW m \in Modes, Open(h, f, m)
      PROVE  Inv'
  <2>1. CASE OpenOK(h, f, m)
    BY <2>1, OpenOKInv
  <2>2. CASE OpenRefused(h, f, m)
    BY <2>2, QuietInv DEF OpenRefused, ReturnCodes, Inv, TypeOK
  <2>3. CASE OpenUnsized(h, f, m)
    BY <2>3, QuietInv DEF OpenUnsized, ReturnCodes, Inv, TypeOK
  <2>. QED
    BY <1>1, <2>1, <2>2, <2>3 DEF Open
<1>2. ASSUME NEW h \in Handles, Close(h)
      PROVE  Inv'
  BY <1>2, CloseOKInv, CloseRefusedInv DEF Close
<1>3. ASSUME NEW h \in Handles, NEW p \in Pids \cup {-1}, Read(h, p)
      PROVE  Inv'
  <2>1. CASE ReadInvalid(h, p)
    BY <2>1, QuietInv DEF ReadInvalid, ReturnCodes, Inv, TypeOK
  <2>2. CASE ReadHit(h, p)
    BY <2>2, ReadHitInv
  <2>3. CASE ReadUnseekable(h, p)
    BY <2>3, QuietInv DEF ReadUnseekable, ReturnCodes, Inv, TypeOK
  <2>4. CASE ReadMiss(h, p)
    BY <2>4, ReadMissInv
  <2>. QED
    BY <1>3, <2>1, <2>2, <2>3, <2>4 DEF Read
<1>4. ASSUME NEW h \in Handles, NEW p \in Pids \cup {-1}, WriteRefused(h, p)
      PROVE  Inv'
  BY <1>4, QuietInv DEF WriteRefused, ReturnCodes, Inv, TypeOK
<1>5. CASE UNCHANGED vars
  <2>1. TypeOK'
    BY <1>5 DEF Inv, TypeOK, vars
  <2>2. /\ UniqueTags' /\ (NoOrphanSlots => NoOrphanSlots')
        /\ SizeInReach => SizeInReach'
    BY <1>5 DEF Inv, UniqueTags, NoOrphanSlots, SizeInReach, Valid, IsOpen, vars
  <2>3. /\ CacheCoherent => CacheCoherent'
        /\ EpidCurrent => EpidCurrent'
        /\ Separate => Separate'
    BY <1>5 DEF CacheCoherent, EpidCurrent, Separate, Valid, Live, FileOf, IsOpen, vars
  <2>. QED
    BY <2>1, <2>2, <2>3 DEF Inv
<1>. QED
  BY <1>1, <1>2, <1>3, <1>4, <1>5, DropInv, WriteOKInv, RestartInv DEF Next

LEMMA Invariance == Spec => []Inv
BY InitInv, NextInv, PTL DEF Spec

\* The state of PageFile keeps its types through every sequence of calls,
\* leaked objects and restarts, whichever system calls fail.
THEOREM TypeCorrect == Spec => []TypeOK
<1>1. Inv => TypeOK
  BY DEF Inv
<1>. QED
  BY <1>1, Invariance, PTL

\* No page is in two slots, whichever system calls fail: what write()
\* invalidates is all that read() could have served.
THEOREM HeldOnce == Spec => []UniqueTags
<1>1. Inv => UniqueTags
  BY DEF Inv
<1>. QED
  BY <1>1, Invariance, PTL

\* No slot outlives its descriptor, unless a close fails: whoever is given
\* the number next finds nothing of the file that had it before.
THEOREM NothingLeftBehind == ASSUME ClosesSucceed PROVE Spec => []NoOrphanSlots
<1>1. Inv => NoOrphanSlots
  BY DEF Inv
<1>. QED
  BY <1>1, Invariance, PTL

\* The objects use open descriptors of their own, unless a close fails.
THEOREM ObjectsSeparate == ASSUME ClosesSucceed PROVE Spec => []Separate
<1>1. Inv => Separate
  BY DEF Inv
<1>. QED
  BY <1>1, Invariance, PTL

\* The cache never holds a page that differs from the disk, unless a close or a
\* read has failed or a write was short.
THEOREM Coherence == ASSUME ReadsFaithful PROVE Spec => []CacheCoherent
<1>1. Inv => CacheCoherent
  BY DEF Inv
<1>. QED
  BY <1>1, Invariance, PTL

\* endPid() is the end of the file on disk, for every object that is open,
\* unless a close has failed or a write was short.
THEOREM EndIsCurrent == ASSUME WritesWhole PROVE Spec => []EpidCurrent
<1>1. Inv => EpidCurrent
  BY DEF Inv
<1>. QED
  BY <1>1, Invariance, PTL
-----------------------------------------------------------------------------
(* PageFile implements PageStore.                                          *)

\* What Inv comes to when no failure is silent.
Sound ==
  /\ TypeOK /\ UniqueTags /\ NoOrphanSlots /\ Separate
  /\ CacheCoherent /\ EpidCurrent /\ SizeInReach

LEMMA InvSound ==
  ASSUME ReadsFaithful
  PROVE  Inv <=> Sound
BY DEF ReadsFaithful, WritesWhole, Inv, Sound

LEMMA OpenedOf ==
  ASSUME NEW h \in Handles
  PROVE  /\ opened[h] = IF Live(h) THEN fdTable[pf[h].fd] ELSE FreeFd
         /\ Live(h) => opened[h].file = FileOf(h)
         /\ ~Live(h) => opened[h] = Store!Closed
  BY DEF opened, FileOf, Store!Closed, FreeFd

LEMMA OpenedIsClosed ==
  ASSUME Sound, NEW h \in Handles
  PROVE  opened[h] = Store!Closed <=> ~Live(h)
<1>1. ASSUME Live(h) PROVE fdTable[pf[h].fd] # FreeFd
  BY <1>1 DEF Sound, Separate, IsOpen
<1>. QED
  BY <1>1, OpenedOf DEF Store!Closed, FreeFd

\* The steps that neither open nor close leave what the objects stand for.
LEMMA OpenedUnchanged ==
  ASSUME Sound, UNCHANGED fdTable, pf' \in [Handles -> [fd : Fds \cup {-1}, epid : Nat]],
         \A h \in Handles : pf'[h].fd = pf[h].fd
  PROVE  UNCHANGED opened
  BY DEF opened, Live

LEMMA StoreInit == Init => Store!Init
<1>. SUFFICES ASSUME Init PROVE Store!Init
  OBVIOUS
<1>1. opened = [h \in Handles |-> Store!Closed]
  BY DEF Init, opened, Live, NewObject, FreeFd, Store!Closed
<1>. QED
  BY <1>1 DEF Init, Store!Init, Store!EmptyFile, EmptyFile, Code, Store!Code

LEMMA StoreOpen ==
  ASSUME Sound, NEW h \in Handles, NEW f \in Files, NEW m \in Modes, Open(h, f, m)
  PROVE  Store!Open(h, f, m) \/ Store!OpenFails(h, f, m)
<1>1. CASE OpenOK(h, f, m)
  <2>1. PICK d \in Fds :
          /\ LowestFree(d)
          /\ fdTable' = [fdTable EXCEPT ![d] = [file |-> f, mode |-> m]]
          /\ pf' = [pf EXCEPT ![h] = [fd |-> d, epid |-> disk[f].size]]
    BY <1>1 DEF OpenOK
  <2>2. opened[h] = Store!Closed
    BY <1>1, OpenedOf DEF OpenOK
  <2>3. Store!Unshared(h, f)
    <3>. SUFFICES ASSUME NEW g \in Handles \ {h} PROVE opened[g].file # f
      BY DEF Store!Unshared
    <3>1. CASE Live(g)
      BY <1>1, <3>1, OpenedOf DEF OpenOK, Unshared
    <3>2. CASE ~Live(g)
      BY <3>2, OpenedOf, PageFileAssumption DEF Store!Closed
    <3>. QED
      BY <3>1, <3>2
  <2>4. opened' = [opened EXCEPT ![h] = [file |-> f, mode |-> m]]
    <3>1. Live(h)' /\ fdTable'[pf'[h].fd] = [file |-> f, mode |-> m]
      BY <2>1, PageFileAssumption DEF Sound, TypeOK, Live
    <3>2. ASSUME NEW g \in Handles \ {h}
          PROVE  (Live(g)' <=> Live(g)) /\ (Live(g) => fdTable'[pf'[g].fd] = fdTable[pf[g].fd])
      <4>1. pf'[g] = pf[g]
        BY <2>1 DEF Sound, TypeOK
      <4>2. ASSUME Live(g) PROVE pf[g].fd \in Fds /\ pf[g].fd # d
        BY <4>2, <2>1 DEF Sound, Separate, IsOpen, LowestFree
      <4>. QED
        BY <4>1, <4>2, <2>1 DEF Sound, TypeOK, Live
    <3>. QED
      BY <3>1, <3>2 DEF opened
  <2>5. /\ m \in {"r", "w"} /\ (m = "w" \/ f \in dir)
        /\ dir' = dir \cup {f} /\ ret' = Store!Code("OK") /\ UNCHANGED disk
    BY <1>1 DEF OpenOK, Code, Store!Code
  <2>. QED
    BY <2>2, <2>3, <2>4, <2>5 DEF Store!Open
<1>2. CASE OpenRefused(h, f, m)
  <2>1. UNCHANGED <<dir, disk, opened>>
    BY <1>2 DEF OpenRefused, opened, Live
  <2>. QED
    BY <1>2, <2>1 DEF OpenRefused, Store!OpenFails, Code, Store!Code, Modes
<1>3. CASE OpenUnsized(h, f, m)
  <2>1. UNCHANGED <<disk, opened>>
    BY <1>3 DEF OpenUnsized, opened, Live
  <2>2. (m = "w" /\ dir' = dir \cup {f}) \/ (m = "r" /\ UNCHANGED dir)
    BY <1>3 DEF OpenUnsized
  <2>. QED
    BY <1>3, <2>1, <2>2 DEF OpenUnsized, Store!OpenFails, Code, Store!Code
<1>. QED
  BY <1>1, <1>2, <1>3 DEF Open

LEMMA StoreClose ==
  ASSUME Sound, ReadsFaithful, NEW h \in Handles, Close(h)
  PROVE  Store!Close(h) \/ Store!CloseFails(h)
<1>1. CASE CloseOK(h)
  <2>1. opened' = [opened EXCEPT ![h] = Store!Closed]
    <3>1. ~Live(h)'
      BY <1>1 DEF CloseOK, Sound, TypeOK, Live, NewObject
    <3>2. ASSUME NEW g \in Handles \ {h}
          PROVE  (Live(g)' <=> Live(g)) /\ (Live(g) => fdTable'[pf'[g].fd] = fdTable[pf[g].fd])
      <4>1. pf'[g] = pf[g]
        BY <1>1 DEF CloseOK, Sound, TypeOK
      <4>2. ASSUME Live(g) PROVE pf[g].fd \in Fds /\ pf[g].fd # pf[h].fd
        BY <4>2, <1>1 DEF Sound, Separate, IsOpen, CloseOK, FileOf
      <4>. QED
        BY <4>1, <4>2, <1>1 DEF CloseOK, Sound, TypeOK, Live
    <3>. QED
      BY <3>1, <3>2 DEF opened, Store!Closed, FreeFd
  <2>. QED
    BY <1>1, <2>1, OpenedIsClosed DEF CloseOK, Store!Close, Code, Store!Code
<1>2. CASE CloseRefused(h)
  <2>1. ~Live(h) /\ UNCHANGED fdTable
    BY <1>2 DEF CloseRefused, ReadsFaithful, ReadsFaithful, ClosesSucceed, Sound, Separate
  <2>2. UNCHANGED opened
    BY <1>2, <2>1 DEF CloseRefused, opened, Live
  <2>. QED
    BY <1>2, <2>1, <2>2, OpenedOf DEF CloseRefused, Store!CloseFails, Code, Store!Code
<1>. QED
  BY <1>1, <1>2 DEF Close

LEMMA StoreDrop ==
  ASSUME Sound, NEW h \in Handles, Drop(h)
  PROVE  Store!Drop(h)
<1>1. opened' = [opened EXCEPT ![h] = Store!Closed]
  <2>1. ~Live(h)' /\ \A g \in Handles \ {h} : pf'[g] = pf[g]
    BY DEF Drop, Sound, TypeOK, Live, NewObject
  <2>2. \A g \in Handles \ {h} :
          (Live(g)' <=> Live(g)) /\ fdTable'[pf'[g].fd] = fdTable[pf[g].fd]
    BY <2>1 DEF Drop, Live
  <2>. QED
    BY <2>1, <2>2 DEF opened, Store!Closed, FreeFd
<1>. QED
  BY <1>1 DEF Drop, Store!Drop

LEMMA StoreRead ==
  ASSUME Sound, ReadsFaithful, NEW h \in Handles, NEW p \in Pids \cup {-1}, Read(h, p)
  PROVE  Store!Read(h, p) \/ Store!ReadFails(h, p)
<1>1. UNCHANGED <<dir, disk, opened>>
  BY DEF Read, ReadInvalid, ReadHit, ReadUnseekable, ReadMiss, opened, Live
<1>2. ASSUME p < 0 \/ p >= pf[h].epid
      PROVE  ~Store!Readable(h, p)
  <2>1. CASE ~Live(h)
    BY <2>1, OpenedOf DEF Store!Readable
  <2>2. CASE Live(h)
    <3>1. pf[h].epid = disk[opened[h].file].size /\ pf[h].epid \in Nat
      BY <2>2, OpenedOf DEF Sound, EpidCurrent, TypeOK
    <3>2. p \in Pids => p \in Nat
      BY PageFileAssumption
    <3>. QED
      BY <1>2, <3>1, <3>2 DEF Store!Readable
  <2>. QED
    BY <2>1, <2>2
<1>3. ASSUME InFile(h, p)
      PROVE  /\ Store!Readable(h, p) /\ Live(h) /\ opened[h].file = FileOf(h)
             /\ p \in Pids /\ FileOf(h) \in Files /\ IsOpen(pf[h].fd)
             /\ Seek(pf[h].fd, p) = p
  <2>1. p \in Pids /\ p \in Nat /\ p < pf[h].epid
    BY <1>3, PageFileAssumption DEF InFile
  <2>2. Live(h)
    BY <2>1 DEF Sound, EpidCurrent
  <2>3. IsOpen(pf[h].fd) /\ FileOf(h) \in Files
    BY <2>2 DEF Sound, Separate, IsOpen, TypeOK, FileOf
  <2>4. p < disk[FileOf(h)].size /\ disk[FileOf(h)].size \in Nat
    BY <2>1, <2>2, <2>3 DEF Sound, EpidCurrent, TypeOK
  <2>5. p < Reach /\ Reach \in Nat
    BY <2>1, <2>3, <2>4, PageFileAssumption DEF Sound, SizeInReach
  <2>6. Seek(pf[h].fd, p) = p
    BY <2>1, <2>3, <2>5, SeekExact DEF Seek
  <2>. QED
    BY <2>1, <2>2, <2>3, <2>4, <2>6, OpenedOf, OpenedIsClosed DEF Store!Readable
<1>4. CASE ReadInvalid(h, p)
  BY <1>1, <1>2, <1>4 DEF ReadInvalid, Store!ReadFails, Code, Store!Code
<1>5. CASE ReadHit(h, p)
  <2>1. PICK i \in Slots :
          /\ FirstMatch(i, pf[h].fd, p)
          /\ ret' = [rc |-> "OK", data |-> readCache[i].buffer]
    BY <1>5 DEF ReadHit
  <2>2. InFile(h, p)
    BY <1>5 DEF ReadHit
  <2>3. readCache[i].buffer = disk[FileOf(h)].page[p]
    BY <2>1, <2>2, <1>3 DEF Sound, CacheCoherent, FirstMatch, Match
  <2>. QED
    BY <1>1, <1>3, <2>1, <2>2, <2>3 DEF Store!Read
<1>6. CASE ReadUnseekable(h, p)
  <2>1. InFile(h, p) /\ Seek(pf[h].fd, p) = -1
    BY <1>6 DEF ReadUnseekable
  <2>. QED
    BY <2>1, <1>3, PageFileAssumption
<1>7. CASE ReadMiss(h, p)
  <2>1. InFile(h, p)
    BY <1>7 DEF ReadMiss
  <2>2. ret' = [rc |-> "OK", data |-> disk[FileOf(h)].page[p]]
    BY <1>7, MissFills DEF Sound, ReadsFaithful
  <2>. QED
    BY <1>1, <1>3, <2>1, <2>2 DEF Store!Read
<1>. QED
  BY <1>4, <1>5, <1>6, <1>7 DEF Read

LEMMA StoreWrite ==
  ASSUME Sound, ReadsFaithful, NEW h \in Handles, NEW p \in Pids \cup {-1},
         NEW d \in Contents, WriteOK(h, p, d)
  PROVE  Store!Write(h, p, d)
<1>1. /\ p \in Pids /\ Live(h) /\ disk' = [disk EXCEPT ![FileOf(h)] = Extended(@, p, d)]
  BY WriteStores DEF Sound, ReadsFaithful, WritesWhole
<1>2. opened[h] = fdTable[pf[h].fd] /\ opened[h].file = FileOf(h)
  BY <1>1, OpenedOf
<1>3. \A g \in Handles : pf'[g].fd = pf[g].fd
  BY DEF WriteOK, Sound, TypeOK
<1>4. UNCHANGED <<dir, opened>>
  BY <1>3 DEF WriteOK, opened, Live
<1>. QED
  BY <1>1, <1>2, <1>4 DEF WriteOK, Store!Write, Extended, Code, Store!Code

LEMMA StoreWriteRefused ==
  ASSUME Sound, ReadsFaithful, NEW h \in Handles, NEW p \in Pids \cup {-1},
         WriteRefused(h, p)
  PROVE  Store!WriteFails(h, p)
<1>1. UNCHANGED <<dir, disk, opened>>
  BY DEF WriteRefused, opened, Live
<1>2. ASSUME p >= 0, Seek(pf[h].fd, p) = -1
      PROVE  opened[h] = Store!Closed \/ p >= Reach
  <2>1. p \in Pids /\ p \in Nat /\ p < 2 * Reach /\ Reach \in Nat
    BY <1>2, PageFileAssumption DEF ReadsFaithful, OffsetsExact
  <2>2. Live(h) => IsOpen(pf[h].fd)
    BY DEF Sound, Separate
  <2>. QED
    BY <1>2, <2>1, <2>2, SeekExact, OpenedIsClosed DEF Seek
<1>3. ASSUME p >= 0, Seek(pf[h].fd, p) # -1
      PROVE  opened[h] = fdTable[pf[h].fd]
  BY <1>3, OpenedOf, PageFileAssumption DEF Seek, IsOpen, Live
<1>4. CASE p < 0 /\ ret' = Code("RC_INVALID_PID")
  <2>1. p \notin Pids
    BY <1>4, PageFileAssumption
  <2>. QED
    BY <1>1, <1>4, <2>1 DEF Store!WriteFails, Code, Store!Code
<1>5. CASE /\ p >= 0 /\ Seek(pf[h].fd, p) = -1
           /\ ret' = Code("RC_FILE_SEEK_FAILED")
  BY <1>1, <1>2, <1>5 DEF Store!WriteFails, Code, Store!Code
<1>6. CASE /\ p >= 0 /\ Seek(pf[h].fd, p) # -1
           /\ fdTable[pf[h].fd].mode = "r" \/ "write" \in Faults
           /\ ret' = Code("RC_FILE_WRITE_FAILED")
  BY <1>1, <1>3, <1>6 DEF Store!WriteFails, Code, Store!Code
<1>. QED
  BY <1>4, <1>5, <1>6 DEF WriteRefused

LEMMA StoreRestart == Restart => Store!Restart
<1>. SUFFICES ASSUME Restart PROVE Store!Restart
  OBVIOUS
<1>1. opened' = [h \in Handles |-> Store!Closed]
  BY DEF Restart, opened, Live, NewObject, FreeFd, Store!Closed
<1>. QED
  BY <1>1 DEF Restart, Store!Restart, Code, Store!Code

\* PageFile implements PageStore: with a cache of any size shared by any number
\* of objects, a caller sees a store that has no cache, whose files no object
\* but the one that has them open can touch, and which a failed call leaves
\* as it was.
THEOREM Refinement ==
  ASSUME ReadsFaithful
  PROVE  Spec => ImplementsPageStore
<1>1. Inv <=> Sound
  BY InvSound
<1>2. ASSUME Sound, [Next]_vars PROVE [Store!Next]_(Store!vars)
  <2>1. ASSUME NEW h \in Handles, NEW f \in Files, NEW m \in Modes, Open(h, f, m)
        PROVE  Store!Next
    BY <1>2, <2>1, StoreOpen DEF Store!Next, Modes
  <2>2. ASSUME NEW h \in Handles, Close(h) \/ Drop(h)
        PROVE  Store!Next
    BY <1>2, <2>2, StoreClose, StoreDrop DEF Store!Next
  <2>3. ASSUME NEW h \in Handles, NEW p \in Pids \cup {-1}, Read(h, p) \/ WriteRefused(h, p)
        PROVE  Store!Next
    BY <1>2, <2>3, StoreRead, StoreWriteRefused DEF Store!Next
  <2>4. ASSUME NEW h \in Handles, NEW p \in Pids \cup {-1}, NEW d \in Contents,
               WriteOK(h, p, d)
        PROVE  Store!Next
    BY <1>2, <2>4, StoreWrite DEF Store!Next
  <2>5. CASE Restart
    BY <2>5, StoreRestart DEF Store!Next
  <2>6. CASE UNCHANGED vars
    BY <2>6 DEF vars, Store!vars, opened, Live
  <2>. QED
    BY <1>2, <2>1, <2>2, <2>3, <2>4, <2>5, <2>6 DEF Next
<1>. QED
  BY <1>1, <1>2, StoreInit, Invariance, PTL DEF Spec, ImplementsPageStore, Store!Spec
-----------------------------------------------------------------------------
(* The cache implements LruOrder.                                          *)

\* The clock does not wrap: after 2^31 accesses the order is lost.
ClockRuns == ClockBound <= IntMax

\* What the stamps are: the clock has been at every one of them, once.
Stamps ==
  /\ cacheClock \in Nat \ {0}
  /\ \A i \in ValidSlots :
       /\ readCache[i].fd \in Fds /\ readCache[i].pid \in Pids
       /\ readCache[i].lastAccessed \in 1 .. cacheClock
  /\ \A i, j \in ValidSlots :
       readCache[i].lastAccessed = readCache[j].lastAccessed => i = j

\* Slot i is stamped with the next tick for page p of descriptor d; the
\* others keep what they have.
Stamped(i, d, p) ==
  /\ \A j \in Slots \ {i} : readCache'[j] = readCache[j]
  /\ readCache'[i].fd = d /\ readCache'[i].pid = p
  /\ readCache'[i].lastAccessed = cacheClock + 1
  /\ cacheClock' = cacheClock + 1

\* Slots are emptied and none is filled.
Thinned ==
  \A i \in Slots : Valid(i)' => Valid(i) /\ readCache'[i] = readCache[i]

LEMMA ValidSlotsIs == \A i : i \in ValidSlots <=> i \in Slots /\ Valid(i)
  BY DEF ValidSlots

LEMMA HeldIs == \A x : x \in held <=> \E i \in ValidSlots : x = Tag(i)
  BY DEF held

LEMMA OlderIs ==
  \A x : x \in older <=>
    \E i, j \in ValidSlots : Before(i, j) /\ x = <<Tag(i), Tag(j)>>
  BY DEF older, held

LEMMA TagsDiffer ==
  ASSUME UniqueTags, NEW i \in ValidSlots, NEW j \in ValidSlots, Tag(i) = Tag(j)
  PROVE  i = j
  BY ValidSlotsIs DEF UniqueTags, Tag

\* The pages that are held are as many as the slots that are valid.
LEMMA HeldCounts ==
  ASSUME UniqueTags
  PROVE  /\ Cardinality(held) < CACHE_COUNT <=> \E i \in Slots : ~Valid(i)
         /\ Cardinality(held) = CACHE_COUNT <=> \A i \in Slots : Valid(i)
<1>1. IsFiniteSet(Slots) /\ Cardinality(Slots) = CACHE_COUNT /\ CACHE_COUNT \in Nat
  BY FS_Interval, PageFileAssumption DEF Slots
<1>2. /\ IsFiniteSet(ValidSlots) /\ ValidSlots \subseteq Slots
      /\ Cardinality(ValidSlots) <= CACHE_COUNT
      /\ Cardinality(ValidSlots) = CACHE_COUNT => ValidSlots = Slots
  BY <1>1, FS_Subset DEF ValidSlots
<1>3. ExistsBijection(ValidSlots, held)
  <2> DEFINE f == [i \in ValidSlots |-> Tag(i)]
  <2>1. f \in Bijection(ValidSlots, held)
    <3>1. /\ f \in [ValidSlots -> held]
          /\ \A i, j \in ValidSlots : f[i] = f[j] => i = j
          /\ \A x \in held : \E i \in ValidSlots : f[i] = x
      BY TagsDiffer, HeldIs, Zenon
    <3> HIDE DEF f
    <3> QED BY <3>1 DEF Bijection, Injection, IsInjective, Surjection
  <2> QED BY <2>1 DEF ExistsBijection
<1>4. Cardinality(held) = Cardinality(ValidSlots) /\ Cardinality(ValidSlots) \in Nat
  BY <1>2, <1>3, FS_Bijection, FS_CardinalityType
<1>5. ValidSlots = Slots <=> \A i \in Slots : Valid(i)
  BY ValidSlotsIs
<1> QED BY <1>1, <1>2, <1>4, <1>5

\* A slot that is stamped holds the page that was used last.
LEMMA StampedFront ==
  ASSUME UniqueTags, Stamps, NEW i \in Slots, NEW d \in Fds, NEW p \in Pids,
         Stamped(i, d, p), NEW K, K = {Tag(j) : j \in ValidSlots \ {i}},
         <<d, p>> \notin K
  PROVE  Lru!Front(<<d, p>>, K) /\ Stamps'
<1> DEFINE k == <<d, p>>
<1>1. /\ \A j \in Slots \ {i} : /\ Valid(j)' <=> Valid(j)
                                /\ Tag(j)' = Tag(j)
      /\ Valid(i)' /\ Tag(i)' = k
  BY DEF Stamped, Stamps, Valid, Tag
<1>2. (\A j : j \in ValidSlots <=> j \in Slots /\ Valid(j))'
  BY DEF ValidSlots
<1>3. ValidSlots' = (ValidSlots \ {i}) \cup {i}
  BY <1>1, <1>2, ValidSlotsIs
<1>4. /\ \A j, l \in ValidSlots \ {i} : Before(j, l)' <=> Before(j, l)
      /\ \A j \in ValidSlots \ {i} : Before(j, i)' /\ ~Before(i, j)'
      /\ ~Before(i, i)'
  <2>1. /\ \A j \in ValidSlots \ {i} :
             /\ readCache'[j].lastAccessed = readCache[j].lastAccessed
             /\ readCache[j].lastAccessed \in 1 .. cacheClock
        /\ readCache'[i].lastAccessed = cacheClock + 1 /\ cacheClock \in Nat
    BY ValidSlotsIs DEF Stamped, Stamps
  <2> QED BY <2>1 DEF Before
<1>5. held' = K \cup {k}
  <2>1. (\A x : x \in held <=> \E j \in ValidSlots : x = Tag(j))'
    BY DEF held
  <2>2. \A x : x \in held' <=> x = k \/ \E j \in ValidSlots \ {i} : x = Tag(j)
    BY <1>1, <1>3, <2>1, ValidSlotsIs
  <2> QED BY <2>2
<1>6. older' = (older \cap (K \X K)) \cup (K \X {k})
  <2>1. (\A x : x \in older <=>
           \E j, l \in ValidSlots : Before(j, l) /\ x = <<Tag(j), Tag(l)>>)'
    BY DEF older, held
  <2>2. ASSUME NEW x \in older'
        PROVE  x \in (older \cap (K \X K)) \cup (K \X {k})
    <3>1. PICK j \in ValidSlots', l \in ValidSlots' :
            Before(j, l)' /\ x = <<Tag(j)', Tag(l)'>>
      BY <2>1
    <3>2. j \in ValidSlots \ {i} /\ Tag(j)' = Tag(j) /\ Tag(j) \in K
      BY <1>1, <1>3, <1>4, <3>1, ValidSlotsIs
    <3>3. CASE l = i
      BY <1>1, <3>1, <3>2, <3>3
    <3>4. CASE l # i
      <4>1. l \in ValidSlots \ {i} /\ Tag(l)' = Tag(l) /\ Tag(l) \in K
        BY <1>1, <1>3, <3>4, ValidSlotsIs
      <4>2. Before(j, l)
        BY <1>4, <3>1, <3>2, <4>1
      <4>3. x \in older
        BY <3>1, <3>2, <4>1, <4>2, OlderIs
      <4> QED BY <3>1, <3>2, <4>1, <4>3
    <3> QED BY <3>3, <3>4
  <2>3. ASSUME NEW x \in older \cap (K \X K)
        PROVE  x \in older'
    <3>1. PICK j \in ValidSlots, l \in ValidSlots :
            Before(j, l) /\ x = <<Tag(j), Tag(l)>>
      BY OlderIs
    <3>2. Tag(j) \in K /\ Tag(l) \in K
      BY <3>1
    <3>3. j # i /\ l # i
      BY <3>2, TagsDiffer
    <3> QED BY <1>1, <1>3, <1>4, <2>1, <3>1, <3>3, ValidSlotsIs
  <2>4. ASSUME NEW y \in K
        PROVE  <<y, k>> \in older'
    <3>1. PICK j \in ValidSlots \ {i} : y = Tag(j)
      OBVIOUS
    <3> QED BY <1>1, <1>3, <1>4, <2>1, <3>1, ValidSlotsIs
  <2>5. \A x \in K \X {k} : \E y \in K : x = <<y, k>>
    OBVIOUS
  <2> HIDE DEF k
  <2> QED BY <2>2, <2>3, <2>4, <2>5
<1>7. Stamps'
  <2>1. cacheClock' = cacheClock + 1 /\ cacheClock \in Nat \ {0}
    BY DEF Stamped, Stamps
  <2>2. \A j \in ValidSlots \ {i} :
          /\ readCache'[j] = readCache[j]
          /\ readCache[j].fd \in Fds /\ readCache[j].pid \in Pids
          /\ readCache[j].lastAccessed \in 1 .. cacheClock
    BY ValidSlotsIs DEF Stamped, Stamps
  <2>3. /\ readCache'[i].fd = d /\ readCache'[i].pid = p
        /\ readCache'[i].lastAccessed = cacheClock + 1
    BY DEF Stamped
  <2>4. \A j, l \in ValidSlots \ {i} :
          readCache[j].lastAccessed = readCache[l].lastAccessed => j = l
    BY DEF Stamps
  <2>5. \A j \in ValidSlots' :
          /\ readCache'[j].fd \in Fds /\ readCache'[j].pid \in Pids
          /\ readCache'[j].lastAccessed \in 1 .. cacheClock'
    BY <1>3, <2>1, <2>2, <2>3
  <2>6. \A j, l \in ValidSlots' :
          readCache'[j].lastAccessed = readCache'[l].lastAccessed => j = l
    BY <1>3, <2>1, <2>2, <2>3, <2>4
  <2> QED BY <2>1, <2>5, <2>6 DEF Stamps
<1> QED BY <1>5, <1>6, <1>7 DEF Lru!Front

\* The pages of the slots that stay valid keep their order.
LEMMA ThinnedKeep ==
  ASSUME UniqueTags, Stamps, Thinned, UNCHANGED cacheClock,
         NEW K, K \subseteq held, \A i \in ValidSlots : Valid(i)' <=> Tag(i) \in K
  PROVE  Lru!Keep(K) /\ Stamps'
<1>1. (\A j : j \in ValidSlots <=> j \in Slots /\ Valid(j))'
  BY DEF ValidSlots
<1>2. \A j \in ValidSlots' : j \in ValidSlots /\ readCache'[j] = readCache[j]
  BY <1>1, ValidSlotsIs DEF Thinned
<1>3. \A j \in ValidSlots' : Tag(j)' = Tag(j)
  BY <1>2 DEF Tag
<1>4. \A j, l \in ValidSlots' : Before(j, l)' <=> Before(j, l)
  BY <1>2 DEF Before
<1>5. \A j \in ValidSlots : j \in ValidSlots' <=> Tag(j) \in K
  BY <1>1, ValidSlotsIs
<1>6. held' = K
  <2>1. (\A x : x \in held <=> \E j \in ValidSlots : x = Tag(j))'
    BY DEF held
  <2>2. \A x : x \in held' <=> x \in K
    BY <1>2, <1>3, <1>5, <2>1, HeldIs
  <2> QED BY <2>2
<1>7. older' = older \cap (K \X K)
  <2>1. (\A x : x \in older <=>
           \E j, l \in ValidSlots : Before(j, l) /\ x = <<Tag(j), Tag(l)>>)'
    BY DEF older, held
  <2>2. ASSUME NEW x \in older'
        PROVE  x \in older \cap (K \X K)
    <3>1. PICK j \in ValidSlots', l \in ValidSlots' :
            Before(j, l)' /\ x = <<Tag(j)', Tag(l)'>>
      BY <2>1
    <3>2. /\ j \in ValidSlots /\ Tag(j)' = Tag(j) /\ Tag(j) \in K
          /\ l \in ValidSlots /\ Tag(l)' = Tag(l) /\ Tag(l) \in K
          /\ Before(j, l)
      BY <1>2, <1>3, <1>4, <1>5, <3>1
    <3> QED BY <3>1, <3>2, OlderIs
  <2>3. ASSUME NEW x \in older \cap (K \X K)
        PROVE  x \in older'
    <3>1. PICK j \in ValidSlots, l \in ValidSlots :
            Before(j, l) /\ x = <<Tag(j), Tag(l)>>
      BY OlderIs
    <3>2. j \in ValidSlots' /\ l \in ValidSlots'
      BY <1>5, <3>1
    <3> QED BY <1>3, <1>4, <2>1, <3>1, <3>2
  <2> QED BY <2>2, <2>3
<1>8. Stamps'
  BY <1>2 DEF Stamps
<1> QED BY <1>6, <1>7, <1>8 DEF Lru!Keep

\* The next tick is one that no slot has.
LEMMA Ticks ==
  ASSUME ClockRuns, Stamps, cacheClock < ClockBound
  PROVE  Tick(cacheClock) = cacheClock + 1
  BY PageFileAssumption DEF ClockRuns, Stamps, Tick

LEMMA LruInit == Init => Lru!Init /\ Stamps
<1> SUFFICES ASSUME Init PROVE Lru!Init /\ Stamps
  OBVIOUS
<1>1. ValidSlots = {} /\ cacheClock = 1
  BY DEF Init, ValidSlots, Valid, EmptySlot
<1>2. held = {}
  BY <1>1 DEF held
<1>3. older = {}
  BY <1>1 DEF older
<1> QED BY <1>1, <1>2, <1>3 DEF Lru!Init, Stamps

\* What leaves the cache and its clock alone.
LEMMA LruQuiet ==
  ASSUME Stamps, UNCHANGED <<cacheClock, readCache>>
  PROVE  UNCHANGED Lru!vars /\ Stamps'
<1>1. UNCHANGED ValidSlots
  BY DEF ValidSlots, Valid
<1>2. UNCHANGED held
  BY <1>1 DEF held, Tag
<1>3. UNCHANGED older
  BY <1>1, <1>2 DEF older, Tag, Before
<1> QED BY <1>1, <1>2, <1>3 DEF Lru!vars, Stamps

LEMMA LruHit ==
  ASSUME ClockRuns, Inv, Stamps, NEW h \in Handles, NEW p \in Pids \cup {-1},
         ReadHit(h, p)
  PROVE  (\E k \in Fds \X Pids : Lru!Hit(k)) /\ Stamps'
<1>1. PICK i \in Slots :
        /\ FirstMatch(i, pf[h].fd, p)
        /\ readCache' = [readCache EXCEPT ![i].lastAccessed = Tick(cacheClock)]
        /\ cacheClock' = Tick(cacheClock) /\ cacheClock < ClockBound
  BY DEF ReadHit, InFile
<1>2. i \in ValidSlots /\ pf[h].fd = readCache[i].fd /\ p = readCache[i].pid
  BY <1>1, ValidSlotsIs DEF FirstMatch, Match
<1>3. readCache[i].fd \in Fds /\ readCache[i].pid \in Pids
  BY <1>2 DEF Stamps
<1>4. Stamped(i, readCache[i].fd, readCache[i].pid)
  BY <1>1, Ticks DEF Stamped, Inv, TypeOK, CacheStruct
<1> DEFINE K == {Tag(j) : j \in ValidSlots \ {i}}
<1>5. Tag(i) \in held /\ Tag(i) \notin K /\ K = held \ {Tag(i)}
  <2>1. \A j \in ValidSlots : Tag(j) = Tag(i) <=> j = i
    BY <1>2, TagsDiffer DEF Inv
  <2> QED BY <1>2, <2>1, HeldIs
<1>6. Tag(i) = <<readCache[i].fd, readCache[i].pid>>
  BY DEF Tag
<1> HIDE DEF K
<1>7. Lru!Front(Tag(i), K) /\ Stamps'
  BY <1>3, <1>4, <1>5, <1>6, StampedFront DEF K, Inv
<1>8. Lru!Hit(Tag(i)) /\ Tag(i) \in Fds \X Pids
  BY <1>3, <1>5, <1>6, <1>7 DEF Lru!Hit
<1> QED BY <1>7, <1>8

\* The slot with the least stamp holds the page that was used before all others.
LEMMA VictimOldest ==
  ASSUME Inv, Stamps, NEW i \in Slots, Victim(i), Valid(i)
  PROVE  (\A j \in Slots : Valid(j)) /\ Lru!Oldest(Tag(i))
<1>1. \A j \in Slots : Valid(j) /\ readCache[i].lastAccessed <= readCache[j].lastAccessed
  BY DEF Victim
<1>2. i \in ValidSlots
  BY ValidSlotsIs
<1>3. ASSUME NEW y \in held \ {Tag(i)}
      PROVE  <<Tag(i), y>> \in older
  <2>1. PICK j \in ValidSlots : y = Tag(j)
    BY HeldIs
  <2>2. j \in Slots /\ i # j
    BY <2>1, ValidSlotsIs
  <2>3. readCache[i].lastAccessed # readCache[j].lastAccessed
    BY <1>2, <2>2 DEF Stamps
  <2>4. readCache[i].lastAccessed \in Int /\ readCache[j].lastAccessed \in Int
    BY <2>2 DEF Inv, TypeOK, CacheStruct
  <2>5. Before(i, j)
    BY <1>1, <2>2, <2>3, <2>4 DEF Before
  <2> QED BY <1>2, <2>1, <2>5, OlderIs
<1> QED BY <1>1, <1>2, <1>3, HeldIs DEF Lru!Oldest

\* LruOrder counts as FiniteSets does.
LEMMA CountsAlike == \A T : Lru!Cardinality(T) = Cardinality(T)
  BY DEF Lru!Cardinality, Cardinality

LEMMA LruMiss ==
  ASSUME ClockRuns, Inv, Stamps, NEW h \in Handles, NEW p \in Pids \cup {-1},
         ReadMiss(h, p)
  PROVE  (\E k \in Fds \X Pids : Lru!Miss(k)) /\ Stamps'
<1> DEFINE d == pf[h].fd
           k == <<d, p>>
<1>1. p \in Pids /\ d \in Fds
  BY MissFills DEF Inv
<1>2. PICK i \in Slots :
        /\ Victim(i)
        /\ \E b : readCache' = [readCache EXCEPT ![i] =
             [fd |-> d, pid |-> p, lastAccessed |-> Tick(cacheClock), buffer |-> b]]
  BY DEF ReadMiss
<1>3. /\ ~Cached(d, p) /\ cacheClock' = Tick(cacheClock)
      /\ Tick(cacheClock) = cacheClock + 1
  BY Ticks DEF ReadMiss, InFile
<1>4. Stamped(i, d, p)
  BY <1>2, <1>3 DEF Stamped, Inv, TypeOK
<1>5. \A j \in ValidSlots : Tag(j) # k
  BY <1>3, ValidSlotsIs DEF Cached, Match, Tag
<1> DEFINE K == {Tag(j) : j \in ValidSlots \ {i}}
<1>6. k \notin held /\ k \notin K
  BY <1>5, HeldIs
<1> HIDE DEF K
<1>7. Lru!Front(k, K) /\ Stamps'
  BY <1>1, <1>4, <1>6, StampedFront DEF K, Inv
<1>8. k \in Fds \X Pids
  BY <1>1
<1> HIDE DEF k
<1>9. CASE ~Valid(i)
  <2>1. K = held
    <3>1. ValidSlots \ {i} = ValidSlots
      BY <1>9, ValidSlotsIs
    <3> QED BY <3>1 DEF K, held
  <2>2. Cardinality(held) < CACHE_COUNT
    BY <1>9, HeldCounts DEF Inv
  <2> QED BY <1>6, <1>7, <1>8, <2>1, <2>2, CountsAlike DEF Lru!Miss
<1>10. CASE Valid(i)
  <2>1. Cardinality(held) = CACHE_COUNT /\ Lru!Oldest(Tag(i)) /\ Tag(i) \in held
    BY <1>2, <1>10, VictimOldest, HeldCounts DEF Inv, Lru!Oldest
  <2>2. K = held \ {Tag(i)}
    <3>1. \A j \in ValidSlots : Tag(j) = Tag(i) <=> j = i
      BY <1>10, TagsDiffer, ValidSlotsIs DEF Inv
    <3> QED BY <3>1 DEF K, held
  <2> QED BY <1>6, <1>7, <1>8, <2>1, <2>2, CountsAlike DEF Lru!Miss
<1> QED BY <1>7, <1>8, <1>9, <1>10

LEMMA LruWrite ==
  ASSUME Inv, Stamps, NEW h \in Handles, NEW p \in Pids \cup {-1},
         NEW d \in Contents, WriteOK(h, p, d)
  PROVE  (\E k \in Fds \X Pids : Lru!Forget(k)) /\ Stamps'
<1> DEFINE e == pf[h].fd
           k == <<e, p>>
<1>1. p \in Pids /\ e \in Fds /\ k \in Fds \X Pids
  <2>1. p \in Pids /\ Seek(e, p) # -1
    BY PageFileAssumption DEF WriteOK
  <2> QED BY <2>1, SeekFinds DEF Inv
<1>2. Invalidate(e, p) /\ UNCHANGED cacheClock
  BY DEF WriteOK
<1>3. Thinned /\ \A i \in Slots : Valid(i)' => ~Match(i, e, p)
  BY <1>2, Invalidates DEF Inv, Thinned
<1>4. \A i \in ValidSlots : Match(i, e, p) <=> Tag(i) = k
  BY ValidSlotsIs DEF Match, Tag
<1>5. ASSUME NEW i \in ValidSlots, ~Match(i, e, p)
      PROVE  Valid(i)'
  BY <1>2, <1>5, ValidSlotsIs DEF Invalidate, FirstMatch, Valid, Inv, TypeOK
<1>6. \A i \in ValidSlots : Valid(i)' <=> Tag(i) \in held \ {k}
  BY <1>3, <1>4, <1>5, HeldIs, ValidSlotsIs
<1>7. Lru!Keep(held \ {k}) /\ Stamps'
  BY <1>2, <1>3, <1>6, ThinnedKeep DEF Inv
<1> QED BY <1>1, <1>7 DEF Lru!Forget

LEMMA LruClose ==
  ASSUME Inv, Stamps, NEW h \in Handles, CloseOK(h)
  PROVE  [\E k \in Fds \X Pids : Lru!ForgetAll(k[1])]_(Lru!vars) /\ Stamps'
<1> DEFINE d == pf[h].fd
           K == {x \in held : x[1] # d}
<1>1. readCache' = Evicted(d) /\ UNCHANGED cacheClock
  BY DEF CloseOK
<1>2. \A i \in ValidSlots : Valid(i)' <=> readCache[i].fd # d
  BY <1>1, ValidSlotsIs DEF Evicted, Emptied, Valid
<1>3. Thinned
  BY <1>1 DEF Thinned, Evicted, Emptied, Valid
<1>4. \A i \in ValidSlots : Tag(i)[1] = readCache[i].fd /\ Tag(i) \in held
  BY HeldIs DEF Tag
<1>5. K \subseteq held /\ \A i \in ValidSlots : Valid(i)' <=> Tag(i) \in K
  BY <1>2, <1>4
<1>6. Lru!Keep(K) /\ Stamps'
  BY <1>1, <1>3, <1>5, ThinnedKeep DEF Inv
<1>7. CASE \E i \in ValidSlots : readCache[i].fd = d
  <2>1. PICK i \in ValidSlots : readCache[i].fd = d
    BY <1>7
  <2>2. Tag(i) \in Fds \X Pids /\ Tag(i)[1] = d
    BY <1>4, <2>1 DEF Stamps, Tag
  <2> QED BY <1>6, <2>2 DEF Lru!ForgetAll
<1>8. CASE \A i \in ValidSlots : readCache[i].fd # d
  <2>1. UNCHANGED readCache
    BY <1>1, <1>8, ValidSlotsIs DEF Evicted, Inv, TypeOK
  <2> QED BY <1>1, <1>6, <2>1, LruQuiet
<1> QED BY <1>7, <1>8

LEMMA LruRestart ==
  ASSUME Inv, Stamps, Restart
  PROVE  Lru!Keep({}) /\ Stamps'
<1>1. ValidSlots' = {} /\ cacheClock' = 1
  BY DEF Restart, ValidSlots, Valid, EmptySlot
<1>2. held' = {}
  BY <1>1 DEF held
<1>3. older' = {}
  BY <1>2 DEF older
<1> QED BY <1>1, <1>2, <1>3 DEF Lru!Keep, Stamps

\* Until its clock wraps, the cache replaces the page that was used least
\* recently: with any number of slots, objects and descriptors, whichever
\* system calls fail, through writes, closes, leaked objects and restarts.
THEOREM LeastRecentlyUsed ==
  ASSUME ClockRuns
  PROVE  Spec => ImplementsLru
<1>1. ASSUME Inv, Stamps, [Next]_vars
      PROVE  [Lru!Next]_(Lru!vars) /\ Stamps'
  <2>1. ASSUME NEW h \in Handles, NEW f \in Files, NEW m \in Modes, Open(h, f, m)
        PROVE  UNCHANGED Lru!vars /\ Stamps'
    BY <1>1, <2>1, LruQuiet DEF Open, OpenOK, OpenRefused, OpenUnsized, cacheVars
  <2>2. ASSUME NEW h \in Handles, Close(h)
        PROVE  [Lru!Next]_(Lru!vars) /\ Stamps'
    <3>1. CASE CloseOK(h)
      BY <1>1, <3>1, LruClose DEF Lru!Next
    <3>2. CASE CloseRefused(h)
      BY <1>1, <3>2, LruQuiet DEF CloseRefused
    <3> QED BY <2>2, <3>1, <3>2 DEF Close
  <2>3. ASSUME NEW h \in Handles, Drop(h)
        PROVE  UNCHANGED Lru!vars /\ Stamps'
    BY <1>1, <2>3, LruQuiet DEF Drop
  <2>4. ASSUME NEW h \in Handles, NEW p \in Pids \cup {-1}, Read(h, p)
        PROVE  [Lru!Next]_(Lru!vars) /\ Stamps'
    <3>1. CASE ReadHit(h, p)
      BY <1>1, <3>1, LruHit DEF Lru!Next
    <3>2. CASE ReadMiss(h, p)
      BY <1>1, <3>2, LruMiss DEF Lru!Next
    <3>3. CASE ReadInvalid(h, p) \/ ReadUnseekable(h, p)
      BY <1>1, <3>3, LruQuiet DEF ReadInvalid, ReadUnseekable
    <3> QED BY <2>4, <3>1, <3>2, <3>3 DEF Read
  <2>5. ASSUME NEW h \in Handles, NEW p \in Pids \cup {-1}, WriteRefused(h, p)
        PROVE  UNCHANGED Lru!vars /\ Stamps'
    BY <1>1, <2>5, LruQuiet DEF WriteRefused
  <2>6. ASSUME NEW h \in Handles, NEW p \in Pids \cup {-1}, NEW d \in Contents,
               WriteOK(h, p, d)
        PROVE  Lru!Next /\ Stamps'
    BY <1>1, <2>6, LruWrite DEF Lru!Next
  <2>7. CASE Restart
    BY <1>1, <2>7, LruRestart DEF Lru!Next
  <2>8. CASE UNCHANGED vars
    BY <1>1, <2>8, LruQuiet DEF vars, cacheVars
  <2> QED
    BY <1>1, <2>1, <2>2, <2>3, <2>4, <2>5, <2>6, <2>7, <2>8 DEF Next
<1> QED
  BY <1>1, LruInit, Invariance, PTL DEF Spec, ImplementsLru, Lru!Spec
=============================================================================
