------------------------- MODULE RecordFile_proofs -------------------------
(***************************************************************************)
(* Proofs about RecordFile, for every page size, every number of pages and *)
(* every combination of failing system calls: the layout of the file is    *)
(* kept, the end in memory is the end on disk, and the class implements    *)
(* RecordLog.                                                              *)
(***************************************************************************)
EXTENDS RecordFile, TLAPS

\* A file that is open, or has a page, exists.
Existing == size > 0 \/ IsOpen => dir

\* Only a ::close that fails leaves a stale descriptor.
StaleByFault == mode = "stale" => "close" \in Faults

Inv == TypeOK /\ Dense /\ EndCurrent /\ Existing /\ StaleByFault

LEMMA Numbers ==
  /\ RECORDS_PER_PAGE \in Nat /\ RECORDS_PER_PAGE > 0
  /\ MAX_VALUE_LENGTH \in Nat /\ MAX_VALUE_LENGTH > 0
  /\ Pids \subseteq Nat /\ 0 \in Pids
  /\ Lengths \subseteq Nat
  BY RecordFileAssumption

LEMMA RidNumbers ==
  \A r \in Rids : /\ r.pid \in Pids /\ r.sid \in Sids /\ r.pid \in Nat
                 /\ r.sid \in Nat /\ r.sid < RECORDS_PER_PAGE
<1>. SUFFICES ASSUME NEW r \in Rids
              PROVE  /\ r.pid \in Pids /\ r.sid \in Sids /\ r.pid \in Nat
                     /\ r.sid \in Nat /\ r.sid < RECORDS_PER_PAGE
  OBVIOUS
<1>1. r.pid \in Pids /\ r.sid \in Sids
  BY DEF Rids
<1>2. r.pid \in Nat /\ RECORDS_PER_PAGE \in Nat
  BY <1>1, Numbers
<1>. QED
  BY <1>1, <1>2 DEF Sids

LEMMA StoredType == \A v \in Values : Stored(v) \in Values
<1>. SUFFICES ASSUME NEW v \in Values PROVE Stored(v) \in Values
  OBVIOUS
<1>1. CASE v.len < MAX_VALUE_LENGTH
  BY <1>1, Numbers DEF Stored, Values
<1>2. CASE v.len >= MAX_VALUE_LENGTH
  <2>1. v.len \in Nat /\ v.len \in Lengths
    BY Numbers DEF Values
  <2>2. MAX_VALUE_LENGTH - 1 \in 0 .. v.len
    BY <1>2, <2>1, Numbers
  <2>3. MAX_VALUE_LENGTH - 1 \in Lengths
    BY <2>1, <2>2, RecordFileAssumption
  <2>. QED
    BY <1>2, <2>3 DEF Stored, Values
<1>3. v.len \in Nat
  BY Numbers DEF Values
<1>. QED
  BY <1>1, <1>2, <1>3, Numbers

LEMMA ZeroPageType == ZeroPage \in Pages
  BY Numbers DEF ZeroPage, Pages

\* Where the end of the file is: in the last page when that has room, else on
\* the page after it.
LEMMA EndOfFacts ==
  ASSUME Inv
  PROVE  /\ EndOf \in [pid : Nat, sid : Sids]
         /\ EndOf.sid = 0 => EndOf.pid = size
         /\ EndOf.sid > 0 => /\ size > 0 /\ EndOf.pid = size - 1
                             /\ EndOf.pid \in Pids
                             /\ page[EndOf.pid].count = EndOf.sid
<1>1. size \in Nat /\ RECORDS_PER_PAGE \in Nat \ {0} /\ 0 \in Sids
  BY Numbers DEF Inv, TypeOK, Sids
<1>2. CASE size = 0
  BY <1>1, <1>2 DEF EndOf, Zero
<1>3. CASE size > 0
  <2>1. size - 1 \in 0 .. size - 1
    BY <1>1, <1>3
  <2>2. size - 1 \in Pids
    BY <2>1 DEF Inv, Dense
  <2>3. page[size - 1].count > 0 /\ page[size - 1].count \in 0 .. RECORDS_PER_PAGE
    BY <2>1, <2>2 DEF Inv, Dense, TypeOK, Pages
  <2>4. CASE page[size - 1].count >= RECORDS_PER_PAGE
    BY <1>1, <1>3, <2>4 DEF EndOf
  <2>5. CASE page[size - 1].count < RECORDS_PER_PAGE
    BY <1>1, <1>3, <2>2, <2>3, <2>5 DEF EndOf, Sids
  <2>. QED
    BY <1>1, <2>3, <2>4, <2>5
<1>. QED
  BY <1>1, <1>2, <1>3

\* The ids in use are the ids before the end: none is skipped.
LEMMA UsedIsBefore == Inv => \A r \in Rids : r \in Used <=> Before(r, EndOf)
<1>. SUFFICES ASSUME Inv, NEW r \in Rids PROVE r \in Used <=> Before(r, EndOf)
  OBVIOUS
<1>1. /\ r.pid \in Pids /\ r.pid \in Nat /\ r.sid \in Nat
      /\ r.sid < RECORDS_PER_PAGE /\ size \in Nat /\ RECORDS_PER_PAGE \in Nat
      /\ page[r.pid].count \in Nat
  <2>1. page[r.pid].count \in 0 .. RECORDS_PER_PAGE /\ size \in Nat
    BY RidNumbers DEF Inv, TypeOK, Pages
  <2>2. RECORDS_PER_PAGE \in Nat
    BY Numbers
  <2>. QED
    BY <2>1, <2>2, RidNumbers
<1>2. r \in Used <=> r.pid < size /\ r.sid < page[r.pid].count
  BY DEF Used
<1>3. ASSUME r.pid < size - 1 PROVE page[r.pid].count = RECORDS_PER_PAGE
  <2>1. r.pid \in 0 .. size - 1 /\ r.pid # size - 1
    BY <1>1, <1>3
  <2>. QED
    BY <2>1 DEF Inv, Dense
<1>4. CASE EndOf.sid = 0
  <2>1. EndOf.pid = size
    BY <1>4, EndOfFacts
  <2>2. ASSUME size > 0 PROVE page[size - 1].count = RECORDS_PER_PAGE
    <3>1. size - 1 \in 0 .. size - 1
      BY <1>1, <2>2
    <3>2. page[size - 1].count > 0 /\ page[size - 1].count \in 0 .. RECORDS_PER_PAGE
      BY <3>1 DEF Inv, Dense, TypeOK, Pages
    <3>. QED
      BY <1>1, <1>4, <2>1, <2>2, <3>2 DEF EndOf
  <2>. QED
    BY <1>1, <1>2, <1>3, <1>4, <2>1, <2>2 DEF Before
<1>5. CASE EndOf.sid > 0
  <2>1. EndOf.pid = size - 1 /\ page[size - 1].count = EndOf.sid
    BY <1>5, EndOfFacts
  <2>. QED
    BY <1>1, <1>2, <1>3, <2>1 DEF Before
<1>. QED
  BY <1>4, <1>5, EndOfFacts, Numbers DEF Sids
LEMMA UsedIsBeforeNext ==
  Inv' => \A r \in Rids : r \in Used' <=> Before(r, EndOf')
<1>1. Inv' => (\A r \in Rids : r \in Used <=> Before(r, EndOf))'
  BY UsedIsBefore, PTL
<1>. QED
  BY <1>1 DEF Before
-----------------------------------------------------------------------------
(* Every call preserves Inv.                                               *)

LEMMA InitInv == Init => Inv
<1>. SUFFICES ASSUME Init PROVE Inv
  OBVIOUS
<1>1. page \in [Pids -> Pages]
  BY ZeroPageType DEF Init
<1>2. erid \in [pid : Int, sid : Int] /\ ~IsOpen
  BY DEF Init, Zero, IsOpen
<1>3. TypeOK
  BY <1>1, <1>2 DEF Init, TypeOK
<1>4. 0 .. size - 1 = {}
  BY DEF Init
<1>5. Dense
  BY <1>4 DEF Init, Dense
<1>6. EndCurrent
  BY DEF Init, EndCurrent, IsOpen
<1>7. Existing /\ StaleByFault
  BY DEF Init, Existing, StaleByFault, IsOpen
<1>. QED
  BY <1>3, <1>5, <1>6, <1>7 DEF Inv

\* The calls that leave the pages alone.
LEMMA QuietInv ==
  ASSUME Inv, UNCHANGED <<size, page>>, dir' \in BOOLEAN, dir => dir',
         mode' \in {"none", "r", "w", "stale"},
         erid' \in [pid : Int, sid : Int], IsOpen' => erid' = EndOf,
         wild' \in BOOLEAN, IsOpen' => ~wild',
         IsOpen' => dir', mode' = "stale" => "close" \in Faults
  PROVE  Inv'
<1>1. TypeOK'
  BY EndOfFacts DEF Inv, TypeOK
<1>2. Dense'
  BY DEF Inv, Dense
<1>3. EndCurrent'
  BY DEF EndCurrent, EndOf
<1>4. Existing' /\ StaleByFault'
  BY DEF Inv, Existing, StaleByFault
<1>. QED
  BY <1>1, <1>2, <1>3, <1>4 DEF Inv

\* append() writes one page, the last or a new one.
LEMMA AppendEffect ==
  ASSUME Inv, NEW k \in Keys, NEW v \in Values, AppendOK(k, v), UNCHANGED wild
  PROVE  /\ Inv'
         /\ erid = EndOf /\ EndOf' = Succ(EndOf)
         /\ Used' = Used \cup {EndOf} /\ EndOf \in Rids
         /\ \A r \in Used : page'[r.pid].slot[r.sid] = page[r.pid].slot[r.sid]
         /\ page'[EndOf.pid].slot[EndOf.sid] = [key |-> k, value |-> Stored(v)]
<1>. DEFINE e == EndOf
            new == WithRecord(Basis, e.sid, k, v)
<1>1. erid = e /\ e \in [pid : Nat, sid : Sids] /\ e.pid \in Pids /\ e \in Rids
  BY EndOfFacts DEF AppendOK, Inv, EndCurrent, IsOpen, Rids
<1>2. /\ size \in Nat /\ e.pid \in Nat /\ e.sid \in Nat /\ e.sid < RECORDS_PER_PAGE
      /\ RECORDS_PER_PAGE \in Nat
  BY <1>1, Numbers DEF Inv, TypeOK, Sids
<1>3. e.pid = IF e.sid = 0 THEN size ELSE size - 1
  BY <1>2, EndOfFacts
<1>4. /\ page' = [page EXCEPT ![e.pid] = new]
      /\ size' = e.pid + 1
      /\ erid' = Succ(e)
      /\ UNCHANGED <<dir, mode>>
  BY <1>1, <1>2, <1>3, EndOfFacts DEF AppendOK
<1>5. Basis \in Pages /\ (e.sid > 0 => Basis = page[e.pid] /\ Basis.count = e.sid)
  BY <1>1, ZeroPageType, EndOfFacts DEF Basis, Inv, TypeOK
<1>6. /\ new.count = e.sid + 1
      /\ new.slot = [Basis.slot EXCEPT ![e.sid] = [key |-> k, value |-> Stored(v)]]
  BY DEF WithRecord
<1>7. new \in Pages
  <2>1. [key |-> k, value |-> Stored(v)] \in Stamped
    BY StoredType DEF Stamped
  <2>2. new.count \in 0 .. RECORDS_PER_PAGE
    BY <1>2, <1>6
  <2>. QED
    BY <1>1, <1>5, <2>1, <2>2 DEF Pages, WithRecord
<1>8. page' \in [Pids -> Pages] /\ page'[e.pid] = new
      /\ \A p \in Pids \ {e.pid} : page'[p] = page[p]
  BY <1>1, <1>4, <1>7 DEF Inv, TypeOK
<1>9. erid' \in [pid : Nat, sid : Sids] /\ erid' \in [pid : Int, sid : Int]
  BY <1>2, <1>4, Numbers DEF Succ, Sids
<1>10. TypeOK'
  BY <1>2, <1>4, <1>8, <1>9 DEF Inv, TypeOK, IsOpen
<1>11. EndOf' = Succ(e)
  <2>1. size' - 1 = e.pid /\ size' # 0 /\ size' = e.pid + 1
    BY <1>2, <1>4
  <2>2. EndOf' = IF new.count >= RECORDS_PER_PAGE
                 THEN [pid |-> e.pid + 1, sid |-> 0]
                 ELSE [pid |-> e.pid, sid |-> new.count]
    BY <2>1, <1>8 DEF EndOf
  <2>. QED
    BY <2>2, <1>6 DEF Succ
<1>12. EndCurrent'
  BY <1>4, <1>11 DEF EndCurrent
<1>13. \A p \in 0 .. size - 1 : p # e.pid =>
         page'[p] = page[p] /\ page[p].count = RECORDS_PER_PAGE
  <2>. SUFFICES ASSUME NEW p \in 0 .. size - 1, p # e.pid
                PROVE  page'[p] = page[p] /\ page[p].count = RECORDS_PER_PAGE
    OBVIOUS
  <2>1. p \in Pids /\ page'[p] = page[p]
    BY <1>8 DEF Inv, Dense
  <2>2. ASSUME p # size - 1 PROVE page[p].count = RECORDS_PER_PAGE
    BY <2>2 DEF Inv, Dense
  <2>3. ASSUME p = size - 1 PROVE page[p].count = RECORDS_PER_PAGE
    <3>1. e.sid = 0 /\ e.pid = size
      BY <1>2, <1>3, <2>3
    <3>2. page[p].count > 0 /\ page[p].count \in 0 .. RECORDS_PER_PAGE
      BY <2>1 DEF Inv, Dense, TypeOK, Pages
    <3>. QED
      BY <1>2, <2>3, <3>1, <3>2 DEF EndOf
  <2>. QED
    BY <2>1, <2>2, <2>3
<1>14. \A s \in Sids : s < new.count => new.slot[s] # NoRecord
  <2>. SUFFICES ASSUME NEW s \in Sids, s < new.count PROVE new.slot[s] # NoRecord
    OBVIOUS
  <2>1. CASE s = e.sid
    <3>1. [key |-> k, value |-> Stored(v)] # NoRecord
      BY StoredType, RecordFileAssumption
    <3>. QED
      BY <2>1, <3>1, <1>5, <1>6 DEF Pages
  <2>2. CASE s # e.sid
    <3>1. s < e.sid /\ new.slot[s] = Basis.slot[s]
      BY <2>2, <1>2, <1>5, <1>6 DEF Pages, Sids
    <3>2. e.sid > 0 /\ e.pid \in 0 .. size - 1
      BY <3>1, <1>2, <1>3, EndOfFacts DEF Sids
    <3>. QED
      BY <3>1, <3>2, <1>5 DEF Inv, Dense
  <2>. QED
    BY <2>1, <2>2
<1>15. Existing' /\ StaleByFault'
  BY <1>4 DEF AppendOK, Inv, Existing, StaleByFault, IsOpen
<1>16. Dense'
  <2>1. size' - 1 = e.pid /\ 0 .. e.pid \subseteq Pids
    BY <1>1, <1>2, <1>4, RecordFileAssumption
  <2>2. \A p \in 0 .. e.pid : p # e.pid => p \in 0 .. size - 1
    BY <1>2, <1>3
  <2>. SUFFICES ASSUME NEW p \in 0 .. e.pid
                PROVE  /\ p # e.pid => page'[p].count = RECORDS_PER_PAGE
                       /\ page'[p].count > 0
                       /\ \A s \in Sids : s < page'[p].count
                                         => page'[p].slot[s] # NoRecord
    BY <2>1 DEF Dense
  <2>3. CASE p = e.pid
    <3>1. page'[p] = new
      BY <2>3, <1>8
    <3>2. new.count > 0
      BY <1>2, <1>6
    <3>. QED
      BY <2>3, <3>1, <3>2, <1>14
  <2>4. CASE p # e.pid
    BY <2>2, <2>4, <1>2, <1>13 DEF Inv, Dense
  <2>. QED
    BY <2>3, <2>4
<1>17. Inv'
  BY <1>10, <1>12, <1>15, <1>16 DEF Inv
<1>18. Used' = Used \cup {e}
  <2>. SUFFICES ASSUME NEW r \in Rids PROVE r \in Used' <=> r \in Used \/ r = e
    BY <1>1 DEF Used
  <2>1. r.pid \in Nat /\ r.sid \in Nat /\ r.sid < RECORDS_PER_PAGE
    BY RidNumbers
  <2>2. r \in Used <=> Before(r, e)
    BY UsedIsBefore
  <2>3. r \in Used' <=> Before(r, Succ(e))
    BY <1>11, <1>17, UsedIsBeforeNext
  <2>4. r = e <=> r.pid = e.pid /\ r.sid = e.sid
    BY <1>1 DEF Rids
  <2>. QED
    BY <1>2, <2>1, <2>2, <2>3, <2>4 DEF Before, Succ
<1>19. ASSUME NEW r \in Used
       PROVE  page'[r.pid].slot[r.sid] = page[r.pid].slot[r.sid]
  <2>1. r \in Rids /\ r.pid \in Pids /\ r.sid \in Sids /\ Before(r, e)
    BY UsedIsBefore DEF Used, Rids
  <2>2. CASE r.pid # e.pid
    BY <1>8, <2>1, <2>2
  <2>3. CASE r.pid = e.pid
    <3>1. r.sid < e.sid /\ r.sid # e.sid /\ e.sid > 0
      BY <1>2, <2>1, <2>3, Numbers DEF Before, Sids
    <3>2. new.slot[r.sid] = Basis.slot[r.sid]
      BY <1>5, <1>6, <2>1, <3>1 DEF Pages
    <3>. QED
      BY <1>5, <1>8, <2>3, <3>1, <3>2
  <2>. QED
    BY <2>2, <2>3
<1>20. page'[e.pid].slot[e.sid] = [key |-> k, value |-> Stored(v)]
  BY <1>1, <1>5, <1>6, <1>8 DEF Pages
<1>. QED
  BY <1>1, <1>11, <1>17, <1>18, <1>19, <1>20

LEMMA NextInv == Inv /\ [Next]_vars => Inv'
<1>. SUFFICES ASSUME Inv, [Next]_vars PROVE Inv'
  OBVIOUS
<1>1. Zero \in [pid : Int, sid : Int]
  BY DEF Zero
<1>2. /\ mode \in {"none", "r", "w", "stale"} /\ dir \in BOOLEAN
      /\ erid \in [pid : Int, sid : Int] /\ (IsOpen => erid = EndOf /\ dir)
      /\ mode = "stale" => "close" \in Faults
      /\ wild \in BOOLEAN /\ (IsOpen => ~wild)
  BY DEF Inv, TypeOK, EndCurrent, Existing, StaleByFault
<1>3. /\ EndOf \in [pid : Int, sid : Int]
      /\ IsOpen => erid.sid \in Nat
  BY <1>2, EndOfFacts DEF Sids
<1>4. CASE ~wild /\ Call /\ UNCHANGED wild
  <2>1. ASSUME NEW m \in {"r", "w"}, OpenOK(m) PROVE Inv'
    BY <1>2, <1>3, <1>4, <2>1, QuietInv DEF OpenOK, IsOpen
  <2>2. ASSUME NEW m \in {"r", "w"}, OpenRefused(m) PROVE Inv'
    BY <1>2, <1>4, <2>2, QuietInv DEF OpenRefused, disk, IsOpen
  <2>3. ASSUME NEW m \in {"r", "w"}, OpenUnread(m) PROVE Inv'
    BY <1>1, <1>2, <1>4, <2>3, QuietInv DEF OpenUnread, IsOpen
  <2>4. ASSUME NEW m \in {"r", "w"}, Construct(m) PROVE Inv'
    <3>1. CASE erid' \in Unset /\ UNCHANGED <<disk, mode>>
      <4>1. erid' \in [pid : Int, sid : Int]
        BY <3>1, RecordFileAssumption
      <4>. QED
        BY <1>2, <1>4, <2>4, <3>1, <4>1, QuietInv DEF Construct, disk, IsOpen
    <3>. QED
      BY <2>1, <2>3, <2>4, <3>1 DEF Construct
  <2>5. CASE Close
    BY <1>1, <1>2, <1>4, <2>5, QuietInv DEF Close, CloseOK, CloseFails, disk, IsOpen
  <2>6. CASE AppendFails
    BY <1>2, <1>4, <2>6, QuietInv DEF AppendFails, disk, IsOpen
  <2>7. ASSUME NEW k \in Keys, NEW v \in Values, AppendOK(k, v) PROVE Inv'
    BY <1>4, <2>7, AppendEffect
  <2>8. ASSUME NEW rid \in Rids, Read(rid) PROVE Inv'
    BY <1>2, <1>4, <2>8, QuietInv DEF Read, ReadOK, ReadFails, disk, IsOpen
  <2>. QED
    BY <1>4, <2>1, <2>2, <2>3, <2>4, <2>5, <2>6, <2>7, <2>8 DEF Call, Open
<1>5. CASE AppendWild
  <2>1. ~IsOpen /\ UNCHANGED <<disk, mode, erid>> /\ wild' = TRUE
    BY <1>3, <1>5 DEF AppendWild
  <2>. QED
    BY <1>2, <2>1, QuietInv DEF disk, IsOpen
<1>6. CASE Drop
  BY <1>1, <1>2, <1>6, QuietInv DEF Drop, disk, IsOpen
<1>7. CASE UNCHANGED vars
  BY <1>2, <1>7, QuietInv DEF vars, IsOpen
<1>. QED
  BY <1>4, <1>5, <1>6, <1>7 DEF Next

\* The members and the pages of a table keep their types, the counter of a page
\* never exceeds its slots, and the end of an object that has opened its file is
\* a slot of a page, whichever calls fail and whatever an end never set holds.
THEOREM TypeCorrect == Spec => []TypeOK
<1>1. Inv => TypeOK
  BY DEF Inv
<1>. QED
  BY <1>1, InitInv, NextInv, PTL DEF Spec

\* Append after append, failed or not, fills the pages of a table in order:
\* open() finds the end of the last one.
THEOREM LayoutKept == Spec => []Dense
<1>1. Inv => Dense
  BY DEF Inv
<1>. QED
  BY <1>1, InitInv, NextInv, PTL DEF Spec

\* The end kept in memory by append() is the end that the disk tells open().
THEOREM EndRidIsCurrent == Spec => []EndCurrent
<1>1. Inv => EndCurrent
  BY DEF Inv
<1>. QED
  BY <1>1, InitInv, NextInv, PTL DEF Spec
-----------------------------------------------------------------------------
(* RecordFile implements RecordLog.                                        *)

absRec == [r \in Used |-> page[r.pid].slot[r.sid]]
absMode == IF mode = "stale" THEN "none" ELSE mode

LEMMA LogInit == Init => Log!Init
<1>. SUFFICES ASSUME Init PROVE Log!Init
  OBVIOUS
<1>1. Used = {}
  <2>1. size = 0
    BY DEF Init
  <2>2. \A r \in Rids : ~(r.pid < size)
    BY <2>1, RidNumbers
  <2>. QED
    BY <2>2 DEF Used
<1>2. EndOf = Zero
  BY DEF Init, EndOf
<1>. QED
  BY <1>1, <1>2 DEF Init, Log!Init, Log!Zero, Zero, Log!Code, Code

\* What a call that leaves the pages alone leaves of the log.
LEMMA LogUnchanged ==
  ASSUME UNCHANGED <<size, page>>
  PROVE  UNCHANGED <<absRec, EndOf, Used>>
  BY DEF absRec, EndOf, Used

LEMMA LogAppend ==
  ASSUME Inv, NEW k \in Keys, NEW v \in Values, AppendOK(k, v), UNCHANGED wild
  PROVE  Log!Append([key |-> k, value |-> Stored(v)])
<1>. DEFINE r == [key |-> k, value |-> Stored(v)]
<1>1. absRec' = [i \in DOMAIN absRec \cup {EndOf} |-> IF i = EndOf THEN r ELSE absRec[i]]
  BY AppendEffect DEF absRec
<1>2. mode = "w" /\ UNCHANGED mode /\ EndOf.pid \in Pids
      /\ ret' = [rc |-> "OK", rid |-> EndOf, record |-> NoRecord]
  BY AppendEffect DEF AppendOK
<1>3. EndOf' = Succ(EndOf)
  BY AppendEffect
<1>. QED
  BY <1>1, <1>2, <1>3 DEF Log!Append, absRec, Succ, Log!Succ

LEMMA LogAppendFails ==
  ASSUME Inv, AppendFails
  PROVE  Log!AppendFails
<1>1. UNCHANGED <<absRec, EndOf, mode>>
  BY LogUnchanged DEF AppendFails, disk
<1>2. ASSUME IsOpen, erid.sid > 0 PROVE PageReadable(erid.pid) /\ EndOf.sid > 0
  <2>1. erid = EndOf /\ size \in Nat
    BY <1>2 DEF Inv, EndCurrent, TypeOK
  <2>. QED
    BY <1>2, <2>1, EndOfFacts DEF PageReadable
<1>3. \/ absMode # "w"
      \/ "read" \in Faults /\ EndOf.sid > 0
      \/ "write" \in Faults
  <2>1. IsOpen => ~(erid.pid < 0)
    <3>1. IsOpen => erid.pid \in Nat
      BY DEF Inv, TypeOK
    <3>. QED
      BY <3>1
  <2>. QED
    BY <1>2, <2>1 DEF AppendFails, absMode, IsOpen, PageReadable
<1>4. ret' \in {Code("RC_INVALID_PID"), Code("RC_FILE_READ_FAILED"),
               Code("RC_FILE_SEEK_FAILED"), Code("RC_FILE_WRITE_FAILED")}
  BY DEF AppendFails
<1>. QED
  BY <1>1, <1>3, <1>4 DEF Log!AppendFails, absRec, absMode, Code, Log!Code

LEMMA LogRead ==
  ASSUME Inv, NEW rid \in Rids, Read(rid)
  PROVE  Log!Read(rid) \/ Log!ReadFails(rid)
<1>1. UNCHANGED <<absRec, EndOf, mode>>
  BY LogUnchanged DEF Read, ReadOK, ReadFails, disk
<1>2. ASSUME IsOpen
      PROVE  /\ rid \in Used <=> Before(rid, erid)
             /\ rid \in Used => PageReadable(rid.pid)
  BY <1>2, UsedIsBefore DEF Inv, EndCurrent, PageReadable, Used
<1>3. CASE ReadOK(rid)
  <2>1. IsOpen /\ rid \in Used /\ absMode # "none"
    BY <1>2, <1>3 DEF ReadOK, PageReadable, absMode, IsOpen
  <2>2. ret' = [rc |-> "OK", rid |-> NoRid, record |-> absRec[rid]]
    BY <1>3, <2>1 DEF ReadOK, absRec
  <2>. QED
    BY <1>1, <2>1, <2>2 DEF Log!Read, absRec, absMode
<1>4. CASE ReadFails(rid)
  <2>1. rid \notin Used \/ absMode = "none" \/ "read" \in Faults
    BY <1>2, <1>4 DEF ReadFails, absMode, IsOpen, Inv, TypeOK
  <2>2. ret' \in {Code("RC_INVALID_RID"), Code("RC_INVALID_PID"),
                 Code("RC_FILE_READ_FAILED")}
    BY <1>4 DEF ReadFails
  <2>. QED
    BY <1>1, <2>1, <2>2 DEF Log!ReadFails, absRec, absMode, Code, Log!Code
<1>. QED
  BY <1>3, <1>4 DEF Read

LEMMA LogOpen ==
  ASSUME Inv, NEW m \in {"r", "w"}, Open(m) \/ Construct(m)
  PROVE  Log!Open(m) \/ Log!OpenFails(m)
<1>1. UNCHANGED <<absRec, EndOf>>
  BY LogUnchanged DEF Open, Construct, OpenOK, OpenRefused, OpenUnread, disk
<1>2. CASE OpenOK(m)
  BY <1>1, <1>2 DEF OpenOK, Log!Open, absRec, Code, Log!Code
<1>3. ASSUME ~dir PROVE EndOf = Log!Zero
  BY <1>3 DEF Inv, Existing, TypeOK, EndOf, Zero, Log!Zero
<1>4. CASE OpenUnread(m)
  <2>1. "read" \in Faults /\ absMode' = absMode
    BY <1>4 DEF OpenUnread, absMode
  <2>. QED
    BY <1>1, <1>4, <2>1 DEF OpenUnread, Log!OpenFails, absRec, absMode, Code, Log!Code
<1>5. CASE /\ mode # "none" \/ (m = "r" /\ ~dir) \/ "open" \in Faults
           /\ ret' = Code("RC_FILE_OPEN_FAILED") /\ UNCHANGED mode
  <2>1. \/ absMode # "none" \/ (m = "r" /\ EndOf = Log!Zero)
        \/ {"open", "read", "close"} \cap Faults # {}
    BY <1>3, <1>5 DEF absMode, Inv, StaleByFault
  <2>. QED
    BY <1>1, <1>5, <2>1 DEF Log!OpenFails, absRec, absMode, Code, Log!Code
<1>. QED
  BY <1>2, <1>4, <1>5 DEF Open, Construct, OpenRefused

LEMMA LogClose ==
  ASSUME Inv, Close
  PROVE  Log!Close \/ Log!CloseFails
<1>1. UNCHANGED <<absRec, EndOf>>
  BY LogUnchanged DEF Close, CloseOK, CloseFails, disk
<1>2. CASE CloseOK
  BY <1>1, <1>2 DEF CloseOK, IsOpen, Log!Close, absRec, Code, Log!Code
<1>3. CASE CloseFails
  <2>1. (absMode = "none" \/ "close" \in Faults) /\ absMode' = "none"
    BY <1>3 DEF CloseFails, IsOpen, absMode, Inv, TypeOK
  <2>. QED
    BY <1>1, <1>3, <2>1 DEF CloseFails, Log!CloseFails, absRec, absMode, Code, Log!Code
<1>. QED
  BY <1>2, <1>3 DEF Close

\* RecordFile implements RecordLog: a record keeps its id and its contents for
\* ever, and the ids are handed out with none skipped and none given twice,
\* whatever calls fail and whenever the process ends.
THEOREM Refinement == Spec => ImplementsRecordLog
<1>1. ASSUME Inv, [Next]_vars PROVE [Log!Next]_(Log!vars)
  <2>1. CASE ~wild /\ Call /\ UNCHANGED wild
    <3>1. ASSUME NEW m \in {"r", "w"}, Open(m) \/ Construct(m) PROVE Log!Next
      BY <1>1, <3>1, LogOpen DEF Log!Next
    <3>2. CASE Close
      BY <1>1, <3>2, LogClose DEF Log!Next
    <3>3. CASE AppendFails
      BY <1>1, <3>3, LogAppendFails DEF Log!Next
    <3>4. ASSUME NEW k \in Keys, NEW v \in Values, AppendOK(k, v) PROVE Log!Next
      BY <1>1, <2>1, <3>4, LogAppend DEF Log!Next
    <3>5. ASSUME NEW rid \in Rids, Read(rid) PROVE Log!Next
      BY <1>1, <3>5, LogRead DEF Log!Next, Log!Rids, Rids, Sids
    <3>. QED
      BY <2>1, <3>1, <3>2, <3>3, <3>4, <3>5 DEF Call
  <2>2. CASE Drop
    <3>1. UNCHANGED <<absRec, EndOf>> /\ absMode' = "none" /\ ret' = Log!Code("OK")
      BY <2>2, LogUnchanged DEF Drop, disk, absMode, Code, Log!Code
    <3>. QED
      BY <3>1 DEF Log!Next, Log!Drop, absRec, absMode
  <2>3. CASE AppendWild \/ UNCHANGED vars
    <3>1. UNCHANGED <<absRec, EndOf, mode, ret>>
      BY <2>3, LogUnchanged DEF vars, AppendWild, disk
    <3>. QED
      BY <3>1 DEF Log!vars, absRec
  <2>. QED
    BY <1>1, <2>1, <2>2, <2>3 DEF Next
<1>. QED
  BY <1>1, LogInit, InitInv, NextInv, PTL DEF Spec, ImplementsRecordLog, Log!Spec
=============================================================================
