------------------------ MODULE MovieDatabase_proofs ------------------------
(***************************************************************************)
(* The invariants of MovieDatabase, for any number of requests.            *)
(***************************************************************************)
EXTENDS MovieDatabase, TLAPS

\* A row has the table and the id of the request that wrote it.
RowsAreOf ==
  \A t \in Tables : \A r \in rows[t] :
    /\ req[r.by].table = t /\ req[r.by].maxID = r.id
    /\ req[r.by].pc \in {"update", "added", "gone"}

\* An id that was read is not above the counter.
ReadBelowMax ==
  \A q \in Requests :
    req[q].pc # "new" => req[q].maxID <= max[CounterOf(req[q].table)]

\* Two requests for one counter that are on their way know of each other.
MidwayMet ==
  \A p, q \in Requests :
    p # q /\ Midway(p) /\ Midway(q) /\ CounterOf(req[p].table) = CounterOf(req[q].table)
    => p \in met[q]

\* The id that a request alone is about to insert is free.
AloneIsFree ==
  \A q \in Requests :
    req[q].pc = "insert" /\ met[q] = {} => ~Taken(req[q].table, req[q].maxID)

Inv == /\ TypeOK /\ RowsAreOf /\ ReadBelowMax /\ IdsBelowMax
       /\ MidwayMet /\ AloneIsFree /\ AloneIsStored

LEMMA Counted == \A t \in Tables : CounterOf(t) \in Counters
BY DEF Tables, Counters, CounterOf

\* Each request begins at "new", where all parts hold.
LEMMA InitInv == Init => Inv
<1> SUFFICES ASSUME Init PROVE Inv
  OBVIOUS
<1>1. TypeOK
  BY MovieDatabaseAssumption DEF Init, TypeOK, Ids, Tables, Counters
<1>2. RowsAreOf /\ IdsBelowMax
  BY DEF Init, RowsAreOf, IdsBelowMax
<1>3. ReadBelowMax /\ MidwayMet /\ AloneIsFree /\ AloneIsStored
  BY DEF Init, ReadBelowMax, MidwayMet, Midway, AloneIsFree, AloneIsStored
<1> QED
  BY <1>1, <1>2, <1>3 DEF Inv

\* Read: an id that is still taken was taken by a request that is unfinished.
LEMMA ReadInv ==
  ASSUME Inv, NEW q \in Requests, NEW t \in Tables, NEW fit \in BOOLEAN,
         Read(q, t, fit)
  PROVE  Inv'
<1> USE DEF Inv
<1>1. CounterOf(t) \in Counters
  BY Counted
<1>2. max[CounterOf(t)] \in Ids
  BY <1>1 DEF TypeOK
<1>3. req' = [req EXCEPT ![q] = [pc |-> "insert", table |-> t, fit |-> fit,
                                 maxID |-> max[CounterOf(t)]]]
  BY DEF Read, Fetched
<1>4. req'[q] = [pc |-> "insert", table |-> t, fit |-> fit, maxID |-> max[CounterOf(t)]]
  BY <1>3 DEF TypeOK
<1>5. \A p \in Requests : p # q => req'[p] = req[p]
  BY <1>3 DEF TypeOK
<1>6. req[q].pc = "new" /\ rows' = rows /\ max' = max
  BY DEF Read
<1>7. met'[q] = Unfinished(CounterOf(t))
  BY DEF Read
<1>8. \A p \in Requests : p # q =>
        met'[p] = IF Midway(p) /\ Uses(p, CounterOf(t)) THEN met[p] \cup {q} ELSE met[p]
  BY DEF Read
<1>9. TypeOK'
  <2>1. met' \in [Requests -> SUBSET Requests]
    BY DEF Read, TypeOK, Unfinished
  <2>2. req' \in [Requests -> [pc : {"new", "insert", "update", "added", "gone"},
                               table : Tables, fit : BOOLEAN, maxID : Ids]]
    BY <1>2, <1>3 DEF TypeOK
  <2> QED
    BY <2>1, <2>2, <1>6 DEF TypeOK
<1>10. \A u \in Tables : \A r \in rows[u] : r.by \in Requests /\ r.by # q
  BY <1>6 DEF TypeOK, RowsAreOf
<1>11. RowsAreOf' /\ IdsBelowMax'
  BY <1>5, <1>6, <1>10 DEF RowsAreOf, IdsBelowMax
<1>12. ReadBelowMax'
  <2> SUFFICES ASSUME NEW p \in Requests, req'[p].pc # "new"
               PROVE  req'[p].maxID <= max'[CounterOf(req'[p].table)]
    BY DEF ReadBelowMax
  <2>1. CASE p = q
    BY <2>1, <1>2, <1>4, <1>6 DEF Ids
  <2>2. CASE p # q
    BY <2>2, <1>5, <1>6 DEF ReadBelowMax
  <2> QED
    BY <2>1, <2>2
<1>13. MidwayMet'
  <2> SUFFICES ASSUME NEW p \in Requests, NEW s \in Requests, p # s,
                      Midway(p)', Midway(s)',
                      CounterOf(req'[p].table) = CounterOf(req'[s].table)
               PROVE  p \in met'[s]
    BY DEF MidwayMet, CounterOf
  <2>1. CASE s = q
    BY <2>1, <1>4, <1>5, <1>7 DEF Unfinished, Midway, Uses
  <2>2. CASE p = q
    <3>1. s # q /\ Midway(s) /\ CounterOf(req[s].table) = CounterOf(t)
      BY <2>2, <1>4, <1>5 DEF Midway
    <3>2. met'[s] = met[s] \cup {q}
      BY <3>1, <1>8 DEF Uses
    <3> QED
      BY <3>2, <2>2
  <2>3. CASE s # q /\ p # q
    <3>1. p \in met[s]
      BY <2>3, <1>5 DEF MidwayMet, Midway
    <3> QED
      BY <3>1, <2>3, <1>8
  <2> QED
    BY <2>1, <2>2, <2>3
<1>14. AloneIsFree'
  <2> SUFFICES ASSUME NEW p \in Requests, req'[p].pc = "insert", met'[p] = {},
                      NEW r \in rows[req'[p].table], r.id = req'[p].maxID
               PROVE  FALSE
    BY <1>6 DEF AloneIsFree, Taken
  <2>1. CASE p = q
    <3>1. t \in Tables /\ r \in rows[t] /\ r.id = max[CounterOf(t)]
      BY <2>1, <1>4
    <3>2. r.by \in Requests /\ req[r.by].table = t /\ req[r.by].maxID = r.id
      BY <3>1 DEF TypeOK, RowsAreOf
    <3>3. req[r.by].pc \in {"update", "gone"}
      BY <3>1, <1>2 DEF IdsBelowMax, Ids
    <3>4. r.by \in Unfinished(CounterOf(t))
      BY <3>1, <3>2, <3>3 DEF Unfinished, Uses, Midway
    <3> QED
      BY <3>4, <2>1, <1>7
  <2>2. CASE p # q
    BY <2>2, <1>5, <1>8 DEF AloneIsFree, Taken
  <2> QED
    BY <2>1, <2>2
<1>15. AloneIsStored'
  <2> SUFFICES ASSUME NEW p \in Requests, req'[p].pc \in {"update", "added"},
                      req'[p].fit, met'[p] = {}
               PROVE  \E r \in rows[req'[p].table] : r.by = p
    BY <1>6 DEF AloneIsStored, Stored
  <2>1. p # q /\ req'[p] = req[p]
    BY <1>4, <1>5
  <2>2. met[p] = {}
    BY <2>1, <1>8
  <2> QED
    BY <2>1, <2>2 DEF AloneIsStored, Stored
<1> QED
  BY <1>9, <1>11, <1>12, <1>13, <1>14, <1>15

\* Insert: the row has an id not above the counter, and it is not there if
\* another that was on its way has met the request.
LEMMA InsertInv ==
  ASSUME Inv, NEW q \in Requests, Insert(q)
  PROVE  Inv'
<1> USE DEF Inv
<1> DEFINE t == req[q].table
           id == req[q].maxID
           new == [id |-> id, by |-> q]
<1>1. t \in Tables /\ id \in Ids /\ CounterOf(t) \in Counters
  BY Counted DEF TypeOK
<1>2. req[q].pc = "insert" /\ max' = max /\ met' = met
  BY DEF Insert
<1>3. req' = [req EXCEPT ![q].pc = "update"]
  BY DEF Insert
<1>5. \A p \in Requests : p # q => req'[p] = req[p]
  BY <1>3 DEF TypeOK
<1>6. req'[q].pc = "update" /\ req'[q].table = t /\ req'[q].maxID = id
        /\ req'[q].fit = req[q].fit
  BY <1>3 DEF TypeOK
<1>7. \A u \in Tables : \A r \in rows'[u] : r \in rows[u] \/ (u = t /\ r = new)
  BY <1>1 DEF Insert, TypeOK
<1>8. \A u \in Tables : rows[u] \subseteq rows'[u]
  BY <1>1 DEF Insert, TypeOK
<1>9. \A u \in Tables : \A r \in rows[u] : r.by \in Requests /\ r.by # q
  BY <1>2 DEF TypeOK, RowsAreOf
<1>10. TypeOK'
  <2>1. rows' \in [Tables -> SUBSET [id : Ids, by : Requests]]
    BY <1>1 DEF Insert, TypeOK
  <2>2. req' \in [Requests -> [pc : {"new", "insert", "update", "added", "gone"},
                               table : Tables, fit : BOOLEAN, maxID : Ids]]
    BY <1>3 DEF TypeOK
  <2> QED
    BY <2>1, <2>2, <1>2 DEF TypeOK
<1>11. id <= max[CounterOf(t)]
  BY <1>2 DEF ReadBelowMax
<1>12. RowsAreOf'
  <2> SUFFICES ASSUME NEW u \in Tables, NEW r \in rows'[u]
               PROVE  /\ req'[r.by].table = u /\ req'[r.by].maxID = r.id
                      /\ req'[r.by].pc \in {"update", "added", "gone"}
    BY DEF RowsAreOf
  <2>1. CASE r \in rows[u]
    BY <2>1, <1>5, <1>9 DEF RowsAreOf
  <2>2. CASE u = t /\ r = new
    BY <2>2, <1>6
  <2> QED
    BY <2>1, <2>2, <1>7
<1>13. IdsBelowMax'
  <2> SUFFICES ASSUME NEW u \in Tables, NEW r \in rows'[u]
               PROVE  \/ r.id < max[CounterOf(u)]
                      \/ r.id = max[CounterOf(u)] /\ req'[r.by].pc \in {"update", "gone"}
    BY <1>2 DEF IdsBelowMax
  <2>1. CASE r \in rows[u]
    BY <2>1, <1>5, <1>9 DEF IdsBelowMax
  <2>2. CASE u = t /\ r = new
    <3>1. id \in Int /\ max[CounterOf(t)] \in Int
      BY <1>1 DEF TypeOK, Ids
    <3>2. r.id = id /\ r.by = q /\ req'[q].pc = "update"
      BY <2>2, <1>6
    <3> QED
      BY <3>1, <3>2, <2>2, <1>11
  <2> QED
    BY <2>1, <2>2, <1>7
<1>14. ReadBelowMax'
  BY <1>2, <1>5, <1>6, <1>11 DEF ReadBelowMax
<1>15. MidwayMet'
  BY <1>2, <1>5, <1>6 DEF MidwayMet, Midway
<1>16. AloneIsFree'
  <2> SUFFICES ASSUME NEW p \in Requests, req'[p].pc = "insert", met[p] = {},
                      NEW r \in rows'[req'[p].table], r.id = req'[p].maxID
               PROVE  FALSE
    BY <1>2 DEF AloneIsFree, Taken
  <2>1. p # q /\ req'[p] = req[p]
    BY <1>5, <1>6
  <2>2. req[p].table \in Tables
    BY DEF TypeOK
  <2>3. CASE r \in rows[req[p].table]
    BY <2>1, <2>3 DEF AloneIsFree, Taken
  <2>4. CASE req[p].table = t /\ r = new
    BY <2>1, <2>4, <1>2 DEF MidwayMet, Midway
  <2> QED
    BY <2>1, <2>2, <2>3, <2>4, <1>7
<1>17. AloneIsStored'
  <2> SUFFICES ASSUME NEW p \in Requests, req'[p].pc \in {"update", "added"},
                      req'[p].fit, met[p] = {}
               PROVE  \E r \in rows'[req'[p].table] : r.by = p
    BY <1>2 DEF AloneIsStored, Stored
  <2>1. CASE p # q
    <3>1. req'[p] = req[p] /\ req[p].table \in Tables
      BY <2>1, <1>5 DEF TypeOK
    <3> QED
      BY <3>1, <1>8 DEF AloneIsStored, Stored
  <2>2. CASE p = q
    <3>1. ~Taken(t, id) /\ req[q].fit
      BY <2>2, <1>2, <1>6 DEF AloneIsFree
    <3>2. new \in rows'[t]
      BY <3>1, <1>1 DEF Insert, TypeOK
    <3> QED
      BY <3>2, <2>2, <1>6
  <2> QED
    BY <2>1, <2>2
<1> QED
  BY <1>10, <1>12, <1>13, <1>14, <1>15, <1>16, <1>17

\* Update: the counter passes every row that had reached it.
LEMMA UpdateInv ==
  ASSUME Inv, NEW q \in Requests, Update(q)
  PROVE  Inv'
<1> USE DEF Inv
<1> DEFINE c == CounterOf(req[q].table)
<1>1. c \in Counters /\ max[c] \in Ids
  BY Counted DEF TypeOK
<1>2. max' = [max EXCEPT ![c] = max[c] + 1] /\ rows' = rows /\ met' = met
  BY DEF Update, NextId
<1>3. req[q].pc = "update" /\ req' = [req EXCEPT ![q].pc = "added"]
  BY DEF Update
<1>4. \A p \in Requests :
        /\ req'[p].table = req[p].table /\ req'[p].maxID = req[p].maxID
        /\ req'[p].fit = req[p].fit
        /\ req'[p].pc = IF p = q THEN "added" ELSE req[p].pc
  BY <1>3 DEF TypeOK
<1>5. max'[c] = max[c] + 1 /\ \A d \in Counters : d # c => max'[d] = max[d]
  BY <1>1, <1>2 DEF TypeOK
<1>6. \A d \in Counters : max[d] \in Ids
  BY DEF TypeOK
<1>7. TypeOK'
  <2>1. max' \in [Counters -> Ids]
    <3>1. max[c] + 1 \in Ids
      BY <1>1, MovieDatabaseAssumption DEF Ids
    <3> QED
      BY <3>1, <1>1, <1>2 DEF TypeOK
  <2>2. req' \in [Requests -> [pc : {"new", "insert", "update", "added", "gone"},
                               table : Tables, fit : BOOLEAN, maxID : Ids]]
    BY <1>3 DEF TypeOK
  <2> QED
    BY <2>1, <2>2, <1>2 DEF TypeOK
<1>8. \A t \in Tables : \A r \in rows[t] : r.by \in Requests /\ r.id \in Ids
  BY DEF TypeOK
<1>9. RowsAreOf'
  BY <1>2, <1>4, <1>8 DEF RowsAreOf
<1>10. ReadBelowMax'
  <2> SUFFICES ASSUME NEW p \in Requests, req'[p].pc # "new"
               PROVE  req'[p].maxID <= max'[CounterOf(req'[p].table)]
    BY DEF ReadBelowMax
  <2>1. req[p].pc # "new" /\ req'[p].maxID = req[p].maxID /\ req'[p].table = req[p].table
    BY <1>3, <1>4
  <2>2. req[p].maxID \in Ids /\ CounterOf(req[p].table) \in Counters
    BY Counted DEF TypeOK
  <2>3. req[p].maxID <= max[CounterOf(req[p].table)]
    BY <2>1 DEF ReadBelowMax
  <2> QED
    BY <2>1, <2>2, <2>3, <1>5, <1>6 DEF Ids
<1>11. IdsBelowMax'
  <2> SUFFICES ASSUME NEW t \in Tables, NEW r \in rows[t]
               PROVE  \/ r.id < max'[CounterOf(t)]
                      \/ /\ r.id = max'[CounterOf(t)]
                         /\ req'[r.by].pc \in {"update", "gone"}
    BY <1>2 DEF IdsBelowMax
  <2>1. CounterOf(t) \in Counters /\ r.by \in Requests /\ r.id \in Ids
    BY Counted, <1>8
  <2>2. CASE CounterOf(t) = c
    BY <2>1, <2>2, <1>1, <1>5 DEF IdsBelowMax, Ids
  <2>3. CASE CounterOf(t) # c
    <3>1. r.by # q
      BY <2>3 DEF RowsAreOf
    <3> QED
      BY <3>1, <2>1, <2>3, <1>4, <1>5 DEF IdsBelowMax
  <2> QED
    BY <2>2, <2>3
<1>12. MidwayMet'
  BY <1>2, <1>4 DEF MidwayMet, Midway
<1>13. AloneIsFree'
  BY <1>2, <1>4 DEF AloneIsFree, Taken
<1>14. AloneIsStored'
  BY <1>2, <1>3, <1>4 DEF AloneIsStored, Stored
<1> QED
  BY <1>7, <1>9, <1>10, <1>11, <1>12, <1>13, <1>14

\* A request that is cut off leaves everything as it is.
LEMMA EndInv ==
  ASSUME Inv, NEW q \in Requests, End(q)
  PROVE  Inv'
<1> USE DEF Inv
<1>1. rows' = rows /\ max' = max /\ met' = met /\ Midway(q)
  BY DEF End
<1>2. req' = [req EXCEPT ![q].pc = "gone"]
  BY DEF End
<1>3. \A p \in Requests :
        /\ req'[p].table = req[p].table /\ req'[p].maxID = req[p].maxID
        /\ req'[p].fit = req[p].fit
        /\ req'[p].pc = IF p = q THEN "gone" ELSE req[p].pc
  BY <1>2 DEF TypeOK
<1>4. TypeOK'
  BY <1>1, <1>2 DEF TypeOK
<1>5. \A t \in Tables : \A r \in rows[t] : r.by \in Requests
  BY DEF TypeOK
<1>6. RowsAreOf' /\ IdsBelowMax'
  BY <1>1, <1>3, <1>5 DEF RowsAreOf, IdsBelowMax
<1>7. ReadBelowMax'
  BY <1>1, <1>3 DEF ReadBelowMax, Midway
<1>8. MidwayMet'
  BY <1>1, <1>3 DEF MidwayMet, Midway
<1>9. AloneIsFree' /\ AloneIsStored'
  BY <1>1, <1>3 DEF AloneIsFree, Taken, AloneIsStored, Stored
<1> QED
  BY <1>4, <1>6, <1>7, <1>8, <1>9

LEMMA NextInv == Inv /\ [Next]_vars => Inv'
<1> SUFFICES ASSUME Inv, [Next]_vars PROVE Inv'
  OBVIOUS
<1>1. CASE UNCHANGED vars
  BY <1>1 DEF vars, Inv, TypeOK, RowsAreOf, ReadBelowMax, IdsBelowMax, MidwayMet,
              Midway, AloneIsFree, Taken, AloneIsStored, Stored
<1>2. CASE Next
  BY <1>2, ReadInv, InsertInv, UpdateInv, EndInv DEF Next
<1> QED
  BY <1>1, <1>2

\* However many requests there are and wherever each is cut off: the types, the
\* ids below their counters, and the rows of requests that were alone.
THEOREM TypeCorrect == Spec => []TypeOK
<1>1. Inv => TypeOK
  BY DEF Inv
<1> QED
  BY <1>1, InitInv, NextInv, PTL DEF Spec

\* The id that the next request reads is free as soon as no request that has
\* inserted is still to count it up (AddActor.php, AddMovie.php).
THEOREM NextIdFree == Spec => []IdsBelowMax
<1>1. Inv => IdsBelowMax
  BY DEF Inv
<1> QED
  BY <1>1, InitInv, NextInv, PTL DEF Spec

\* A row is lost only to a race or to a request that was cut off just before.
THEOREM AloneStored == Spec => []AloneIsStored
<1>1. Inv => AloneIsStored
  BY DEF Inv
<1> QED
  BY <1>1, InitInv, NextInv, PTL DEF Spec
=============================================================================
