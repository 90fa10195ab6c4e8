---------------------------- MODULE MovieDatabase ----------------------------
(***************************************************************************)
(* The pages AddActor.php, which adds actors and directors, and            *)
(* AddMovie.php.  The web server runs requests side by side; each sends    *)
(* the database statements that are atomic, without a transaction around   *)
(* them: it reads the next id, inserts a row with it and counts it up.  A  *)
(* request may end between any two.                                        *)
(*                                                                         *)
(* The rows that load.sql put there have ids below FirstId and are left    *)
(* out.  by and met are history: which request wrote a row, and which      *)
(* others it was not alone with.                                           *)
(***************************************************************************)
EXTENDS Integers

CONSTANTS
  Requests,   \* the requests that are ever made
  FirstId     \* MaxPersonID and MaxMovieID after load.sql

ASSUME MovieDatabaseAssumption == FirstId \in Int

Tables == {"Actor", "Director", "Movie"}
Counters == {"MaxPersonID", "MaxMovieID"}
CounterOf(t) == IF t = "Movie" THEN "MaxMovieID" ELSE "MaxPersonID"

VARIABLES
  rows,   \* [Tables -> set of [id, by]]
  max,    \* [Counters -> Int]: the next id
  req,    \* [Requests -> [pc, table, fit, maxID]]: fit if the row that the
          \* form describes is one that the database would take
  met     \* [Requests -> SUBSET Requests]

vars == <<rows, max, req, met>>

Init ==
  /\ rows = [t \in Tables |-> {}]
  /\ max = [c \in Counters |-> FirstId]
  /\ req = [q \in Requests |->
              [pc |-> "new", table |-> "Movie", fit |-> FALSE, maxID |-> FirstId]]
  /\ met = [q \in Requests |-> {}]
-----------------------------------------------------------------------------
\* The counter that q works on, from the read of the id to its update.
Uses(q, c) == CounterOf(req[q].table) = c
Midway(q) == req[q].pc \in {"insert", "update"}

\* The requests that are between their statements, or that were cut off there
\* and whose id has not been counted up by another since.
Unfinished(c) ==
  {q \in Requests : /\ Uses(q, c)
                    /\ Midway(q) \/ (req[q].pc = "gone" /\ req[q].maxID = max[c])}

\* Mutant of Fetched: the counter taken for the greatest id in use.
FetchedLast(c) == max[c] - 1

\* mysql_fetch_row(...)[0]
Fetched(c) == max[c]

\* SELECT id FROM MaxPersonID.
Read(q, t, fit) ==
  /\ req[q].pc = "new"
  /\ req' = [req EXCEPT ![q] = [pc |-> "insert", table |-> t, fit |-> fit,
                                maxID |-> Fetched(CounterOf(t))]]
  /\ met' = [p \in Requests |->
               IF p = q THEN Unfinished(CounterOf(t))
               ELSE IF Midway(p) /\ Uses(p, CounterOf(t)) THEN met[p] \cup {q}
               ELSE met[p]]
  /\ UNCHANGED <<rows, max>>

\* The primary key of the table.
Taken(t, id) == \E r \in rows[t] : r.id = id

\* INSERT: its result is not looked at.
Insert(q) ==
  LET t == req[q].table
      id == req[q].maxID
  IN
  /\ req[q].pc = "insert"
  /\ rows' = IF req[q].fit /\ ~Taken(t, id)
             THEN [rows EXCEPT ![t] = @ \cup {[id |-> id, by |-> q]}]
             ELSE rows
  /\ req' = [req EXCEPT ![q].pc = "update"]
  /\ UNCHANGED <<max, met>>

\* Mutant of NextId: the new value is computed from the id that was read.
NextIdRead(q) == req[q].maxID + 1

\* SET id = id + 1.
NextId(q) == max[CounterOf(req[q].table)] + 1

\* UPDATE; the page has said by then that the row was added.
Update(q) ==
  /\ req[q].pc = "update"
  /\ max' = [max EXCEPT ![CounterOf(req[q].table)] = NextId(q)]
  /\ req' = [req EXCEPT ![q].pc = "added"]
  /\ UNCHANGED <<rows, met>>

\* The request is cut off: a time limit, a lost connection, a restart.
End(q) ==
  /\ Midway(q)
  /\ req' = [req EXCEPT ![q].pc = "gone"]
  /\ UNCHANGED <<rows, max, met>>

Next ==
  \E q \in Requests :
    \/ \E t \in Tables, fit \in BOOLEAN : Read(q, t, fit)
    \/ Insert(q) \/ Update(q) \/ End(q)

Spec == Init /\ [][Next]_vars
-----------------------------------------------------------------------------
(* Properties.                                                             *)

Ids == {n \in Int : n >= FirstId}

\* The tables hold rows of requests; no id and no counter is below the value
\* that load.sql gave the counter, where the rows it loaded are.
TypeOK ==
  /\ rows \in [Tables -> SUBSET [id : Ids, by : Requests]]
  /\ max \in [Counters -> Ids]
  /\ req \in [Requests -> [pc : {"new", "insert", "update", "added", "gone"},
                           table : Tables, fit : BOOLEAN, maxID : Ids]]
  /\ met \in [Requests -> SUBSET Requests]

\* A row's id is below the counter, unless it is the counter's and the request
\* that wrote the row has not updated it yet, or never will: the next id is
\* free when no request is on its way, and one later request makes up for each
\* that was cut off, however reads, inserts and updates of the pages mix.
IdsBelowMax ==
  \A t \in Tables : \A r \in rows[t] :
    \/ r.id < max[CounterOf(t)]
    \/ r.id = max[CounterOf(t)] /\ req[r.by].pc \in {"update", "gone"}

Stored(q) == \E r \in rows[req[q].table] : r.by = q

\* A row that fits is lost only if another request for the same counter was on
\* its way at the same time, or was cut off before it and nothing has counted
\* up since.
AloneIsStored ==
  \A q \in Requests :
    req[q].pc \in {"update", "added"} /\ req[q].fit /\ met[q] = {} => Stored(q)

\* A page that says "Added Actor!" (AddActor.php) has added the row that its
\* form described.
AddedIsStored == \A q \in Requests : req[q].pc = "added" /\ req[q].fit => Stored(q)
=============================================================================
