---------------------------- MODULE OrderedIndex ----------------------------
(***************************************************************************)
(* What BTreeIndex promises its callers: a list of (key, record) pairs in  *)
(* key order that outlives the process, a cursor that is put behind the    *)
(* keys up to a given one, and a walk from there to the end of the list.   *)
(*                                                                         *)
(* Two things the class leaves to its callers are part of the promise: a   *)
(* first read may return the zero entry and no pair, and nothing is said   *)
(* of a read behind the last pair.                                         *)
(***************************************************************************)
EXTENDS Integers, Sequences, SequencesExt

CONSTANTS Keys, Searched, Rids, ZeroEntry

VARIABLES
  entries,   \* the pairs, in key order
  pending,   \* the pair being inserted, if any
  mode,      \* of the object: "closed", "r" or "w"
  at,        \* how many pairs the cursor has behind it; -1: nowhere
  ret        \* the last result: [op, rc, entry]

vars == <<entries, pending, mode, at, ret>>

Init ==
  /\ entries = <<>>
  /\ pending = {}
  /\ mode = "closed"
  /\ at = -1
  /\ ret = [op |-> "none", rc |-> "OK", entry |-> ZeroEntry]

Sorted(s) == \A i, j \in 1 .. Len(s) : i < j => s[i].key <= s[j].key

Open ==
  /\ mode = "closed"
  /\ mode' \in {"closed", "r", "w"}
  /\ ret'.op = "open"
  /\ ret'.rc = "OK" <=> mode' # "closed"
  /\ UNCHANGED <<entries, pending, at>>

\* An object that is not closed after close() has reported an error.
Close ==
  /\ mode # "closed" /\ pending = {}
  /\ mode' \in {mode, "closed"}
  /\ ret'.op = "close"
  /\ ret'.rc = "OK" <=> mode' = "closed"
  /\ at' = IF mode' = "closed" THEN -1 ELSE at
  /\ UNCHANGED <<entries, pending>>

\* The object goes away; what it had inserted does not.
Drop ==
  /\ pending = {}
  /\ mode' = "closed" /\ at' = -1
  /\ UNCHANGED <<entries, pending, ret>>

Begin(k, r) ==
  /\ mode = "w" /\ pending = {}
  /\ pending' = {[key |-> k, ptr |-> r]}
  /\ UNCHANGED <<entries, mode, at, ret>>

\* The pair appears all at once.  Pairs with the same key may change places.
Appear(e) ==
  /\ e \in pending
  /\ Sorted(entries') /\ Len(entries') = Len(entries) + 1
  /\ ToSet(entries') = ToSet(entries) \cup {e}
  /\ UNCHANGED <<pending, mode, at, ret>>

\* insert() returns 0 only when the pair is in the index.
Finish(e) ==
  /\ e \in pending
  /\ \E i \in 1 .. Len(entries) : entries[i] = e
  /\ pending' = {}
  /\ ret' = [op |-> "insert", rc |-> "OK", entry |-> ZeroEntry]
  /\ UNCHANGED <<entries, mode, at>>

\* Behind the pairs with keys up to k.
Locate(k) ==
  /\ mode = "r"
  /\ at' \in 0 .. Len(entries)
  /\ \A i \in 1 .. Len(entries) : entries[i].key <= k <=> i <= at'
  /\ ret' = [op |-> "locate", rc |-> "OK", entry |-> ZeroEntry]
  /\ UNCHANGED <<entries, pending, mode>>

Forward ==
  /\ mode = "r" /\ at \in 0 .. Len(entries) - 1
  /\ at' = at + 1
  /\ ret' = [op |-> "read", rc |-> "OK", entry |-> entries[at + 1]]
  /\ UNCHANGED <<entries, pending, mode>>

\* The first read after locate() may find only the end of a leaf.
LeafEnd ==
  /\ mode = "r" /\ ret.op = "locate"
  /\ ret'.op = "read"
  /\ ret'.entry \notin {entries[i] : i \in 1 .. Len(entries)}
  /\ UNCHANGED <<entries, pending, mode, at>>

PastEnd ==
  /\ mode = "r" /\ at = Len(entries)
  /\ ret'.op = "read"
  /\ at' \in {at, -1}
  /\ UNCHANGED <<entries, pending, mode>>

Next ==
  \/ Open \/ Close \/ Drop
  \/ \E k \in Keys, r \in Rids : Begin(k, r)
  \/ \E e \in pending : Appear(e) \/ Finish(e)
  \/ \E k \in Searched : Locate(k)
  \/ Forward \/ LeafEnd \/ PastEnd

Spec == Init /\ [][Next]_vars
=============================================================================
