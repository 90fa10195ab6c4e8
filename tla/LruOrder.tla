------------------------------ MODULE LruOrder ------------------------------
(***************************************************************************)
(* Least-recently-used replacement with no clock and no slots: the pages   *)
(* that are held, and which of two was used before the other.  PageFile's  *)
(* slots and stamps are checked and proved to implement it.                *)
(***************************************************************************)
EXTENDS Naturals, FiniteSets

CONSTANTS
  Capacity,   \* pages the cache holds
  Keys        \* <<descriptor, page>>

VARIABLES
  held,       \* the pages in the cache
  older       \* pairs of held pages: the first was used before the second

vars == <<held, older>>

Init == held = {} /\ older = {}

\* The cache holds the pages of K and no other.
Keep(K) ==
  /\ held' = K
  /\ older' = older \cap (K \X K)

\* K stays, and k is the page that was used last.
Front(k, K) ==
  /\ held' = K \cup {k}
  /\ older' = (older \cap (K \X K)) \cup (K \X {k})

Oldest(x) == x \in held /\ \A y \in held \ {x} : <<x, y>> \in older

\* A read of a page that is held.
Hit(k) == k \in held /\ Front(k, held \ {k})

\* A read of a page that is not: when there is no room the oldest leaves.
Miss(k) ==
  /\ k \notin held
  /\ \/ Cardinality(held) < Capacity /\ Front(k, held)
     \/ /\ Cardinality(held) = Capacity
        /\ \E x \in held : Oldest(x) /\ Front(k, held \ {x})

\* A write.
Forget(k) == Keep(held \ {k})

\* A close.
ForgetAll(d) == Keep({x \in held : x[1] # d})

Next ==
  \/ \E k \in Keys : Hit(k) \/ Miss(k) \/ Forget(k) \/ ForgetAll(k[1])
  \/ Keep({})    \* the process ends

Spec == Init /\ [][Next]_vars
=============================================================================
