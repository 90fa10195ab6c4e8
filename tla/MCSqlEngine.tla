---------------------------- MODULE MCSqlEngine ----------------------------
(***************************************************************************)
(* SqlEngine on small instances.                                           *)
(***************************************************************************)
EXTENDS SqlEngine

Line(k, v) == [key |-> k, value |-> v]
LoadedLines == {Line(1, 1), Line(2, 2), Line(3, 1)}

Cond(a, c, v) == [attr |-> a, comp |-> c, value |-> v]

\* No condition; one on which no walk begins; two lower bounds, a lower and
\* an upper one, an equality after a lower bound that it does not meet; and a
\* value that is no match before a key at which the walk stops.
SelectedConds ==
  {<<>>,
   <<Cond(1, "NE", 2)>>,
   <<Cond(1, "GE", 1), Cond(1, "GT", 2)>>,
   <<Cond(1, "LT", 3), Cond(1, "GE", 2)>>,
   <<Cond(2, "EQ", 1), Cond(1, "LE", 2)>>,
   <<Cond(1, "GE", 2), Cond(1, "EQ", 1)>>}
=============================================================================
