-------------------------- MODULE MCMovieDatabase --------------------------
(***************************************************************************)
(* MovieDatabase on small instances.  Requests are alike.                  *)
(***************************************************************************)
EXTENDS MovieDatabase, TLC

Alike == Permutations(Requests)
=============================================================================
