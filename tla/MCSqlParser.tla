---------------------------- MODULE MCSqlParser ----------------------------
(***************************************************************************)
(* SqlParser on small instances.                                           *)
(***************************************************************************)
EXTENDS SqlParser

MCComparators == {T.EQUAL, T.GREATEREQUAL}
=============================================================================
