---------------------------- MODULE MCBTreeIndex ----------------------------
(* Instances of BTreeIndex for TLC.                                        *)
EXTENDS BTreeIndex

MCKeys2 == 1 .. 2
MCKeys3 == 1 .. 3

\* Searches at a key and below every key.
MCSearch2 == 0 .. 2
MCSearch3 == 0 .. 3
=============================================================================
