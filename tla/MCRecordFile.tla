---------------------------- MODULE MCRecordFile ----------------------------
(***************************************************************************)
(* RecordFile on small instances: pages of two slots, values that fit,     *)
(* that just fit and that are cut.  An end id never set may be negative,   *)
(* in the file or far behind it.                                           *)
(***************************************************************************)
EXTENDS RecordFile

MCPids == 0 .. 3
MCLengths == 0 .. 2
MCUnset == {[pid |-> p, sid |-> s] : p \in {-1, 0, 2}, s \in {-1, 0, 1, 5}}
=============================================================================
