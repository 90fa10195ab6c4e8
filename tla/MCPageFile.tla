----------------------------- MODULE MCPageFile -----------------------------
(***************************************************************************)
(* PageFile on small instances.                                            *)
(***************************************************************************)
EXTENDS PageFile

MCFds1 == 1 .. 1
MCFds2 == 1 .. 2
MCPids0 == 0 .. 0
MCPids1 == 0 .. 1
MCPids2 == 0 .. 2
=============================================================================
