---------------------------- MODULE MCShimEvents ----------------------------
(***************************************************************************)
(* Two process ids: ids are reused, and a process of the first action can  *)
(* outlive it.                                                             *)
(***************************************************************************)
EXTENDS ShimEvents

CONSTANTS p1, p2

MCOnePid == {p1}
MCPids == {p1, p2}
=============================================================================
