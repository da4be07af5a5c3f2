------------------------------ MODULE MCFSStore ------------------------------
(* Model values for checking FSStore with TLC. *)
EXTENDS FSStore, TLC

CONSTANTS k1, k2, p1, p2

MCKeys == {k1, k2}
MCProcs == {p1, p2}
=============================================================================
