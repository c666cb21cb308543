---------------------------- MODULE MCIndexInit ----------------------------
(* Three processes, a schema of two statements. *)
EXTENDS IndexInit
CONSTANTS p1, p2, p3
=============================================================================
