----------------------------- MODULE MCSettings -----------------------------
(* Two processes, two directories and a second spelling of the first one. *)
EXTENDS Settings
CONSTANTS p1, p2, a, b, link
MCResolve == [n \in {a, b, link} |-> IF n = link THEN a ELSE n]
MCWritable == {a, b}
=============================================================================
