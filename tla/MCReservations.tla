--------------------------- MODULE MCReservations ---------------------------
(* A namespace, a repository in it, one below it and one below that: containers are at depth 2
   here, so that there is one namespace level above them and two paths inside them. *)
EXTENDS Reservations, TLC
CONSTANTS p1, p2
MCPaths == {<<1>>, <<1, 1>>, <<1, 1, 0>>, <<1, 1, 0, 1>>}
=============================================================================
