---------------------------- MODULE MCInventory ----------------------------
(* Constants of the TLC runs of module Inventory. *)
EXTENDS Inventory

CONSTANTS a, b

Query(hosts, states, down) == [host |-> hosts, state |-> states, descending |-> down]
MCQueries == {Query({}, {}, FALSE), Query({a}, {}, TRUE), Query({b}, {1}, FALSE)}
AllQueries == {Query({}, {}, FALSE), Query({a}, {}, FALSE)}

=============================================================================
