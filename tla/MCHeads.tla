------------------------------- MODULE MCHeads -------------------------------
(* Two branches and two commits: enough for a rename, a forced update, a      *)
(* dangling HEAD and a detached one that is on no branch.                     *)
EXTENDS Heads
CONSTANTS main, side, x, y
==============================================================================
