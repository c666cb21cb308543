---------------------------- MODULE MCScheduler ----------------------------
(* Constants of the TLC runs of modules Scheduler and JobsView. *)
EXTENDS JobsView, TLC

OneDelay == <<1>>
TwoDelays == <<1, 1>>

Symmetry == Permutations(Procs) \cup Permutations(Repos)

=============================================================================
