---------------------------- MODULE MCQueuePage ----------------------------
(* The runs of module QueuePage use it as it is. *)
EXTENDS QueuePage

=============================================================================
