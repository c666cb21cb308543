----------------------------- MODULE MCStreaming -----------------------------
(* Limits of a few bytes, so that lines, reads, the pipe and the tail end at   *)
(* different places.                                                           *)
EXTENDS Streaming
==============================================================================
