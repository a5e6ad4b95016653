----------------------------- MODULE MCGlobalBarrier ----------------------------
(* Three clusters of one compute and one DM core, a communicator of the first
   two clusters, every sequence of barriers over the two communicators. *)
EXTENDS GlobalBarrier
================================================================================
