------------------------------- MODULE MCDataMover ------------------------------
(* Instances of the data mover for TLC.  A ring of two slots wraps within
   MaxTasks tasks; an engine of depth one makes WOULD_BLOCK happen. *)
EXTENDS DataMover
================================================================================
