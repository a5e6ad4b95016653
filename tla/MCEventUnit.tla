------------------------------- MODULE MCEventUnit ------------------------------
(* Instances of the event unit for TLC: teams of every size from one thread
   to all of them, in every order. *)
EXTENDS EventUnit
================================================================================
