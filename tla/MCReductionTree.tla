---------------------------- MODULE MCReductionTree -----------------------------
(* Instances of the reduction tree for TLC. *)
EXTENDS ReductionTree
================================================================================
