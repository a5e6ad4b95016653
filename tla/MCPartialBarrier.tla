---------------------------- MODULE MCPartialBarrier ----------------------------
(* Four harts, an iteration word of two values: the smallest width at which
   consecutive rounds differ, so the wrap-around of the word happens at every
   other round. *)
EXTENDS PartialBarrier
================================================================================
