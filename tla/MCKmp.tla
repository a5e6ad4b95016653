--------------------------------- MODULE MCKmp ----------------------------------
(* Two regions with loops of up to eight iterations on teams of up to four
   threads: every remainder of the division, and teams larger than the loop.  The
   numbers of arguments are two small ones, one whose case has no break, as many
   as the block has entries, and one beyond the last case. *)
EXTENDS Kmp
================================================================================
