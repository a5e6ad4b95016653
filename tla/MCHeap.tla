--------------------------------- MODULE MCHeap ---------------------------------
(* Instances of the heap for TLC: a heap that some programs of MaxCalls calls
   exhaust and others do not, alignments smaller and larger than the sizes. *)
EXTENDS Heap
================================================================================
