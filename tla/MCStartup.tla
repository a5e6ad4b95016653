-------------------------------- MODULE MCStartup --------------------------------
(* Instances of the start-up for TLC: cluster 0 and one other cluster, each with
   a compute core beside its DM core. *)
EXTENDS Startup
================================================================================
