----------------------------- MODULE ReductionTree ------------------------------
(***************************************************************************)
(* snrt_global_reduction_dma (sw/runtime/src/sync.h): a binary-tree sum    *)
(* over the clusters of a communicator.  At each level a sender's DM core  *)
(* copies its source buffer into the receiver's destination buffer, all    *)
(* clusters meet in snrt_global_barrier, the receiver's compute cores add  *)
(* the destination to the source buffer, and the cores of each cluster     *)
(* meet in the hardware barrier before the next level.  The barriers are   *)
(* taken at their contract (module GlobalBarrier).                         *)
(***************************************************************************)
EXTENDS Integers

CONSTANTS
    Size,          \* comm->size
    NumCompute,    \* compute cores per cluster, each reduces its slice of the buffer
    NumLevels      \* ceil(log2(comm->size))

(* 1 << l *)
Shl[l \in Nat] == IF l = 0 THEN 1 ELSE 2 * Shl[l - 1]

ASSUME TreeAssumption ==
    /\ Size \in Nat /\ Size > 1 /\ NumCompute \in Nat \ {0}
    /\ NumLevels \in Nat \ {0} /\ Shl[NumLevels - 1] < Size /\ Size <= Shl[NumLevels]

Clusters == 0..(Size - 1)
Slices   == 0..(NumCompute - 1)        \* slice i of a buffer is compute core i's

VARIABLES
    src, dst,      \* the buffers: per cluster and slice, how often each cluster's data is in it
    level,         \* the loop variable of each cluster
    phase,         \* where the DM core of each cluster is in the loop body
    core,          \* where each compute core is in the loop body
    overwritten    \* history: a destination buffer was overwritten before it was added

vars == <<src, dst, level, phase, core, overwritten>>

Nothing == [k \in Clusters |-> 0]
Own(k)  == [Nothing EXCEPT ![k] = 1]

(* Every cluster's source buffer holds its own contribution; the destination
   buffers hold nothing. *)
Init ==
    /\ src = [k \in Clusters |-> [i \in Slices |-> Own(k)]]
    /\ dst = [k \in Clusters |-> [i \in Slices |-> Nothing]]
    /\ level = [k \in Clusters |-> 0]
    /\ phase = [k \in Clusters |-> "send"]
    /\ core = [k \in Clusters |-> [i \in Slices |-> "global_barrier"]]
    /\ overwritten = FALSE

IsActive(k, l) == k % Shl[l] = 0
\* Mutant: sender and receiver of a level are told apart by the wrong bit
IsSenderSame(k, l) == k % Shl[l + 2] # 0

IsSender(k, l) == k % Shl[l + 1] # 0

(* is_active && is_sender: snrt_dma_start_1d to dst_buffer of the cluster
   1 << level below, snrt_dma_wait_all *)
Send(k) ==
    /\ phase[k] = "send"
    /\ IsActive(k, level[k]) /\ IsSender(k, level[k])
    /\ LET r == k - Shl[level[k]]
       IN  /\ dst' = [dst EXCEPT ![r] = src[k]]
           /\ overwritten' = (overwritten \/ \E i \in Slices : core[r][i] = "reduce")
    /\ phase' = [phase EXCEPT ![k] = "global_barrier"]
    /\ UNCHANGED <<src, level, core>>

(* Receivers and inactive clusters go to the global barrier at once. *)
SkipSend(k) ==
    /\ phase[k] = "send"
    /\ ~(IsActive(k, level[k]) /\ IsSender(k, level[k]))
    /\ phase' = [phase EXCEPT ![k] = "global_barrier"]
    /\ UNCHANGED <<src, dst, level, core, overwritten>>

(* snrt_global_barrier(comm): opens when every core of every cluster is in it *)
GlobalBarrier ==
    /\ \A k \in Clusters : /\ phase[k] = "global_barrier"
                           /\ \A i \in Slices : core[k][i] = "global_barrier"
    /\ phase' = [k \in Clusters |-> "hw_barrier"]
    /\ core' = [k \in Clusters |-> [i \in Slices |-> "reduce"]]
    /\ UNCHANGED <<src, dst, level, overwritten>>

(* is_active && !is_sender: src_buffer[i] += dst_buffer[i] over the slice of
   compute core i; then the hardware barrier *)
ReduceSlice(k, i) ==
    /\ core[k][i] = "reduce"
    /\ src' = IF IsActive(k, level[k]) /\ ~IsSender(k, level[k])
              THEN [src EXCEPT ![k][i] = [j \in Clusters |-> @[j] + dst[k][i][j]]]
              ELSE src
    /\ core' = [core EXCEPT ![k][i] = "hw_barrier"]
    /\ UNCHANGED <<dst, level, phase, overwritten>>

(* snrt_cluster_hw_barrier() of cluster k alone, and the loop condition *)
NextLevel(k) ==
    /\ phase[k] = "hw_barrier"
    /\ \A i \in Slices : core[k][i] = "hw_barrier"
    /\ level' = [level EXCEPT ![k] = @ + 1]
    /\ LET more == level[k] + 1 < NumLevels
       IN  /\ phase' = [phase EXCEPT ![k] = IF more THEN "send" ELSE "done"]
           /\ core' = [core EXCEPT ![k] =
                          [i \in Slices |-> IF more THEN "global_barrier" ELSE "done"]]
    /\ UNCHANGED <<src, dst, overwritten>>

Finished == \A k \in Clusters : phase[k] = "done"

Next ==
    \/ \E k \in Clusters : Send(k) \/ SkipSend(k) \/ NextLevel(k) \/ \E i \in Slices : ReduceSlice(k, i)
    \/ GlobalBarrier
    \/ Finished /\ UNCHANGED vars

Spec == Init /\ [][Next]_vars
--------------------------------------------------------------------------------
(* When cluster 0 returns, every slice of its source buffer holds the data of
   each cluster of the communicator exactly once. *)
RootHasTheSum ==
    phase[0] = "done" => \A i \in Slices, k \in Clusters : src[0][i][k] = 1

(* The same for any number of levels, as long as no sender of a level
   overwrites a destination buffer that its receiver still has to add for the
   level before: the choice of senders, receivers and partners is right. *)
SumUnlessOverwritten ==
    phase[0] = "done" /\ ~overwritten =>
        \A i \in Slices, k \in Clusters : src[0][i][k] = 1
================================================================================
