--------------------------- MODULE AllToAllReduction ----------------------------
(***************************************************************************)
(* snrt_global_all_to_all_reduction (sw/runtime/src/sync.h): every core    *)
(* adds its value to its cluster's word in TCDM, the DM cores add these to *)
(* one global word, meet in snrt_inter_cluster_barrier, and copy the total *)
(* back.  The inter-cluster barrier is taken at its contract, which the    *)
(* module GlobalBarrier establishes: nobody passes before all arrived.     *)
(* The actions share the program counters of the cores with the program    *)
(* that calls the reduction (module Startup); the hardware barriers        *)
(* "hw_sum" and "hw_copy" are released there with all others.              *)
(***************************************************************************)
EXTENDS Integers, Sequences

CONSTANTS
    NumClusters,   \* SNRT_CLUSTER_NUM
    NumCompute     \* compute cores per cluster; the DM core comes after them

Clusters   == 0..(NumClusters - 1)
Cores      == Clusters \X (0..NumCompute)
CoresOf(k) == {k} \X (0..NumCompute)
DmCore(k)  == <<k, NumCompute>>
IsDm(c)    == c = DmCore(c[1])

(* A word that sums are formed in: how often the value of each core is in it. *)
Word       == [Cores -> Nat]
Zero       == [c \in Cores |-> 0]
Value(c)   == [d \in Cores |-> IF d = c THEN 1 ELSE 0]
Plus(v, w) == [d \in Cores |-> v[d] + w[d]]
Total      == [c \in Cores |-> 1]

VARIABLES
    pc,            \* the next access of each core
    reduction,     \* cls()->reduction, one word per cluster
    global,        \* _reduction_result
    returned       \* history: the results each core got, in order of its calls

sums == <<reduction, global, returned>>

Goto(c, from, to) == pc[c] = from /\ pc' = [pc EXCEPT ![c] = to]

(* tmp = __atomic_fetch_add(cluster_result, value); snrt_wait_writeback(tmp);
   then the core stalls in the hardware barrier *)
AddToCluster(c, from) ==
    /\ Goto(c, from, "hw_sum")
    /\ reduction' = [reduction EXCEPT ![c[1]] = Plus(@, Value(c))]
    /\ UNCHANGED <<global, returned>>

(* __atomic_add_fetch(&_reduction_result, *cluster_result) *)
AddToGlobal(k) ==
    /\ Goto(DmCore(k), "global", "icb")
    /\ global' = Plus(global, reduction[k])
    /\ UNCHANGED <<reduction, returned>>

\* Mutant: the DM cores do not wait for each other
InterClusterBarrierNot ==
    /\ \E k \in Clusters : Goto(DmCore(k), "icb", "copy")
    /\ UNCHANGED sums

(* snrt_inter_cluster_barrier() of all DM cores *)
InterClusterBarrier ==
    /\ \A k \in Clusters : pc[DmCore(k)] = "icb"
    /\ pc' = [c \in Cores |-> IF pc[c] = "icb" THEN "copy" ELSE pc[c]]
    /\ UNCHANGED sums

(* *cluster_result = _reduction_result; then the second hardware barrier *)
CopyBack(k) ==
    /\ Goto(DmCore(k), "copy", "hw_copy")
    /\ reduction' = [reduction EXCEPT ![k] = global]
    /\ UNCHANGED <<global, returned>>

(* return *cluster_result; *)
ReturnResult(c, to) ==
    /\ Goto(c, "return", to)
    /\ returned' = [returned EXCEPT ![c] = Append(@, reduction[c[1]])]
    /\ UNCHANGED <<reduction, global>>
--------------------------------------------------------------------------------
(* Every core gets, from each of its calls, the sum of all cores' values
   ("@return The result of the sum reduction."). *)
ReturnsTheSum ==
    \A c \in Cores : \A i \in 1..Len(returned[c]) : returned[c][i] = Total
================================================================================
