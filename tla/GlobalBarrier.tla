----------------------------- MODULE GlobalBarrier ------------------------------
(***************************************************************************)
(* snrt_global_barrier (sw/runtime/src/sync.h) on a system of clusters:    *)
(* the cores of a cluster meet in the hardware barrier, the DM cores of    *)
(* the communicator's clusters meet in the software barrier                *)
(* snrt_inter_cluster_barrier (shared counter, WFI, cluster interrupts),   *)
(* and the cores of a cluster meet in the hardware barrier again.  All     *)
(* cores run the same sequence of barriers, some over the world            *)
(* communicator and some over one made by snrt_comm_create.                *)
(***************************************************************************)
EXTENDS Integers, FiniteSets

CONSTANTS
    NumClusters,   \* SNRT_CLUSTER_NUM
    NumCompute,    \* compute cores per cluster; the DM core comes after them
    SubSize,       \* the size given to snrt_comm_create
    Rounds         \* bound on the number of barriers the program executes

ASSUME GlobalBarrierAssumption ==
    /\ NumClusters \in Nat \ {0} /\ NumCompute \in Nat /\ Rounds \in Nat
    /\ SubSize \in 1..NumClusters

Clusters == 0..(NumClusters - 1)
Cores    == Clusters \X (0..NumCompute)
CoresOf(k) == {k} \X (0..NumCompute)
DmCore(k)  == <<k, NumCompute>>
IsDm(c)    == c[2] = NumCompute

Comms == {"world", "sub"}
Size(m) == IF m = "world" THEN NumClusters ELSE SubSize      \* comm->size
IsParticipant(k, m) == k < Size(m)                           \* comm->is_participant

VARIABLES
    plan,          \* the communicator of each barrier of the program
    entered,       \* barriers each core has called
    left,          \* barriers each core has returned from
    pc,            \* the next access of each core
    counter,       \* *comm->barrier_ptr
    waking,        \* the loop variable of snrt_wake_clusters, per cluster
    mcip,          \* per DM core: the cluster interrupt is pending
    clearing       \* per DM core: a write to cl_clint_clear is on its way

vars == <<plan, entered, left, pc, counter, waking, mcip, clearing>>

Init ==
    /\ plan \in [1..Rounds -> Comms]
    /\ entered = [c \in Cores |-> 0]
    /\ left = [c \in Cores |-> 0]
    /\ pc = [c \in Cores |-> "outside"]
    /\ counter = [m \in Comms |-> 0]
    /\ waking = [k \in Clusters |-> 0]
    /\ mcip = [k \in Clusters |-> FALSE]
    /\ clearing = [k \in Clusters |-> FALSE]

Comm(k) == plan[entered[DmCore(k)]]      \* the comm argument of the current call

Goto(k, from, to) ==
    /\ pc[DmCore(k)] = from
    /\ pc' = [pc EXCEPT ![DmCore(k)] = to]
--------------------------------------------------------------------------------
(* A core calls snrt_global_barrier and reads the barrier CSR. *)
Enter(c) ==
    /\ pc[c] = "outside"
    /\ entered[c] < Rounds
    /\ entered' = [entered EXCEPT ![c] = @ + 1]
    /\ pc' = [pc EXCEPT ![c] = "hw1"]
    /\ UNCHANGED <<plan, left, counter, waking, mcip, clearing>>

\* Mutant: a compute core skips the second hardware barrier
SecondHwBarrierNot(c) ==
    /\ pc[c] = "second"
    /\ pc' = [pc EXCEPT ![c] = IF IsDm(c) THEN "hw2" ELSE "outside"]
    /\ left' = [left EXCEPT ![c] = IF IsDm(c) THEN @ ELSE @ + 1]
    /\ UNCHANGED <<plan, entered, counter, waking, mcip, clearing>>

(* The second snrt_cluster_hw_barrier of the function. *)
SecondHwBarrier(c) ==
    /\ pc[c] = "second"
    /\ pc' = [pc EXCEPT ![c] = "hw2"]
    /\ UNCHANGED <<plan, entered, left, counter, waking, mcip, clearing>>

(* The barrier hardware releases the cores of a cluster when all of them stall
   on the CSR.  It cannot tell the first barrier of the function from the
   second. *)
HwRelease(k) ==
    /\ \A c \in CoresOf(k) : pc[c] \in {"hw1", "hw2"}
    /\ pc' = [c \in Cores |->
                 IF c \notin CoresOf(k) THEN pc[c]
                 ELSE IF pc[c] = "hw2" THEN "outside"
                 ELSE IF IsDm(c) THEN "icb" ELSE "second"]
    /\ left' = [c \in Cores |->
                   IF c \in CoresOf(k) /\ pc[c] = "hw2" THEN left[c] + 1 ELSE left[c]]
    /\ UNCHANGED <<plan, entered, counter, waking, mcip, clearing>>

(* snrt_inter_cluster_barrier: if (!comm->is_participant) return; *)
SkipNonParticipant(k) ==
    /\ Goto(k, "icb", "second")
    /\ ~IsParticipant(k, Comm(k))
    /\ UNCHANGED <<plan, entered, left, counter, waking, mcip, clearing>>

(* cnt = __atomic_add_fetch(comm->barrier_ptr, 1); if (cnt == comm->size) *)
AddFetch(k) ==
    /\ pc[DmCore(k)] = "icb"
    /\ IsParticipant(k, Comm(k))
    /\ counter' = [counter EXCEPT ![Comm(k)] = @ + 1]
    /\ Goto(k, "icb", IF counter'[Comm(k)] = Size(Comm(k)) THEN "reset" ELSE "wfi")
    /\ UNCHANGED <<plan, entered, left, waking, mcip, clearing>>

\* Mutant: the counter keeps the arrivals of the barrier that ends
ResetCounterNot(k) ==
    /\ Goto(k, "reset", "wake")
    /\ waking' = [waking EXCEPT ![k] = 0]
    /\ UNCHANGED <<plan, entered, left, counter, mcip, clearing>>

(* *(comm->barrier_ptr) = 0; *)
ResetCounter(k) ==
    /\ Goto(k, "reset", "wake")
    /\ counter' = [counter EXCEPT ![Comm(k)] = 0]
    /\ waking' = [waking EXCEPT ![k] = 0]
    /\ UNCHANGED <<plan, entered, left, mcip, clearing>>

\* Mutant: the loop over the clusters does not skip the caller's own
WakeClusterAll(k) ==
    /\ Goto(k, "wake", "wake")
    /\ waking[k] < Size(Comm(k))
    /\ mcip' = [mcip EXCEPT ![waking[k]] = TRUE]
    /\ waking' = [waking EXCEPT ![k] = @ + 1]
    /\ UNCHANGED <<plan, entered, left, counter, clearing>>

(* snrt_wake_clusters, sequential: one store to each other cluster's
   cl_clint_set *)
WakeCluster(k) ==
    /\ Goto(k, "wake", "wake")
    /\ waking[k] < Size(Comm(k))
    /\ mcip' = IF waking[k] = k THEN mcip ELSE [mcip EXCEPT ![waking[k]] = TRUE]
    /\ waking' = [waking EXCEPT ![k] = @ + 1]
    /\ UNCHANGED <<plan, entered, left, counter, clearing>>

WakeDone(k) ==
    /\ Goto(k, "wake", "second")
    /\ waking[k] = Size(Comm(k))
    /\ UNCHANGED <<plan, entered, left, counter, waking, mcip, clearing>>

(* snrt_wfi(): ends when the enabled cluster interrupt is pending *)
WfiEnd(k) ==
    /\ Goto(k, "wfi", "clear")
    /\ mcip[k]
    /\ UNCHANGED <<plan, entered, left, counter, waking, mcip, clearing>>

(* snrt_int_clr_mcip_unsafe(): a posted write *)
ClearMcip(k) ==
    /\ Goto(k, "clear", "poll")
    /\ clearing' = [clearing EXCEPT ![k] = TRUE]
    /\ UNCHANGED <<plan, entered, left, counter, waking, mcip>>

\* Mutant: the unsafe clear is used, nobody waits for it to take effect
PollMcipNot(k) ==
    /\ Goto(k, "poll", "second")
    /\ UNCHANGED <<plan, entered, left, counter, waking, mcip, clearing>>

(* snrt_int_wait_mcip_clr(): while (read_csr(mip) & MIP_MCIP); *)
PollMcip(k) ==
    /\ Goto(k, "poll", "second")
    /\ ~mcip[k]
    /\ UNCHANGED <<plan, entered, left, counter, waking, mcip, clearing>>

(* External: the write to cl_clint_clear takes effect. *)
ClearLands(k) ==
    /\ clearing[k]
    /\ clearing' = [clearing EXCEPT ![k] = FALSE]
    /\ mcip' = [mcip EXCEPT ![k] = FALSE]
    /\ UNCHANGED <<plan, entered, left, pc, counter, waking>>

CoreStep(c) == SecondHwBarrier(c) \/ Enter(c)

DmStep(k) ==
    \/ SkipNonParticipant(k) \/ AddFetch(k) \/ ResetCounter(k) \/ WakeCluster(k)
    \/ WakeDone(k) \/ WfiEnd(k) \/ ClearMcip(k) \/ PollMcip(k)

Finished == \A c \in Cores : left[c] = Rounds

Next ==
    \/ \E c \in Cores : CoreStep(c)
    \/ \E k \in Clusters : HwRelease(k) \/ DmStep(k) \/ ClearLands(k)
    \/ Finished /\ UNCHANGED vars

Spec == Init /\ [][Next]_vars

(* The machine does not stop while a core can execute or a posted write can
   land.  Programs are finite and a poll is enabled once its condition holds, so
   nothing has to be assumed of each core. *)
FairSpec == Spec /\ WF_vars(Next)
--------------------------------------------------------------------------------
PCs == {"outside", "hw1", "icb", "reset", "wake", "wfi", "clear", "poll", "second", "hw2"}

(* No counter exceeds the size of its communicator, so the last arrival is
   always recognised by cnt == comm->size. *)
TypeOK ==
    /\ plan \in [1..Rounds -> Comms]
    /\ entered \in [Cores -> 0..Rounds] /\ left \in [Cores -> 0..Rounds]
    /\ pc \in [Cores -> PCs]
    /\ counter \in [Comms -> 0..NumClusters] /\ \A m \in Comms : counter[m] <= Size(m)
    /\ waking \in [Clusters -> 0..NumClusters]
    /\ mcip \in [Clusters -> BOOLEAN] /\ clearing \in [Clusters -> BOOLEAN]

(* Who synchronises with core c in barrier r: the cores of its own cluster
   and, if its cluster is in the communicator, all cores of that
   communicator's clusters. *)
Peers(c, r) ==
    {d \in Cores : \/ d[1] = c[1]
                   \/ IsParticipant(c[1], plan[r]) /\ IsParticipant(d[1], plan[r])}

(* A core returns from its r-th barrier only after every core it synchronises
   with has called its r-th barrier: hardware barriers, shared counters and
   interrupts of consecutive barriers over different communicators never mix. *)
NobodyPassesEarly ==
    \A c \in Cores : left[c] > 0 => \A d \in Peers(c, left[c]) : entered[d] >= left[c]

(* The cores that stall in a hardware barrier when it opens stall in the same
   one of the two calls. *)
HwBarriersMatch ==
    \A k \in Clusters : \A c, d \in CoresOf(k) : ~(pc[c] = "hw1" /\ pc[d] = "hw2")

(* No stale wake-up: outside a software barrier a DM core has no interrupt
   pending that would end its next WFI before the barrier is complete. *)
NoStaleWakeup ==
    \A k \in Clusters : pc[DmCore(k)] \in {"outside", "hw1", "icb"} => ~mcip[k] /\ ~clearing[k]

(* Global and communicator barriers do not interfere: every program of
   barriers runs to its end. *)
Terminates == <>Finished
================================================================================
