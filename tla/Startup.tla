--------------------------------- MODULE Startup --------------------------------
(***************************************************************************)
(* The C runtime, snrt_main (sw/runtime/src/start.c) with snrt_alloc_init  *)
(* (alloc.h), from the bootrom's WFI to the exit: the host wakes cluster   *)
(* 0, its DM core clears .bss, its core 0 wakes the other clusters, and in *)
(* every cluster the DM core initialises the memory of the other cores     *)
(* between hardware barriers.  In main core 0 of cluster 0 allocates       *)
(* chunks of L3, and all cores may call the all-to-all reduction, which    *)
(* snrt_exit calls to sum up the exit codes (module AllToAllReduction).    *)
(***************************************************************************)
EXTENDS AllToAllReduction

CONSTANTS
    MaxAllocs,     \* bound on the calls of snrt_l3_alloc during main
    MainReduces    \* number of reductions that main performs

ASSUME StartupAssumption ==
    /\ NumClusters \in Nat \ {0} /\ NumCompute \in Nat \ {0}
    /\ MaxAllocs \in Nat /\ MainReduces \in Nat

Core0 == <<0, 0>>

(* What an uninitialised word of memory holds. *)
Garbage == [c \in Cores |-> 2]

VARIABLES
    mcip,          \* per core: the cluster interrupt is pending
    clearing,      \* per core: a write to cl_clint_clear is on its way
    bss,           \* .bss has been cleared
    waking,        \* the loop variable of snrt_wake_up
    copies,        \* per cluster: the cores whose TLS the DMA has still to write
    tls,           \* per core: which parts of its TLS are initialised
    cls,           \* per cluster: which parts of its CLS are initialised
    l3_next,       \* l3_allocator.next, in chunks from its base
    ret,           \* the local ret of core 0 in snrt_l3_alloc
    chunks,        \* history: the chunks of L3 that core 0 got
    tohost         \* the word the exit code is written to: bits 31 to 1, and bit 0

mem  == <<bss, tls, cls, copies>>
irqs == <<mcip, clearing>>
heap == <<l3_next, ret, chunks>>
run  == <<sums, tohost>>
vars == <<pc, irqs, waking, mem, heap, run>>

(* The stages of snrt_main, in order of execution; a stage "hw ..." is a stall in
   the hardware barrier. *)
AfterBarrier(c) ==
    CASE pc[c] = "hw_bss"   -> "wake"    [] pc[c] = "hw_wake" -> "clear"
      [] pc[c] = "hw_tls"   -> "cls"     [] pc[c] = "hw_cls"  -> "alloc"
      [] pc[c] = "hw_alloc" -> "libs"    [] pc[c] = "hw_pre"  -> "main"
      [] pc[c] = "hw_post"  -> "exit"    [] pc[c] = "hw_copy" -> "return"
      [] pc[c] = "hw_sum"   -> IF IsDm(c) THEN "global" ELSE "hw_copy"

InBarrier == {"hw_bss", "hw_wake", "hw_tls", "hw_cls", "hw_alloc", "hw_pre",
              "hw_post", "hw_sum", "hw_copy"}

(* All cores wait in the bootrom; the host has set the interrupt of cluster 0. *)
Init ==
    /\ pc = [c \in Cores |-> "park"]
    /\ mcip = [c \in Cores |-> c[1] = 0]
    /\ clearing = [c \in Cores |-> FALSE]
    /\ bss = FALSE
    /\ waking = 0
    /\ copies = [k \in Clusters |-> {}]
    /\ tls = [c \in Cores |-> [image |-> FALSE, cls_ptr |-> FALSE, libs |-> FALSE]]
    /\ cls = [k \in Clusters |-> [image |-> FALSE, l1_allocator |-> FALSE]]
    /\ l3_next = 0 /\ ret = 0 /\ chunks = <<>>
    /\ reduction = [k \in Clusters |-> Garbage] /\ global = Garbage
    /\ returned = [c \in Cores |-> <<>>]
    /\ tohost = [code |-> Zero, lsb |-> 0]
--------------------------------------------------------------------------------
(* The WFI of the bootrom ends; crt0 calls snrt_main, which clears the reset
   flag of cluster 0 first.  Only cluster 0 enters snrt_init_bss. *)
Resume(c) ==
    /\ mcip[c]
    /\ Goto(c, "park", IF c[1] = 0 THEN "clear0" ELSE "wake")
    /\ UNCHANGED <<irqs, waking, mem, heap, run>>

(* snrt_int_clr_mcip: a posted write, and the wait for its effect *)
ClearReset(c) ==
    /\ Goto(c, "clear0", "poll0") \/ Goto(c, "clear", "poll")
    /\ clearing' = [clearing EXCEPT ![c] = TRUE]
    /\ UNCHANGED <<mcip, waking, mem, heap, run>>

\* Mutant: nobody waits for the interrupt to be cleared
PollResetNot(c) ==
    /\ Goto(c, "poll0", "bss") \/ Goto(c, "poll", "tls")
    /\ UNCHANGED <<irqs, waking, mem, heap, run>>

PollReset(c) ==
    /\ Goto(c, "poll0", "bss") \/ Goto(c, "poll", "tls")
    /\ ~mcip[c]
    /\ UNCHANGED <<irqs, waking, mem, heap, run>>

(* External: the write to cl_clint_clear takes effect. *)
ClearLands(c) ==
    /\ clearing[c]
    /\ clearing' = [clearing EXCEPT ![c] = FALSE]
    /\ mcip' = [mcip EXCEPT ![c] = FALSE]
    /\ UNCHANGED <<pc, waking, mem, heap, run>>

(* The hardware barrier opens when all cores of the cluster stall in it; it
   cannot tell one call from another. *)
HwRelease(k) ==
    /\ \A c \in CoresOf(k) : pc[c] \in InBarrier
    /\ pc' = [c \in Cores |-> IF c \in CoresOf(k) THEN AfterBarrier(c) ELSE pc[c]]
    /\ UNCHANGED <<irqs, waking, mem, heap, run>>

\* Mutant: only the DM core waits in the barrier of snrt_init_bss
InitBssDmOnly(c) ==
    /\ Goto(c, "bss", IF IsDm(c) THEN "hw_bss" ELSE "wake")
    /\ bss' = (bss \/ IsDm(c))
    /\ global' = IF IsDm(c) THEN Zero ELSE global
    /\ UNCHANGED <<irqs, waking, tls, cls, copies, heap, reduction, returned, tohost>>

(* snrt_init_bss *)
InitBss(c) ==
    /\ Goto(c, "bss", "hw_bss")
    /\ bss' = (bss \/ IsDm(c))
    /\ global' = IF IsDm(c) THEN Zero ELSE global
    /\ UNCHANGED <<irqs, waking, tls, cls, copies, heap, reduction, returned, tohost>>

\* Mutant: the loop ends one cluster early
WakeClusterShort ==
    /\ Goto(Core0, "wake", "wake")
    /\ waking < NumClusters
    /\ mcip' = [c \in Cores |-> mcip[c] \/ (c[1] = waking /\ waking \notin {0, NumClusters - 1})]
    /\ waking' = waking + 1
    /\ UNCHANGED <<clearing, mem, heap, run>>

(* snrt_wake_up: core 0 sets the interrupts of all cores of another cluster *)
WakeCluster ==
    /\ Goto(Core0, "wake", "wake")
    /\ waking < NumClusters
    /\ mcip' = [c \in Cores |-> mcip[c] \/ (c[1] = waking /\ waking # 0)]
    /\ waking' = waking + 1
    /\ UNCHANGED <<clearing, mem, heap, run>>

(* the end of core 0's loop, and all other cores, go to the barrier *)
WakeDone(c) ==
    /\ Goto(c, "wake", "hw_wake")
    /\ c = Core0 => waking = NumClusters
    /\ UNCHANGED <<irqs, waking, mem, heap, run>>

(* snrt_init_tls, the DM core: start the DMA transfers of all cores' TLS, its
   own first, and wait for them *)
StartTls(k) ==
    /\ Goto(DmCore(k), "tls", "tls_wait")
    /\ copies' = [copies EXCEPT ![k] = CoresOf(k)]
    /\ UNCHANGED <<irqs, waking, bss, tls, cls, heap, run>>

(* External: the DMA writes the TLS of core c. *)
CopyTls(c) ==
    /\ c \in copies[c[1]]
    /\ IsDm(c) \/ DmCore(c[1]) \notin copies[c[1]]
    /\ copies' = [copies EXCEPT ![c[1]] = @ \ {c}]
    /\ tls' = [tls EXCEPT ![c] = [image |-> TRUE, cls_ptr |-> FALSE, libs |-> FALSE]]
    /\ UNCHANGED <<pc, irqs, waking, bss, cls, heap, run>>

TlsDone(k) ==
    /\ Goto(DmCore(k), "tls_wait", "hw_tls")
    /\ copies[k] = {}
    /\ UNCHANGED <<irqs, waking, mem, heap, run>>

\* Mutant: compute cores do not wait until their TLS is initialised
WaitTlsNot(c) ==
    /\ ~IsDm(c)
    /\ Goto(c, "tls", "cls")
    /\ UNCHANGED <<irqs, waking, mem, heap, run>>

(* snrt_init_tls, the compute cores *)
WaitTls(c) ==
    /\ ~IsDm(c)
    /\ Goto(c, "tls", "hw_tls")
    /\ UNCHANGED <<irqs, waking, mem, heap, run>>

(* snrt_init_cls, the DM core: .cdata and .cbss, and the wait for the DMA *)
CopyCls(k) ==
    /\ Goto(DmCore(k), "cls", "cls_ptr")
    /\ cls' = [cls EXCEPT ![k] = [image |-> TRUE, l1_allocator |-> FALSE]]
    /\ reduction' = [reduction EXCEPT ![k] = Zero]
    /\ UNCHANGED <<irqs, waking, bss, tls, copies, heap, global, returned, tohost>>

(* snrt_init_cls, every core: _cls_ptr, which is in its TLS *)
SetClsPtr(c) ==
    /\ Goto(c, IF IsDm(c) THEN "cls_ptr" ELSE "cls", "hw_cls")
    /\ tls' = [tls EXCEPT ![c].cls_ptr = TRUE]
    /\ UNCHANGED <<irqs, waking, bss, cls, copies, heap, run>>

(* snrt_alloc_init, the DM core of every cluster: its L1 allocator in the CLS,
   then the one L3 allocator in .bss.  It loads _cls_ptr first, and the LSU
   returns responses in order: a posted clear of its interrupt has landed. *)
InitL1Allocator(k) ==
    /\ ~clearing[DmCore(k)]
    /\ Goto(DmCore(k), "alloc", "alloc_l3")
    /\ cls' = [cls EXCEPT ![k].l1_allocator = TRUE]
    /\ UNCHANGED <<irqs, waking, bss, tls, copies, heap, run>>

InitL3Allocator(k) ==
    /\ Goto(DmCore(k), "alloc_l3", "hw_alloc")
    /\ l3_next' = 0
    /\ UNCHANGED <<irqs, waking, mem, ret, chunks, run>>

WaitAlloc(c) ==
    /\ ~IsDm(c)
    /\ Goto(c, "alloc", "hw_alloc")
    /\ UNCHANGED <<irqs, waking, mem, heap, run>>

(* snrt_l1_init, snrt_l3_init, snrt_comm_init: all in the core's own TLS; then
   the barrier before main *)
InitLibs(c) ==
    /\ Goto(c, "libs", "hw_pre")
    /\ tls' = [tls EXCEPT ![c].libs = TRUE]
    /\ UNCHANGED <<irqs, waking, bss, cls, copies, heap, run>>

(* snrt_l3_alloc: ret = alloc->next; alloc->next += size; *)
ReadL3Next ==
    /\ Goto(Core0, "main", "l3_next")
    /\ Len(chunks) < MaxAllocs
    /\ ret' = l3_next
    /\ UNCHANGED <<irqs, waking, mem, l3_next, chunks, run>>

BumpL3Next ==
    /\ Goto(Core0, "l3_next", "main")
    /\ l3_next' = l3_next + 1
    /\ chunks' = Append(chunks, ret)
    /\ UNCHANGED <<irqs, waking, mem, ret, run>>

(* main returns to the barrier behind it *)
MainReturns(c) ==
    /\ Goto(c, "main", "hw_post")
    /\ Len(returned[c]) = MainReduces
    /\ UNCHANGED <<irqs, waking, mem, heap, run>>

(* snrt_global_all_to_all_reduction, called in main and by snrt_exit *)
CallReduction(c) ==
    /\ AddToCluster(c, IF Len(returned[c]) < MainReduces THEN "main" ELSE "exit")
    /\ UNCHANGED <<irqs, waking, mem, heap, tohost>>

ReductionReturns(c) ==
    /\ ReturnResult(c, IF Len(returned[c]) < MainReduces THEN "main"
                       ELSE IF c = Core0 THEN "tohost" ELSE "end")
    /\ UNCHANGED <<irqs, waking, mem, heap, tohost>>

ReductionStep(k) ==
    /\ AddToGlobal(k) \/ CopyBack(k)
    /\ UNCHANGED <<irqs, waking, mem, heap, tohost>>

MeetInReduction == InterClusterBarrier /\ UNCHANGED <<irqs, waking, mem, heap, tohost>>

(* snrt_exit: core 0 writes (exit_code << 1) | 1 to tohost, and parks as all
   other cores do *)
WriteTohost ==
    /\ Goto(Core0, "tohost", "end")
    /\ tohost' = [code |-> returned[Core0][Len(returned[Core0])], lsb |-> 1]
    /\ UNCHANGED <<irqs, waking, mem, heap, sums>>

CoreStep(c) ==
    \/ Resume(c) \/ ClearReset(c) \/ PollReset(c) \/ InitBss(c) \/ WakeDone(c)
    \/ WaitTls(c) \/ SetClsPtr(c) \/ WaitAlloc(c) \/ InitLibs(c) \/ MainReturns(c)
    \/ CallReduction(c) \/ ReductionReturns(c)

DmStep(k) ==
    \/ StartTls(k) \/ TlsDone(k) \/ CopyCls(k) \/ InitL1Allocator(k) \/ InitL3Allocator(k)
    \/ ReductionStep(k)

Core0Step == WakeCluster \/ ReadL3Next \/ BumpL3Next \/ WriteTohost

Finished == \A c \in Cores : pc[c] = "end"

Next ==
    \/ \E c \in Cores : CoreStep(c) \/ ClearLands(c) \/ CopyTls(c)
    \/ \E k \in Clusters : DmStep(k) \/ HwRelease(k)
    \/ Core0Step \/ MeetInReduction
    \/ Finished /\ UNCHANGED vars

Spec == Init /\ [][Next]_vars

(* The machine does not stop while a core can execute, a posted write can land
   or a DMA transfer can complete.  As the start-up has no loop in which one
   actor could run forever, nothing has to be assumed of each of them. *)
FairSpec == Spec /\ WF_vars(Next)
--------------------------------------------------------------------------------
InMain == {"main", "l3_next", "hw_post", "exit", "hw_sum", "global", "icb", "copy",
           "hw_copy", "return", "tohost", "end"}

(* In main a core finds .bss cleared, its whole TLS and the CLS of its cluster
   initialised: no DMA transfer overwrites a TLS after its owner has put its
   CLS pointer or its allocators there. *)
InitialisedBeforeMain ==
    \A c \in Cores : pc[c] \in InMain =>
        /\ bss
        /\ tls[c] = [image |-> TRUE, cls_ptr |-> TRUE, libs |-> TRUE]
        /\ cls[c[1]] = [image |-> TRUE, l1_allocator |-> TRUE]

(* No core of another cluster runs before the DM core of cluster 0 has cleared
   .bss, which holds the counters of the global barrier and the reduction. *)
WokenAfterBss == \A c \in Cores : c[1] # 0 /\ pc[c] # "park" => bss

(* The cores of a cluster that stall in the hardware barrier stall in the same
   call of it, although cluster 0 executes one barrier more than the others. *)
HwBarriersMatch ==
    \A k \in Clusters : \A c, d \in CoresOf(k) :
        pc[c] \in InBarrier /\ pc[d] \in InBarrier => pc[c] = pc[d]

(* In main no core has the reset flag still pending, which would end its first
   WFI ("Clear the reset flag"), and no DM core has a clear on its way that
   would wipe the wake-up of its first global barrier.  Cluster 0 clears twice:
   the second wait sees the flag already gone and does not wait. *)
NoStaleReset ==
    \A c \in Cores : pc[c] \in InMain => ~mcip[c] /\ (IsDm(c) => ~clearing[c])

(* Every core of every cluster comes to its exit. *)
Terminates == <>Finished

(* The host reads the sum of the exit codes of all cores: the words of the
   reduction were cleared before the first core added to them, and nobody
   reads the sum before everybody has added to it. *)
ExitCodeIsTheSum == tohost.lsb = 1 => tohost.code = Total

(* Successive calls of snrt_l3_alloc by one core return different chunks. *)
L3ChunksDisjoint ==
    \A i, j \in 1..Len(chunks) : i # j => chunks[i] # chunks[j]
================================================================================
