---------------------------------- MODULE Heap ----------------------------------
(***************************************************************************)
(* The dynamic memory of one cluster: the allocator in the CLS             *)
(* (snrt_l1_alloc, sw/runtime/src/alloc.h), and the allocators in the TLS  *)
(* (sw/runtime/src/alloc_v2.h), of which every core keeps its own copy.    *)
(* All cores execute the same sequence of allocations, each at its own     *)
(* pace.  With alloc_v2.h they do not synchronise: that their copies agree *)
(* is what makes a chunk "cluster-local".  snrt_l1_alloc is called by one  *)
(* core, without a lock: by the DM core in dm_init, by core 0 in eu_init   *)
(* and omp_init.  The others spin until they find the pointer in a global  *)
(* variable (dm_p_global, eu_p_global, omp_p_global).                      *)
(***************************************************************************)
EXTENDS Integers, Sequences

CONSTANTS
    NumCompute,    \* compute cores; the DM core comes after them
    Base, End,     \* the heap: base and end of the L1 allocators of alloc_v2.h
    L3Base, L3End, \* base and end of the L3 allocators of alloc_v2.h
    AddrMod,       \* number of addresses (2^32 in the code)
    MinChunk,      \* MIN_CHUNK_SIZE
    Sizes, Aligns, \* sizes and alignments the program asks for
    MaxCalls,      \* length of the program
    Mixed          \* TRUE: the program uses both kinds of L1 allocators

ASSUME HeapAssumption ==
    /\ NumCompute \in Nat \ {0} /\ MinChunk \in Nat \ {0}
    /\ Base \in Nat /\ End \in Nat /\ Base % MinChunk = 0 /\ Base <= End
    /\ L3Base \in Nat /\ L3End \in Nat /\ L3Base <= L3End
    /\ AddrMod \in Nat /\ End < AddrMod /\ L3End < AddrMod
    /\ Sizes \subseteq Nat \ {0} /\ Aligns \subseteq Nat \ {0}
    /\ MaxCalls \in Nat /\ Mixed \in BOOLEAN

(* The allocators compute with 32 bits.  A call that starts within the heap, and
   all calls of snrt_l1_alloc together, stay below 2^32, where the model's numbers
   and the code's are the same. *)
ASSUME NoWrapAssumption ==
    \A size \in Sizes, align \in Aligns :
        /\ End + align + size * NumCompute <= AddrMod
        /\ L3End + align + size <= AddrMod
        /\ Base + MaxCalls * (size + MinChunk) <= AddrMod

Cores   == 0..NumCompute
Compute == 0..(NumCompute - 1)

VARIABLES
    prog,          \* the calls of the program
    v1_next,       \* cls()->l1_allocator.next
    ret,           \* per core: what it has read from it, inside snrt_l1_alloc
    l1, l3,        \* per core: l1_allocator_v2.next and l3_allocator_v2.next
    ptr,           \* per core: what its calls have returned
    trapped        \* per core: it has executed the ecall of a bounds check

vars == <<prog, v1_next, ret, l1, l3, ptr, trapped>>

(* snrt_l1_alloc on core 0 and on the DM core, and the calls of alloc_v2.h. *)
V1    == {"v1", "v1_dm"}
Kinds == V1 \cup {"cluster", "core", "l3"}
Calls == [kind : Kinds, size : Sizes, align : Aligns]

Caller(call) == IF call.kind = "v1_dm" THEN NumCompute ELSE 0
NoRet        == -1

(* snrt_l1_init and snrt_l3_init on every core, snrt_alloc_init on the DM core.
   A program uses one kind of L1 allocators or, if Mixed, both. *)
Init ==
    /\ prog \in [1..MaxCalls -> Calls]
    /\ \/ Mixed
       \/ \A i \in DOMAIN prog : prog[i].kind \in V1
       \/ \A i \in DOMAIN prog : prog[i].kind \notin V1
    /\ v1_next = Base
    /\ ret = [c \in Cores |-> NoRet]
    /\ l1 = [c \in Cores |-> Base]
    /\ l3 = [c \in Cores |-> L3Base]
    /\ ptr = [c \in Cores |-> <<>>]
    /\ trapped = [c \in Cores |-> FALSE]

(* snrt_align_up with base 0 *)
AlignUp(addr, size) == ((addr + size - 1) \div size) * size

Pc(c)   == Len(ptr[c]) + 1
Call(c) == prog[Pc(c)]

Runs(c, kinds) == Pc(c) <= MaxCalls /\ ~trapped[c] /\ Call(c).kind \in kinds

Returns(c, p) == ptr' = [ptr EXCEPT ![c] = Append(@, p)]
--------------------------------------------------------------------------------
(* snrt_l1_alloc: ret = alloc->next; ... *)
L1AllocRead(c) ==
    /\ Runs(c, V1) /\ c = Caller(Call(c)) /\ ret[c] = NoRet
    /\ ret' = [ret EXCEPT ![c] = v1_next]
    /\ UNCHANGED <<prog, v1_next, l1, l3, ptr, trapped>>

(* ... alloc->next += size; return ret.  There is no bounds check.  The caller
   publishes the pointer. *)
L1AllocWrite(c) ==
    /\ Runs(c, V1) /\ ret[c] # NoRet
    /\ v1_next' = ret[c] + AlignUp(Call(c).size, MinChunk)
    /\ Returns(c, ret[c])
    /\ ret' = [ret EXCEPT ![c] = NoRet]
    /\ UNCHANGED <<prog, l1, l3, trapped>>

\* Mutant: the pointer is published before the allocator has advanced
SkipL1AllocEarly(c) ==
    /\ Runs(c, V1) /\ c # Caller(Call(c))
    /\ LET k == Caller(Call(c))
       IN  \/ Pc(c) <= Len(ptr[k]) /\ Returns(c, ptr[k][Pc(c)])
           \/ Pc(c) = Pc(k) /\ ret[k] # NoRet /\ Returns(c, ret[k])
    /\ UNCHANGED <<prog, v1_next, ret, l1, l3, trapped>>

(* The other cores: while (!dm_p_global); dm_p = dm_p_global; and its likes *)
SkipL1Alloc(c) ==
    /\ Runs(c, V1) /\ c # Caller(Call(c))
    /\ LET k == Caller(Call(c))
       IN  Pc(c) <= Len(ptr[k]) /\ Returns(c, ptr[k][Pc(c)])
    /\ UNCHANGED <<prog, v1_next, ret, l1, l3, trapped>>

\* Mutant: the bounds are checked before the chunk is added
L1AllocClusterLocalEarlyCheck(c) ==
    /\ Runs(c, {"cluster"})
    /\ LET p == AlignUp(l1[c], Call(c).align)
       IN  /\ l1' = [l1 EXCEPT ![c] = p + Call(c).size]
           /\ Returns(c, p)
           /\ trapped' = [trapped EXCEPT ![c] = p > End]
    /\ UNCHANGED <<prog, v1_next, ret, l3>>

(* snrt_l1_alloc_cluster_local, with snrt_l1_alloc_check_bounds *)
L1AllocClusterLocal(c) ==
    /\ Runs(c, {"cluster"})
    /\ LET p == AlignUp(l1[c], Call(c).align)
       IN  /\ l1' = [l1 EXCEPT ![c] = p + Call(c).size]
           /\ Returns(c, p)
           /\ trapped' = [trapped EXCEPT ![c] = p + Call(c).size > End]
    /\ UNCHANGED <<prog, v1_next, ret, l3>>

\* Mutant: the DM core, which gets no chunk, does not advance its allocator
L1AllocCoreLocalNoDm(c) ==
    /\ Runs(c, {"core"})
    /\ LET p == AlignUp(l1[c], Call(c).align)
           q == IF c \in Compute THEN p + Call(c).size * NumCompute ELSE l1[c]
       IN  /\ l1' = [l1 EXCEPT ![c] = q]
           /\ Returns(c, p + Call(c).size * c)
           /\ trapped' = [trapped EXCEPT ![c] = q > End]
    /\ UNCHANGED <<prog, v1_next, ret, l3>>

\* Mutant: the allocator advances by one chunk instead of one per compute core
L1AllocCoreLocalOne(c) ==
    /\ Runs(c, {"core"})
    /\ LET p == AlignUp(l1[c], Call(c).align)
           q == p + Call(c).size
       IN  /\ l1' = [l1 EXCEPT ![c] = q]
           /\ Returns(c, p + Call(c).size * c)
           /\ trapped' = [trapped EXCEPT ![c] = q > End]
    /\ UNCHANGED <<prog, v1_next, ret, l3>>

(* snrt_l1_alloc_compute_core_local *)
L1AllocCoreLocal(c) ==
    /\ Runs(c, {"core"})
    /\ LET p == AlignUp(l1[c], Call(c).align)
           q == p + Call(c).size * NumCompute
       IN  /\ l1' = [l1 EXCEPT ![c] = q]
           /\ Returns(c, p + Call(c).size * c)
           /\ trapped' = [trapped EXCEPT ![c] = q > End]
    /\ UNCHANGED <<prog, v1_next, ret, l3>>

(* snrt_l3_alloc_v2, with snrt_l3_alloc_check_bounds *)
L3Alloc(c) ==
    /\ Runs(c, {"l3"})
    /\ LET p == AlignUp(l3[c], Call(c).align)
       IN  /\ l3' = [l3 EXCEPT ![c] = p + Call(c).size]
           /\ Returns(c, p)
           /\ trapped' = [trapped EXCEPT ![c] = p + Call(c).size >= L3End]
    /\ UNCHANGED <<prog, v1_next, ret, l1>>

(* snrt_compute_core_local_ptr as core c calls it: the difference of the core
   indices is unsigned and wraps. *)
ComputeCoreLocalPtr(c, p, core_idx, size) ==
    (p + ((core_idx - c) % AddrMod) * size) % AddrMod

(* Who waits for the pointer of a core that has trapped waits forever. *)
Finished == \A c \in Cores : Pc(c) <= MaxCalls /\ ~trapped[c] =>
                Runs(c, V1) /\ c # Caller(Call(c)) /\ trapped[Caller(Call(c))]

Next ==
    \/ \E c \in Cores : L1AllocRead(c) \/ L1AllocWrite(c) \/ SkipL1Alloc(c)
    \/ \E c \in Cores : L1AllocClusterLocal(c) \/ L1AllocCoreLocal(c) \/ L3Alloc(c)
    \/ Finished /\ UNCHANGED vars

Spec == Init /\ [][Next]_vars
--------------------------------------------------------------------------------
Done(c) == 1..(IF trapped[c] THEN Len(ptr[c]) - 1 ELSE Len(ptr[c]))

(* The bytes core c may use after its i-th call.  What a compute-core-local
   allocation returns on the DM core is undefined. *)
Bytes(c, i) ==
    IF prog[i].kind = "core" /\ c \notin Compute THEN {} ELSE ptr[c][i]..(ptr[c][i] + prog[i].size - 1)

Memory(i) == IF prog[i].kind = "l3" THEN "L3" ELSE "L1"

(* Cores that never communicate agree on the heap: a cluster-local chunk has
   the same address on all of them, and snrt_compute_core_local_ptr computes
   the address another compute core got from the same call.  The pointer of
   snrt_l1_alloc reaches all cores. *)
CoresAgree ==
    \A c, d \in Cores : \A i \in Done(c) \cap Done(d) :
        /\ prog[i].kind # "core" => ptr[c][i] = ptr[d][i]
        /\ prog[i].kind = "core" /\ c \in Compute /\ d \in Compute =>
              ComputeCoreLocalPtr(c, ptr[c][i], d, prog[i].size) = ptr[d][i]

(* Two chunks of one memory never overlap, whichever cores got them, except that
   all cores share a cluster-local chunk.  snrt_l1_alloc has no lock: that the DM
   core and core 0 are never in it at the same time is due to the wait for the
   pointer.  The programs use one kind of L1 allocator, alloc.h or alloc_v2.h:
   with both (Mixed) the chunks do overlap. *)
ChunksDisjoint ==
    \A c, d \in Cores : \A i \in Done(c), j \in Done(d) :
        \/ Memory(i) # Memory(j)
        \/ i = j /\ (c = d \/ prog[i].kind # "core")
        \/ Bytes(c, i) \cap Bytes(d, j) = {}

(* A chunk that alloc_v2.h returns without a trap lies within its heap. *)
ChunksInHeap ==
    \A c \in Cores : \A i \in Done(c) :
        CASE prog[i].kind = "l3" -> Bytes(c, i) \subseteq L3Base..(L3End - 1)
          [] prog[i].kind \in V1 -> TRUE
          [] OTHER               -> Bytes(c, i) \subseteq Base..(End - 1)
================================================================================
