-------------------------------- MODULE Cluster ---------------------------------
(***************************************************************************)
(* The cores of one or more clusters running a job (sw/kernels,            *)
(* sw/benchmarks): every core executes its own sequence of operations; DMA *)
(* transfers run beside the core that issued them until snrt_dma_wait_all. *)
(* An operation is an access to memory that lasts from its first to its    *)
(* last step.  What it stores is torn when another access wrote one of its *)
(* locations meanwhile.                                                    *)
(*                                                                         *)
(* Data is symbolic: the content of a location is a sum of products of the *)
(* values the locations held before the job, kept as a set of sequences of *)
(* locations, so that a wrong, stale, lost or doubled operand shows in the *)
(* result whatever the numbers are.                                        *)
(***************************************************************************)
EXTENDS Naturals, Sequences, SequencesExt

CONSTANT Jobs     \* [prog : core -> sequence of operations, expect : output -> content]

VARIABLES
    job,          \* the job that is loaded
    pc,           \* per core, the operation it is at
    active,       \* accesses under way: <<core, index of the operation>>
    torn,         \* those of them that another access disturbed
    mem           \* content of every location the job touches

vars == <<job, pc, active, torn, mem>>

Cores    == DOMAIN job.prog
Op(c, i) == job.prog[c][i]
Ended(c) == pc[c] > Len(job.prog[c])
Is(c, k) == ~Ended(c) /\ Op(c, pc[c]).op = k

(* What an operation reads and writes. *)
Reads(o) ==
    CASE o.op = "dma"     -> {m[1] : m \in o.moves}
      [] o.op = "compute" -> UNION {Range(t) : t \in UNION Range(o.out)}
      [] OTHER            -> {}
Writes(o) ==
    CASE o.op = "dma"     -> {m[2] : m \in o.moves}
      [] o.op = "compute" -> DOMAIN o.out
      [] OTHER            -> {}

Locations(j) == UNION {UNION {Reads(o) \union Writes(o) : o \in Range(j.prog[c])} :
                          c \in DOMAIN j.prog}

(* Symbolic values. *)
Raw(l)  == IF l[1] = "zero" THEN {} ELSE {<<l>>}     \* the zero memory of a cluster adds nothing
Torn    == {<< <<"torn", 0, 0>> >>}
Times(P, Q) == {p \o q : p \in P, q \in Q}
Product(m, t) == FoldLeft(LAMBDA P, l : Times(P, m[l]), {<<>>}, t)
(* A product that is added twice is as wrong as a missing one. *)
Sum(m, terms) ==
    LET s == UNION {Product(m, t) : t \in terms}
    IN  IF Cardinality(s) = MapThenSumSet(LAMBDA t : Cardinality(Product(m, t)), terms)
        THEN s ELSE Torn

Init ==
    /\ job \in Jobs
    /\ pc = [c \in Cores |-> 1]
    /\ active = {}
    /\ torn = {}
    /\ mem = [l \in Locations(job) |-> Raw(l)]

(* Does access a spoil access b, whose locations it writes?  The engine of a
   core reads and writes in the order of issue, so of two transfers of one core
   only the later is at risk, when it reads what the earlier writes. *)
Spoils(a, b) ==
    LET p == Op(a[1], a[2])
        q == Op(b[1], b[2])
    IN  IF a[1] = b[1] /\ p.op = "dma" /\ q.op = "dma" THEN a[2] < b[2] /\ Writes(p) \cap Reads(q) # {}
        ELSE Writes(p) \cap (Reads(q) \union Writes(q)) # {}

Start(c) ==
    LET me == <<c, pc[c]>>
    IN  /\ active' = active \union {me}
        /\ torn' = torn \union {a \in active : Spoils(me, a)}
                        \union {x \in {me} : \E a \in active : Spoils(a, me)}

Finish(a, result) ==
    /\ active' = active \ {a}
    /\ torn' = torn \ {a}
    /\ mem' = [l \in DOMAIN mem |->
                  IF l \notin DOMAIN result THEN mem[l] ELSE IF a \in torn THEN Torn ELSE result[l]]

(* What a transfer leaves at destination l.  Its source must not be overwritten
   by the transfer itself, other than with its own value. *)
Moved(moves, l) ==
    LET s == (CHOOSE m \in moves : m[2] = l)[1]
    IN  IF \E m \in moves : m[2] = s /\ m[1] # s THEN Torn ELSE mem[s]

(* A core computes: one access from its first load to its last store. *)
ComputeBegin(c) ==
    /\ Is(c, "compute") /\ <<c, pc[c]>> \notin active
    /\ Start(c)
    /\ UNCHANGED <<job, pc, mem>>

ComputeEnd(c) ==
    /\ Is(c, "compute") /\ <<c, pc[c]>> \in active
    /\ LET out == Op(c, pc[c]).out
       IN  Finish(<<c, pc[c]>>, [l \in DOMAIN out |-> Sum(mem, out[l])])
    /\ pc' = [pc EXCEPT ![c] = @ + 1]
    /\ UNCHANGED job

(* A transfer is issued and the core goes on. *)
DmaStart(c) ==
    /\ Is(c, "dma")
    /\ Start(c)
    /\ pc' = [pc EXCEPT ![c] = @ + 1]
    /\ UNCHANGED <<job, mem>>

Transfers(c) == {a \in active : a[1] = c /\ Op(c, a[2]).op = "dma"}

(* The transfers of a core end in the order they were issued. *)
DmaEnd(c) ==
    \E a \in Transfers(c) :
        /\ \A b \in Transfers(c) : a[2] <= b[2]
        /\ LET moves == Op(c, a[2]).moves
           IN  Finish(a, [l \in {m[2] : m \in moves} |-> Moved(moves, l)])
        /\ UNCHANGED <<job, pc>>

(* snrt_dma_wait_all *)
DmaWait(c) ==
    /\ Is(c, "wait") /\ Transfers(c) = {}
    /\ pc' = [pc EXCEPT ![c] = @ + 1]
    /\ UNCHANGED <<job, active, torn, mem>>

(* The cores that a barrier waits for leave it together. *)
BarrierRelease ==
    \E c \in Cores :
        /\ Is(c, "barrier")
        /\ LET who == Op(c, pc[c]).who
           IN  /\ \A d \in who : Is(d, "barrier") /\ Op(d, pc[d]).who = who
               /\ pc' = [d \in Cores |-> IF d \in who THEN pc[d] + 1 ELSE pc[d]]
        /\ UNCHANGED <<job, active, torn, mem>>

Done == active = {} /\ \A c \in Cores : Ended(c)

Ending == Done /\ UNCHANGED vars

Step ==
    \/ \E c \in Cores : ComputeBegin(c) \/ ComputeEnd(c) \/ DmaStart(c) \/ DmaEnd(c) \/ DmaWait(c)
    \/ BarrierRelease

Next == Step \/ Ending

(* No core is ever suspended and the engine ends every transfer. *)
Spec == Init /\ [][Next]_vars /\ WF_vars(Step)

---------------------------------------------------------------------------------
(* Shape of the state. *)
TypeOK ==
    /\ \A c \in Cores : pc[c] \in 1..(Len(job.prog[c]) + 1)
    /\ torn \subseteq active
    /\ \A a \in active : a[1] \in Cores /\ a[2] \in 1..pc[a[1]]

(* Double buffering and barriers work: no core computes on a location while
   another core or a transfer writes it, and nobody touches what it is
   writing. *)
ComputeUndisturbed == \A a \in torn : Op(a[1], a[2]).op = "dma"

(* When the job is over every output holds exactly the operands the kernel is
   documented to combine: none stale, none lost, none added twice. *)
OutputsRight == Done => \A l \in DOMAIN job.expect : mem[l] = job.expect[l]

(* Every core reaches the end of its program: the barriers of the compute and
   the DM cores match in number and order. *)
Terminates == <>Done

=================================================================================
