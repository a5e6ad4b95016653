---------------------------------- MODULE Kmp -----------------------------------
(***************************************************************************)
(* Parallel loops through the compiler's interface of the OpenMP runtime   *)
(* (sw/runtime/src/omp/kmp.c).  For each region, __kmpc_fork_call copies   *)
(* the microtask pointer and its arguments into kmpc_args, one block for   *)
(* all regions, and has the event unit wake the team; every thread calls   *)
(* the microtask through __microtask_wrapper's switch on the number of     *)
(* arguments; in the microtask it computes its own part of the loop with   *)
(* __kmpc_for_static_init_4.  That each thread enters the wrapper once per *)
(* region is the event unit's part (EventUnit).  The loop over the chunks  *)
(* is generated by the compiler: it runs from *plower to *pupper, clipped  *)
(* to the global upper bound, and advances both by *pstride.               *)
(***************************************************************************)
EXTENDS Integers, Sequences

CONSTANTS
    MaxThreads,    \* largest team, omp->numThreads
    MaxRegions,    \* regions of the program
    Argcs,         \* the numbers of arguments the program's regions have
    MaxArgc,       \* bound on them
    MaxNargs,      \* KMP_FORK_MAX_NARGS, the entries allocated for kmpc_args
    MaxUpper,      \* the upper bounds of the loops are in 0..MaxUpper
    Incrs,         \* loop increments
    Lowers         \* lower bounds of the loops

ASSUME KmpAssumption ==
    /\ MaxThreads \in Nat \ {0} /\ MaxRegions \in Nat \ {0}
    /\ MaxArgc \in Nat /\ 12 <= MaxArgc /\ Argcs \subseteq 0..MaxArgc
    /\ MaxNargs \in 1..MaxArgc
    /\ MaxUpper \in Nat /\ Incrs \subseteq Nat \ {0} /\ Lowers \subseteq Nat

VARIABLES
    phase,         \* the master is outside of regions, in a fork or in a region
    region,        \* the current or last region
    argc,          \* the argument of __kmpc_fork_call
    copied,        \* entries written for this region
    kmpc_args,     \* per entry: the region that wrote it; 0 for anything else
    label,         \* where each thread is: asleep, woken, in the switch, in the microtask
    mine,          \* per thread: the case it is at and the function it has read
    calls,         \* history: per thread, the calls of the microtask in this region
    loop,          \* the loop of the microtask, the same for every thread
    part           \* what each thread has computed: lower, upper, stride, last

vars == <<phase, region, argc, copied, kmpc_args, label, mine, calls, loop, part>>

(* The compiler does not enter a loop without iterations, and passes chunk
   size 1 when none is specified. *)
Loops == {l \in [sched : {"static", "chunked"}, lower : Lowers, upper : 0..MaxUpper,
                 incr : Incrs, chunk : 1..MaxUpper, nbThreads : 1..MaxThreads] :
             l.lower <= l.upper /\ (l.sched = "static" => l.chunk = 1)}

Threads == 0..(loop.nbThreads - 1)

(* The cases of the switch that end in a break. *)
HasBreak == (0..7) \cup {12}

(* The workers sleep in the event loop, the master calls __kmpc_fork_call. *)
Init ==
    /\ phase = "fork" /\ region = 1 /\ copied = 0
    /\ argc \in Argcs
    /\ loop \in Loops
    /\ kmpc_args = [k \in 0..MaxArgc |-> 0]
    /\ label = [t \in Threads |-> "asleep"]
    /\ mine = [t \in Threads |-> [case |-> 0, fn |-> 0]]
    /\ calls = [t \in Threads |-> << >>]
    /\ part = << >>

(* The next region of the program: another microtask on the same team. *)
Fork ==
    /\ phase = "serial" /\ region < MaxRegions
    /\ phase' = "fork" /\ region' = region + 1 /\ copied' = 0
    /\ argc' \in Argcs
    /\ loop' \in {l \in Loops : l.nbThreads = loop.nbThreads}
    /\ calls' = [t \in Threads |-> << >>]
    /\ part' = << >>
    /\ UNCHANGED <<kmpc_args, label, mine>>

(* kmpc_args[0] = microtask; for (i = 1; i <= argc; ++i) kmpc_args[i] = ...;
   nothing bounds i by the size of the block. *)
CopyArgument ==
    /\ phase = "fork" /\ copied <= argc
    /\ kmpc_args' = [kmpc_args EXCEPT ![copied] = region]
    /\ copied' = copied + 1
    /\ UNCHANGED <<phase, region, argc, label, mine, calls, loop, part>>

(* parallelRegion: set the team, wait until the workers sleep (eu_dispatch_push),
   publish the event and wake them (eu_run_empty).  The first word behind the
   block is omp_p->plainTeam.nbThreads. *)
Dispatch ==
    /\ phase = "fork" /\ copied = argc + 1
    /\ \A t \in Threads : label[t] = "asleep"
    /\ phase' = "region"
    /\ kmpc_args' = [kmpc_args EXCEPT ![MaxNargs] = 0]
    /\ label' = [t \in Threads |-> "woken"]
    /\ mine' = [t \in Threads |-> [mine[t] EXCEPT !.case = argc]]
    /\ UNCHANGED <<region, argc, copied, calls, loop, part>>

(* The thread enters __microtask_wrapper(arg, argc) and reads fn = arg[0]. *)
EnterSwitch(t) ==
    /\ label[t] = "woken"
    /\ mine' = [mine EXCEPT ![t].fn = kmpc_args[0]]
    /\ label' = [label EXCEPT ![t] = "case"]
    /\ UNCHANGED <<phase, region, argc, copied, kmpc_args, calls, loop, part>>

(* case c: fn(&gtid, id_addr, p_argv[0], ..., p_argv[c - 1]) *)
RunCase(t) ==
    /\ label[t] = "case" /\ mine[t].case <= 12
    /\ calls' = [calls EXCEPT ![t] =
                    Append(@, [fn |-> mine[t].fn, args |-> [k \in 1..mine[t].case |-> kmpc_args[k]]])]
    /\ label' = [label EXCEPT ![t] = "microtask"]
    /\ UNCHANGED <<phase, region, argc, copied, kmpc_args, mine, loop, part>>

(* default: snrt_exit(-1) enters the hardware barrier of its reduction, which
   never opens: the DM core sleeps in dm_main *)
RunDefault(t) ==
    /\ label[t] = "case" /\ mine[t].case > 12
    /\ label' = [label EXCEPT ![t] = "in_exit"]
    /\ UNCHANGED <<phase, region, argc, copied, kmpc_args, mine, calls, loop, part>>

(* C's remainder takes the sign of the dividend; it is zero exactly when the
   mathematical one is. *)
Divides(d, x) == x % d = 0

(* sched == kmp_sch_static_chunked *)
ChunkedPart(t) ==
    LET span  == loop.incr * loop.chunk
        strd  == span * loop.nbThreads
        lower == loop.lower + span * t
        beginLastChunk == loop.upper - (loop.upper % span)
    IN  [lower |-> lower, upper |-> lower + span - loop.incr, stride |-> strd,
         last |-> Divides(strd, beginLastChunk - lower)]

\* Mutant: the threads without a left-over iteration start right after the plain chunks
StaticPartNoShift(t) ==
    LET loopSize == (loop.upper - loop.lower) \div loop.incr + 1
        quot     == loopSize \div loop.nbThreads
        leftOver == loopSize - quot * loop.nbThreads
        chunk    == IF t < leftOver THEN quot + 1 ELSE quot
        lower    == loop.lower + t * chunk * loop.incr
        upper    == lower + chunk * loop.incr - loop.incr
    IN  [lower |-> lower, upper |-> upper, stride |-> loopSize,
         last |-> upper = loop.upper /\ lower <= loop.upper]

\* Mutant: an empty part that ends at the last iteration is flagged as the last one
StaticPartEmptyLast(t) ==
    LET loopSize == (loop.upper - loop.lower) \div loop.incr + 1
        quot     == loopSize \div loop.nbThreads
        leftOver == loopSize - quot * loop.nbThreads
        chunk    == IF t < leftOver THEN quot + 1 ELSE quot
        lower    == loop.lower + t * chunk * loop.incr + IF t < leftOver THEN 0 ELSE leftOver
        upper    == lower + chunk * loop.incr - loop.incr
    IN  [lower |-> lower, upper |-> upper, stride |-> loopSize, last |-> upper = loop.upper]

(* sched == kmp_sch_static: the first leftOver threads get one iteration more *)
StaticPart(t) ==
    LET loopSize == (loop.upper - loop.lower) \div loop.incr + 1
        quot     == loopSize \div loop.nbThreads
        leftOver == loopSize - quot * loop.nbThreads
        chunk    == IF t < leftOver THEN quot + 1 ELSE quot
        lower    == loop.lower + t * chunk * loop.incr + IF t < leftOver THEN 0 ELSE leftOver
        upper    == lower + chunk * loop.incr - loop.incr
    IN  [lower |-> lower, upper |-> upper, stride |-> loopSize,
         last |-> upper = loop.upper /\ lower <= loop.upper]

(* The microtask calls __kmpc_for_static_init_4, runs its part and returns to
   the switch: either to a break or into the next case. *)
StaticInit(t) ==
    /\ label[t] = "microtask"
    /\ part' = [s \in DOMAIN part \cup {t} |->
                   IF s # t THEN part[s]
                   ELSE IF loop.sched = "chunked" THEN ChunkedPart(t) ELSE StaticPart(t)]
    /\ IF mine[t].case \in HasBreak
       THEN label' = [label EXCEPT ![t] = "asleep"] /\ UNCHANGED mine
       ELSE label' = [label EXCEPT ![t] = "case"] /\ mine' = [mine EXCEPT ![t].case = @ + 1]
    /\ UNCHANGED <<phase, region, argc, copied, kmpc_args, calls, loop>>

\* Mutant: the master does not wait for the workers when its own part is done
JoinMasterOnly ==
    /\ phase = "region" /\ label[0] = "asleep"
    /\ phase' = "serial"
    /\ UNCHANGED <<region, argc, copied, kmpc_args, label, mine, calls, loop, part>>

(* eu_run_empty ends when every thread of the team has returned. *)
Join ==
    /\ phase = "region" /\ \A t \in Threads : label[t] = "asleep"
    /\ phase' = "serial"
    /\ UNCHANGED <<region, argc, copied, kmpc_args, label, mine, calls, loop, part>>

Finished ==
    \/ phase = "serial" /\ region = MaxRegions
    \/ \A t \in Threads : label[t] = "in_exit"

Next ==
    \/ Fork \/ CopyArgument \/ Dispatch \/ Join
    \/ \E t \in Threads : EnterSwitch(t) \/ RunCase(t) \/ RunDefault(t) \/ StaticInit(t)
    \/ Finished /\ UNCHANGED vars

Spec == Init /\ [][Next]_vars
--------------------------------------------------------------------------------
(* All regions share one block for their arguments, and nothing but the end of a
   region tells when it is free: a thread, however slow, calls the function of its
   own region and passes that region's arguments, as far as the block holds them,
   also in the calls of cases it falls through to. *)
OwnArguments ==
    \A t \in Threads : \A i \in DOMAIN calls[t] :
        /\ calls[t][i].fn = region
        /\ argc <= Len(calls[t][i].args)
        /\ \A k \in 1..argc : k < MaxNargs => calls[t][i].args[k] = region

(* The same for all arguments the switch has a case for. *)
AllArguments ==
    \A t \in Threads : \A i \in DOMAIN calls[t] : \A k \in 1..argc : calls[t][i].args[k] = region

(* Every thread of the team calls the microtask once. *)
MicrotaskCalledOnce ==
    phase = "serial" => \A t \in Threads : Len(calls[t]) = 1

(* All threads have run their parts. *)
LoopDone == phase # "fork" /\ \A t \in Threads : label[t] = "asleep"

(* The iterations of the whole loop, and those thread t runs: static loops run
   one chunk, chunked loops advance by the stride; both are clipped to the
   upper bound of the loop. *)
Iterations == {x \in loop.lower..loop.upper : Divides(loop.incr, x - loop.lower)}

RunBy(t) ==
    LET p == part[t]
        chunks == IF loop.sched = "chunked" THEN 0..MaxUpper ELSE {0}
    IN  {x \in 0..loop.upper :
            \E j \in chunks : /\ p.lower + j * p.stride <= x
                              /\ x <= p.upper + j * p.stride
                              /\ Divides(loop.incr, x - p.lower)}

(* The parts of the team cover every iteration of the loop, and no iteration
   is run by two threads or lies outside the loop. *)
PartsPartitionTheLoop ==
    LoopDone => /\ UNION {RunBy(t) : t \in Threads} = Iterations
                /\ \A t, u \in Threads : t # u => RunBy(t) \cap RunBy(u) = {}

(* The "last iteration" flag is raised for the one thread that runs the last
   iteration (its lastprivate variables are copied out). *)
LastFlagIsRight ==
    LoopDone => \A t \in Threads : part[t].last <=> loop.upper \in RunBy(t)
================================================================================
