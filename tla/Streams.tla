-------------------------------- MODULE Streams ---------------------------------
(***************************************************************************)
(* One core that runs a streaming kernel.  The integer core programs the   *)
(* data movers (ssr.h) and runs ahead of the FPU, which executes its       *)
(* instructions in order; a data mover fetches ahead of the FPU and stores *)
(* after it.  Reading ft0, ft1 or ft2 with SSRs enabled takes the next     *)
(* element of the stream; a chained register is a queue.                   *)
(*                                                                         *)
(* The hardware is external: what is modelled is how ssr.h programs it and *)
(* what the kernels expect of it.  Data is symbolic, so that a wrong,      *)
(* stale, lost or doubled operand shows in the result whatever the numbers *)
(* are; a register holds a word, the sequence of its SIMD lanes.           *)
(***************************************************************************)
EXTENDS Ssr

CONSTANTS
    Kernels,      \* sequence of kernels (Ssr!Kernel), each with its depth, the words a data
                  \* mover fetches or holds back, and timed: does it read back what it streams out?
    Queue,        \* instructions the core issues ahead of the FPU
    ChainDepth    \* words a chained register queues: the stages of the FPU

VARIABLES
    kernel,       \* the kernel that is loaded
    ipc,          \* instruction the integer core is at
    fpc,          \* instruction the FPU is at, never beyond ipc
    regs,         \* FP registers: queues of words, of length 1 unless chained
    chained,      \* registers in chaining mode
    on,           \* are SSRs enabled?
    cfg,          \* configuration registers of the data movers
    jobs,         \* per data mover: the running job and at most one more
    fifo,         \* per data mover: words between memory and FPU
    mem,          \* content of the locations that were written
    stale         \* history: a location was read that a data mover had still to store

vars == <<kernel, ipc, fpc, regs, chained, on, cfg, jobs, fifo, mem, stale>>

Movers == 0..2
StreamName == [d \in Movers |-> <<"ft0", "ft1", "ft2">>[d + 1]]

---------------------------------------------------------------------------------
(* Locations and symbolic words. *)
Outside     == Raw(<<"outside", 0>>)
Zero        == <<EmptyBag>>
Lane(w, j)  == IF j \in DOMAIN w THEN w[j] ELSE EmptyBag

(* Lane j of the sum of x and the groups of lanes of y. *)
Grouped(x, y, n) ==
    LET g == Len(y) \div n
    IN  [j \in 1..n |-> FoldLeft(LAMBDA s, i : s (+) y[(j - 1) * g + i], Lane(x, j),
                                 [i \in 1..g |-> i])]
(* fmul, fmadd, vfmul, vfmac and vfdotpex *)
Fma(x, y, z, n) ==
    LET k == IF Len(x) > Len(y) THEN Len(x) ELSE Len(y)
    IN  IF k < n THEN [j \in 1..n |-> Lane(z, j)]      \* a factor is zero
        ELSE Grouped(z, [i \in 1..k |-> Times(Lane(x, i), Lane(y, i))], n)
(* vfcpka ... vfcpkd: the low lanes of x and y become lanes at, at + 1 of w *)
Pack(w, at, x, y, n) ==
    [j \in 1..n |-> IF j = at THEN Lane(x, 1) ELSE IF j = at + 1 THEN Lane(y, 1) ELSE Lane(w, j)]

---------------------------------------------------------------------------------
Prog == Kernels[kernel].prog
First(from, P(_)) == CHOOSE p \in from..(Len(Prog) + 1) :
                        /\ p <= Len(Prog) => P(Prog[p])
                        /\ \A q \in from..(p - 1) : ~P(Prog[q])
NextInteger(from) == First(from, IntegerOp)
NextFp(from)      == First(from, LAMBDA i : ~IntegerOp(i))

Init ==
    /\ kernel \in DOMAIN Kernels
    /\ ipc = NextInteger(1)
    /\ fpc = NextFp(1)
    /\ regs = [r \in Kernels[kernel].regs |-> <<IF r \in Scalars THEN <<Raw(<<r, 0>>)>> ELSE Zero>>]
    /\ chained = {}
    /\ on = FALSE
    /\ cfg = [d \in Movers |-> [repeat |-> 0, bound |-> <<0, 0, 0, 0>>, stride |-> <<0, 0, 0, 0>>]]
    /\ jobs = [d \in Movers |-> <<>>]
    /\ fifo = [d \in Movers |-> <<>>]
    /\ mem = <<>>
    /\ stale = FALSE

(* The integer core, and what its instructions do to the data movers. *)
At4(new, old) == [d \in 1..4 |-> IF d \in DOMAIN new THEN new[d] ELSE old[d]]
Set(c, s) == [repeat |-> IF "repeat" \in DOMAIN s THEN s.repeat ELSE c.repeat,
              bound  |-> IF "bound" \in DOMAIN s THEN At4(s.bound, c.bound) ELSE c.bound,
              stride |-> IF "stride" \in DOMAIN s THEN At4(s.stride, c.stride) ELSE c.stride]

(* A job is the start instruction, the configuration it met and how many
   elements are done.  Loops 1..dim run over the bounds, the first innermost;
   a step of loop d adds stride[d] to where the loops inside it ended. *)
size(j, d) == j.cfg.bound[d] + 1
elements(j, d) == LET n[e \in 0..4] == IF e = 0 THEN 1 ELSE n[e - 1] * size(j, e) IN  n[d]
Length(j)  == elements(j, IF j.start.idcs # <<>> THEN 1 ELSE j.start.dim)
Left(j)    == Length(j) - j.done
Address(j) ==
    LET step[d \in 1..4] == j.cfg.stride[d] + Total(d - 1, LAMBDA e : step[e + 1] * j.cfg.bound[e + 1])
    IN  At(j.start.ptr,
           IF j.start.idcs # <<>> THEN j.start.idcs[j.done + 1]
           ELSE Total(j.start.dim, LAMBDA d : step[d + 1] * ((j.done \div elements(j, d)) % size(j, d + 1))))

(* The core gets to its next instruction once those before it are issued. *)
Issued == Cardinality({k \in fpc..(ipc - 1) : ~IntegerOp(Prog[k]) /\ ~Repeated(Prog[k])}) <= Queue
Writes(d) == jobs[d] # <<>> /\ Head(jobs[d]).start.write

(* Configuration writes wait while a second job is pending. *)
Configure ==
    /\ ipc <= Len(Prog)
    /\ ipc' = NextInteger(ipc + 1)
    /\ LET i == Prog[ipc]
       IN  /\ i.op \in {"cfg", "start"}
           /\ Len(jobs[i.dm]) < 2 /\ Issued
           /\ IF i.op = "cfg"
              THEN cfg' = [cfg EXCEPT ![i.dm] = Set(@, i.set)] /\ UNCHANGED jobs
              ELSE /\ jobs' = [jobs EXCEPT ![i.dm] = Append(@, [start |-> i, cfg |-> cfg[i.dm], done |-> 0])]
                   /\ UNCHANGED cfg
    /\ UNCHANGED <<kernel, fpc, regs, chained, on, fifo, mem, stale>>

(* snrt_fpu_fence: the integer core waits for the FPU, not for the words a data
   mover still holds.  Nor does the hardware barrier, for which only other cores
   matter.  The compiler's barrier of a data mover waits until its job is done. *)
Wait ==
    /\ ipc <= Len(Prog)
    /\ LET i == Prog[ipc]
       IN  \/ i.op = "fence" /\ fpc > ipc
           \/ i.op = "barrier"
           \/ i.op = "drain" /\ jobs[i.dm] = <<>> /\ fifo[i.dm] = <<>>
    /\ Issued
    /\ ipc' = NextInteger(ipc + 1)
    /\ UNCHANGED <<kernel, fpc, regs, chained, on, cfg, jobs, fifo, mem, stale>>

(* The data movers. *)
Advance(d) == [jobs EXCEPT ![d] = IF Left(Head(@)) = 1 THEN Tail(@)
                                  ELSE <<[Head(@) EXCEPT !.done = @ + 1]>> \o Tail(@)]
Arrays     == Kernels[kernel].arrays
Word(l, n) == [j \in 1..n |-> LET a == At(l, j - 1)
                               IN  IF a \in DOMAIN mem THEN mem[a] ELSE IF a \in Arrays THEN Raw(a) ELSE Outside]
Put(w, l)  == LET new == {At(l, j - 1) : j \in DOMAIN w} \intersect Arrays
              IN  [a \in DOMAIN mem \union new |-> IF a \in new THEN w[a[2] - l[2] + 1] ELSE mem[a]]

(* The locations whose new words data movers still hold, and a look at some. *)
Span(l, n) == {At(l, k) : k \in 0..(n - 1)}
HeldBy(d)  == LET j == Head(jobs[d])
              IN  UNION {Span(Address([j EXCEPT !.done = @ + k]), j.start.lanes) :
                            k \in {e \in 0..(Len(fifo[d]) - 1) : e < Left(j)}}
Look(ls)   == stale' = (stale \/ \E d \in Movers : Writes(d) /\ fifo[d] # <<>> /\ ls \intersect HeldBy(d) # {})

(* The integer core's own loads and stores. *)
Integer ==
    /\ ipc <= Len(Prog) /\ Prog[ipc].op = "int" /\ Issued
    /\ ipc' = NextInteger(ipc + 1)
    /\ LET out == Prog[ipc].out
           sum(s) == FoldLeft(LAMBDA b, l : b (+) Word(l, 1)[1], EmptyBag, s)
       IN  /\ mem' = [a \in DOMAIN mem \union DOMAIN out |-> IF a \in DOMAIN out THEN sum(out[a]) ELSE mem[a]]
           /\ Look(UNION {ToSet(out[a]) : a \in DOMAIN out})
    /\ UNCHANGED <<kernel, fpc, regs, chained, on, cfg, jobs, fifo>>

Fetch(d) ==
    /\ jobs[d] # <<>> /\ ~Writes(d) /\ Len(fifo[d]) < Kernels[kernel].depth
    /\ jobs' = Advance(d)
    /\ LET j == Head(jobs[d])
       IN  /\ fifo' = [fifo EXCEPT ![d] = Append(@, [word |-> Word(Address(j), j.start.lanes), left |-> j.cfg.repeat])]
           /\ Look(Span(Address(j), j.start.lanes))
    /\ UNCHANGED <<kernel, ipc, fpc, regs, chained, on, cfg, mem>>

Drain(d) ==
    /\ Writes(d) /\ fifo[d] # <<>>
    /\ jobs' = Advance(d)
    /\ mem' = Put(Head(fifo[d]).word, Address(Head(jobs[d])))
    /\ fifo' = [fifo EXCEPT ![d] = Tail(@)]
    /\ UNCHANGED <<kernel, ipc, fpc, regs, chained, on, cfg, stale>>

(* The FPU. *)
Streamed(r) == on /\ r \in Range(StreamName)
MoverOf(r)  == CHOOSE d \in Movers : StreamName[d] = r
Value(r)    == IF Streamed(r) THEN Head(fifo[MoverOf(r)]).word ELSE Head(regs[r])
Uses(i, r)  == r \in ToSet(i.src)
HasDst(i)   == i.op \in {"fma", "sum", "pack", "load", "apply"}

Ready(i) ==
    /\ \A r \in ToSet(i.src) : IF Streamed(r) THEN fifo[MoverOf(r)] # <<>> ELSE regs[r] # <<>>
    /\ HasDst(i) =>
          /\ Streamed(i.dst) => LET d == MoverOf(i.dst)
                                IN  Writes(d) /\ Len(fifo[d]) < Kernels[kernel].depth
          /\ i.dst \in chained => Len(regs[i.dst]) - (IF Uses(i, i.dst) THEN 1 ELSE 0) < ChainDepth

Result(i) ==
    CASE i.op = "fma"  -> Fma(Value(i.src[1]), Value(i.src[2]), Value(i.src[3]), i.lanes)
      [] i.op = "sum"  -> Grouped(Value(i.src[1]), Value(i.src[2]), i.lanes)
      [] i.op = "pack" -> Pack(Head(regs[i.dst]), i.at, Value(i.src[1]), Value(i.src[2]), i.lanes)
      [] i.op = "load" -> Word(i.loc, i.lanes)
      [] i.op = "apply" -> <<Applied(i.f, Value(i.src[1])[1])>>

(* A chained register passes its words on in order, a stream its elements. *)
NewReg(i, r) ==
    LET rest == IF r \in chained /\ Uses(i, r) THEN Tail(regs[r]) ELSE regs[r]
    IN  IF ~HasDst(i) \/ r # i.dst \/ Streamed(r) THEN rest
        ELSE IF r \in chained THEN Append(rest, Result(i)) ELSE <<Result(i)>>

NewFifo(i, d) ==
    LET r == StreamName[d]
        h == Head(fifo[d])
    IN  CASE Streamed(r) /\ Uses(i, r) ->
                 IF h.left = 0 THEN Tail(fifo[d]) ELSE <<[h EXCEPT !.left = @ - 1]>> \o Tail(fifo[d])
          [] Streamed(r) /\ HasDst(i) /\ i.dst = r -> Append(fifo[d], [word |-> Result(i), left |-> 0])
          [] OTHER -> fifo[d]

Arithmetic ==
    /\ fpc <= Len(Prog) /\ fpc < ipc
    /\ fpc' = NextFp(fpc + 1)
    /\ LET i == Prog[fpc]
       IN  /\ i.op \notin {"ssr", "chain"} /\ Ready(i)
           /\ regs' = [r \in DOMAIN regs |-> NewReg(i, r)]
           /\ fifo' = [d \in Movers |-> NewFifo(i, d)]
           /\ mem' = IF i.op = "store" THEN Put(Value(i.src[1]), i.loc) ELSE mem
           /\ Look(IF i.op = "load" THEN Span(i.loc, i.lanes) ELSE {})
    /\ UNCHANGED <<kernel, ipc, chained, on, cfg, jobs>>

(* Enabling and disabling streams and chaining is done in the FPU's order.  A
   register that enters chaining mode is empty, one that leaves it keeps its
   oldest word. *)
Mode ==
    /\ fpc <= Len(Prog) /\ fpc < ipc
    /\ fpc' = NextFp(fpc + 1)
    /\ LET i == Prog[fpc]
       IN  /\ i.op \in {"ssr", "chain"}
           /\ on' = IF i.op = "ssr" THEN i.on ELSE on
           /\ chained' = IF i.op = "chain" THEN i.regs ELSE chained
           /\ regs' = [r \in DOMAIN regs |->
                          IF r \in chained' \ chained THEN <<>>
                          ELSE IF r \in chained \ chained' THEN <<IF regs[r] = <<>> THEN Zero ELSE Head(regs[r])>>
                          ELSE regs[r]]
    /\ UNCHANGED <<kernel, ipc, cfg, jobs, fifo, mem, stale>>

Returned == ipc > Len(Prog) /\ fpc > Len(Prog)
Done == Returned /\ \A d \in Movers : fifo[d] = <<>> /\ jobs[d] = <<>>
Ending == Done /\ UNCHANGED vars

Step == (\E d \in Movers : Fetch(d) \/ Drain(d)) \/ Configure \/ Wait \/ Mode \/ Integer \/ Arithmetic
Next == Step \/ Ending

(* Core, FPU and data movers are never stopped. *)
Spec == Init /\ [][Next]_vars /\ WF_vars(Step)

---------------------------------------------------------------------------------
(* Shape of the state. *)
TypeOK ==
    /\ \A d \in Movers : Len(jobs[d]) <= 2 /\ Len(fifo[d]) <= Kernels[kernel].depth
    /\ \A r \in DOMAIN regs : r \notin chained => Len(regs[r]) = 1
    /\ \A r \in chained : Len(regs[r]) <= ChainDepth
    /\ \A d \in Movers : \A j \in ToSet(jobs[d]) : Left(j) > 0

(* ssr.h: the exact number of elements configured in a stream is consumed, by
   the time the kernel returns: nothing is left for the next kernel to trip
   over. *)
StreamsConsumed ==
    Returned => \A d \in Movers :
        IF Writes(d) THEN Len(jobs[d]) = 1 /\ Left(jobs[d][1]) = Len(fifo[d])
        ELSE jobs[d] = <<>> /\ fifo[d] = <<>>

(* The strides, bounds and indices a kernel programs never lead a data mover
   out of the kernel's operands, also where it fetches ahead. *)
StreamsInBounds ==
    \A d \in Movers : jobs[d] # <<>> =>
        Span(Address(Head(jobs[d])), Head(jobs[d]).start.lanes) \subseteq Arrays

(* Whatever the order of fetches, stores and run-ahead configuration, the
   kernel leaves the sums of products the plain C version computes.  The kernels
   that read back what they stream out do so if the words were stored by then:
   they have a fence in between, which does not wait for data movers. *)
ResultsRight ==
    Done => \/ stale /\ Kernels[kernel].timed
            \/ \A l \in DOMAIN Kernels[kernel].expect : Word(l, 1)[1] = Kernels[kernel].expect[l]

(* No kernel reads a location that a data mover has still to store. *)
NeverStale == ~stale

(* No instruction waits for a stream element that never comes, no store for an
   address, no chained register is over- or underrun. *)
KernelReturns == <>Done
=================================================================================
