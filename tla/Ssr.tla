----------------------------------- MODULE Ssr ----------------------------------
(***************************************************************************)
(* The programming interface of the streamers (sw/runtime/src/ssr.h) and   *)
(* the floating-point instructions the kernels are written in, as the      *)
(* operations module Streams executes.  A location is <<array, offset>>,   *)
(* strides are in elements, a register is named by a string.               *)
(***************************************************************************)
EXTENDS Integers, Sequences, SequencesExt, FiniteSetsExt, Bags, TLC

At(p, i) == <<p[1], p[2] + i>>
(* f(0) + ... + f(n - 1) *)
Total(n, f(_)) == LET sum[i \in 0..n] == IF i = 0 THEN 0 ELSE sum[i - 1] + f(i - 1) IN  sum[n]

(* The programming interface: ssr.h.  Bounds are stored minus one, a stride
   relative to where the loops inside it ended. *)
\* Mutant: the strides are stored as they are
RelativeAbsolute(b, s) == [d \in DOMAIN s |-> s[d]]

Relative(b, s) ==
    [d \in DOMAIN s |-> s[d] - Total(d - 1, LAMBDA e : s[e + 1] * (b[e + 1] - 1))]

Config(dm, set) == [op |-> "cfg", dm |-> dm, set |-> set]
snrt_ssr_loop(dm, b, s) == Config(dm, [bound  |-> [d \in DOMAIN b |-> b[d] - 1],
                                       stride |-> Relative(b, s)])

\* Mutant: one element short
snrt_ssr_loop_1dShort(dm, b0, s0)            == snrt_ssr_loop(dm, <<b0 - 1>>, <<s0>>)

snrt_ssr_loop_1d(dm, b0, s0)                 == snrt_ssr_loop(dm, <<b0>>, <<s0>>)
\* Mutant: the bounds of the two loops are exchanged
snrt_ssr_loop_2dSwapped(dm, b0, b1, s0, s1)  == snrt_ssr_loop(dm, <<b1, b0>>, <<s0, s1>>)

snrt_ssr_loop_2d(dm, b0, b1, s0, s1)         == snrt_ssr_loop(dm, <<b0, b1>>, <<s0, s1>>)
snrt_ssr_loop_3d(dm, b0, b1, b2, s0, s1, s2) == snrt_ssr_loop(dm, <<b0, b1, b2>>, <<s0, s1, s2>>)
snrt_ssr_loop_4d(dm, b0, b1, b2, b3, s0, s1, s2, s3) ==
    snrt_ssr_loop(dm, <<b0, b1, b2, b3>>, <<s0, s1, s2, s3>>)

\* Mutant: the count is stored, not the repetitions after the first
snrt_ssr_repeatCount(dm, count) == Config(dm, [repeat |-> count])

snrt_ssr_repeat(dm, count) == Config(dm, [repeat |-> count - 1])
snrt_ssr_read(dm, dim, ptr, lanes) ==
    [op |-> "start", dm |-> dm, write |-> FALSE, dim |-> dim, ptr |-> ptr, lanes |-> lanes, idcs |-> <<>>]
snrt_ssr_write(dm, dim, ptr, lanes) ==
    [op |-> "start", dm |-> dm, write |-> TRUE, dim |-> dim, ptr |-> ptr, lanes |-> lanes, idcs |-> <<>>]
snrt_issr_set_bound(dm, bound) == Config(dm, [bound |-> <<bound - 1>>])
(* Indices of 16 bits (SNRT_SSR_IDXSIZE_U16). *)
snrt_issr_set_ptrs(dm, base, idcs) ==
    [op |-> "start", dm |-> dm, write |-> FALSE, dim |-> 1, ptr |-> base, lanes |-> 1,
     idcs |-> <<>> \o [i \in DOMAIN idcs |-> idcs[i] % 65536]]
snrt_ssr_enable   == [op |-> "ssr", on |-> TRUE]
snrt_ssr_disable  == [op |-> "ssr", on |-> FALSE]
snrt_sc_enable(s)  == [op |-> "chain", regs |-> s]
snrt_sc_disable    == [op |-> "chain", regs |-> {}]
snrt_fpu_fence     == [op |-> "fence"]
builtin_ssr_barrier(dm) == [op |-> "drain", dm |-> dm]    \* the compiler's wait for a data mover

(* Instructions of the FPU. *)
FmaOp(dst, a, b, c, n)     == [op |-> "fma", dst |-> dst, src |-> <<a, b, c>>, lanes |-> n]
Mul(dst, a, b)             == FmaOp(dst, a, b, "zero", 1)
Fmadd(dst, a, b, c)        == FmaOp(dst, a, b, c, 1)
SumOp(dst, x, y, n)        == [op |-> "sum", dst |-> dst, src |-> <<x, y>>, lanes |-> n]
Fadd(dst, a, b)            == SumOp(dst, a, b, 1)
PackOp(dst, at, a, b, n)   == [op |-> "pack", dst |-> dst, src |-> <<a, b>>, at |-> at, lanes |-> n]
Clear(dst)                 == [op |-> "sum", dst |-> dst, src |-> <<"zero", "zero">>, lanes |-> 1]
Load(dst, l, n)            == [op |-> "load", dst |-> dst, src |-> <<>>, loc |-> l, lanes |-> n]
Store(a, l)                == [op |-> "store", src |-> <<a>>, loc |-> l]
Loop(n, Body(_))           == FlattenSeq([i \in 1..n |-> Body(i - 1)])
(* frep.o with operand n runs its body n + 1 times; the core issues it once. *)
Repeated(o)                == "repeated" \in DOMAIN o
Frep(n, body)              == body \o Loop(n, LAMBDA i : [j \in DOMAIN body |-> ("repeated" :> TRUE) @@ body[j]])
When(p, ops)               == IF p THEN ops ELSE <<>>
Fsub(dst, a, b)            == FmaOp(dst, b, "minus", a, 1)
(* A division, a root or another function f of a register, not looked into. *)
Apply(dst, f, a)           == [op |-> "apply", dst |-> dst, src |-> <<a>>, f |-> f]
snrt_cluster_hw_barrier    == [op |-> "barrier"]
(* Loads and stores of the integer core: out[l] is the sequence of locations
   whose sum is stored at l. *)
IntegerStore(out)          == [op |-> "int", out |-> out]

(* A kernel as module Streams runs it: scalar arguments are in registers of
   their own name. *)
Scalars == {"alpha", "beta", "k", "fact", "inv_n", "inv_n_m1", "minus", "div", "one", "two", "three"}
IntegerOp(o) == o.op \in {"cfg", "start", "fence", "barrier", "drain", "int"}
Named(o) == (IF "src" \in DOMAIN o THEN ToSet(o.src) ELSE {}) \union (IF "dst" \in DOMAIN o THEN {o.dst} ELSE {})
Kernel(prog, arrays, expect) ==
    [prog |-> prog, arrays |-> arrays, expect |-> expect,
     regs |-> {"zero"} \union UNION {Named(o) : o \in ToSet(prog)}]

(* Symbolic content: a sum of products of the locations' first contents, as a
   bag of sequences of locations. *)
Raw(l)           == SetToBag({<<l>>})
Applied(f, b)    == Raw(<<f, b>>)
Times(P, Q)      ==
    [t \in {p[1] \o p[2] : p \in (DOMAIN P) \X (DOMAIN Q)} |->
        Total(Len(t) + 1, LAMBDA k : CopiesIn(SubSeq(t, 1, k), P) * CopiesIn(SubSeq(t, k + 1, Len(t)), Q))]
SumOver(n, f(_)) == LET sum[i \in 0..n] == IF i = 0 THEN EmptyBag ELSE sum[i - 1] (+) f(i - 1) IN  sum[n]
Array(a, n)      == {<<a, i>> : i \in 0..(n - 1)}
(* n numbered registers, operations on each of them *)
R(name, i)       == name \o ToString(i)
Each(n, Op(_))   == [i \in 1..n |-> Op(i - 1)]
=================================================================================
