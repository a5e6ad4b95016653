------------------------------- MODULE GemmKernels ------------------------------
(***************************************************************************)
(* The matrix kernels one core runs (sw/kernels/blas/gemm/src/gemm_fp*.h)  *)
(* as programs of module Streams.  g gives the arguments of a call; nc is  *)
(* the number of compute cores, hb the elements of a hyperbank line.       *)
(***************************************************************************)
EXTENDS Ssr

unroll == 8
A(i) == <<"A", i>>
B(i) == <<"B", i>>
C(i) == <<"C", i>>
c(i)          == R("c", i)
reduce_reg(i) == R("reduce_reg", i)
ForMN(g, Body(_, _)) == Loop(g.M, LAMBDA m : Loop(g.N, LAMBDA n : Body(m, n)))

(* Element i of a row; a bank-partitioned row has nc elements per line. *)
Banked(g, i) == IF g.banks THEN (i \div g.nc) * g.hb + (i % g.nc) ELSE i
(* Reference: C = A * B + beta * C with the operands where the layout has them. *)
AtA(g, m, k) == A(IF g.transa THEN k * g.lda + m ELSE m * g.lda + Banked(g, k))
AtB(g, k, n) == B(IF g.transb THEN n * g.ldb + k ELSE k * g.ldb + Banked(g, n))
AtC(g, m, n) == C(m * g.ldc + Banked(g, n))
Product(g, m, k, n) == IF g.swap THEN Times(Raw(AtB(g, k, n)), Raw(AtA(g, m, k)))
                                 ELSE Times(Raw(AtA(g, m, k)), Raw(AtB(g, k, n)))
Gemm(g, prog) ==
    LET Ms == 0..(g.M - 1)  Ns == 0..(g.N - 1)  Ks == 0..(g.K - 1)
    IN  Kernel(prog,
            {AtA(g, m, k) : m \in Ms, k \in Ks} \union {AtB(g, k, n) : k \in Ks, n \in Ns}
                \union {AtC(g, m, n) : m \in Ms, n \in Ns},
            [l \in {AtC(g, m, n) : m \in Ms, n \in Ns} |->
                LET mn == CHOOSE p \in Ms \X Ns : l = AtC(g, p[1], p[2])
                IN  (IF g.beta = 0 THEN EmptyBag ELSE Raw(l))
                        (+) SumOver(g.K, LAMBDA k : Product(g, mn[1], k, mn[2]))])

---------------------------------------------------------------------------------
(* c0 = beta * C[c_idx] (multiply_opt); for k: c0 += A[a_idx] * B[b_idx];
   C[c_idx] = c0 *)
Dot(g, a_idx(_), b_idx(_), c_idx) ==
    <<IF g.beta = 0 THEN Clear("c0") ELSE Load("c0", C(c_idx), 1)>>
    \o Loop(g.K, LAMBDA k : <<Load("a", A(a_idx(k)), 1), Load("b", B(b_idx(k)), 1),
                              Fmadd("c0", "a", "b", "c0")>>)
    \o <<Store("c0", C(c_idx))>>

gemm_fp64_naive(g) == ForMN(g, LAMBDA m, n :
    CASE ~g.transa /\ ~g.transb ->
            Dot(g, LAMBDA k : m * g.lda + Banked(g, k), LAMBDA k : k * g.ldb + Banked(g, n),
                m * g.ldc + Banked(g, n))
      [] g.transa /\ ~g.transb ->
            Dot(g, LAMBDA k : k * g.M * g.lda + m * g.lda, LAMBDA k : k * g.ldb + n, m * g.ldc + n)
      [] ~g.transa /\ g.transb ->
            Dot(g, LAMBDA k : m * g.lda + k, LAMBDA k : n * g.ldb + k, m * g.ldc + n)
      [] OTHER ->
            Dot(g, LAMBDA k : k * g.M * g.lda + m * g.lda, LAMBDA k : k + n * g.ldb, m * g.ldc + n))

gemm_fp32_naive(g) == ForMN(g, LAMBDA m, n :
    Dot(g, LAMBDA k : IF g.transa THEN k * g.M * g.lda + m * g.lda ELSE k + m * g.lda,
           LAMBDA k : IF g.transb THEN k + n * g.ldb ELSE k * g.ldb + n, m * g.ldc + n))

(* fmul and fadd in place of fmadd *)
DotMulAdd(g, m, n) ==
    <<IF g.beta = 0 THEN Clear("c") ELSE Load("c", C(m * g.ldc + n), 1)>>
    \o Loop(g.K, LAMBDA k : <<Load("ft3", A(m * g.lda + k), 1),
                              Load("ft4", B(IF g.transb THEN n * g.ldb + k ELSE k * g.ldb + n), 1),
                              Mul("ft6", "ft3", "ft4"), Fadd("c", "c", "ft6")>>)
    \o <<Store("c", C(m * g.ldc + n))>>
gemm_fp16_naive(g) == ForMN(g, LAMBDA m, n : DotMulAdd(g, m, n))
gemm_fp8_naive(g)  == ForMN(g, LAMBDA m, n : DotMulAdd(g, m, n))

(* Four partial sums over k; both operands transposed falls back to one. *)
gemm_fp32_naive_unrolled(g) ==
    LET a_idx(m, k) == IF g.transa THEN k * g.M * g.lda + m * g.lda ELSE k + m * g.lda
        b_idx(n, k) == IF g.transb THEN k + n * g.ldb ELSE k * g.ldb + n
    IN  ForMN(g, LAMBDA m, n :
            IF g.transa /\ g.transb
            THEN Dot(g, LAMBDA k : a_idx(m, k), LAMBDA k : b_idx(n, k), m * g.ldc + n)
            ELSE <<IF g.beta = 0 THEN Clear("c0") ELSE Load("c0", C(m * g.ldc + n), 1),
                   Clear("c1"), Clear("c2"), Clear("c3")>>
                 \o Loop((g.K + 3) \div 4, LAMBDA k0 : Loop(4, LAMBDA i :
                        <<Load("a", A(a_idx(m, 4 * k0 + i)), 1), Load("b", B(b_idx(n, 4 * k0 + i)), 1),
                          Fmadd(c(i), "a", "b", c(i))>>))
                 \o <<Fadd("c0", "c0", "c1"), Fadd("c0", "c0", "c2"), Fadd("c0", "c0", "c3"),
                      Store("c0", C(m * g.ldc + n))>>)

---------------------------------------------------------------------------------
(* SIMD kernels without streams: words of A and B are loaded one by one. *)
LoadPair(g, m, n, i, lanes) == <<Load("ft0", A(m * g.lda + i * lanes), lanes),
                                 Load("ft1", B(n * g.ldb + i * lanes), lanes)>>
(* A loop that tests its condition at the end runs at least once. *)
DoWhile(from, to, Body(_)) == Loop(IF to > from THEN to - from ELSE 1, LAMBDA i : Body(from + i))

gemm_fp32_baseline(g) == ForMN(g, LAMBDA m, n :
    (IF g.beta = 0 THEN <<PackOp("ft2", 1, "zero", "zero", 2)>>
     ELSE <<Load("ft2", C(m * g.ldc + n), 1), PackOp("ft2", 1, "ft2", "zero", 2)>>)
    \o LoadPair(g, m, n, 0, 2) \o <<FmaOp("ft3", "ft0", "ft1", "zero", 2)>>
    \o DoWhile(1, g.K \div 2, LAMBDA i : LoadPair(g, m, n, i, 2) \o <<FmaOp("ft3", "ft0", "ft1", "ft3", 2)>>)
    \o <<SumOp("ft2", "ft2", "ft3", 1), Store("ft2", C(m * g.ldc + n))>>)

gemm_fp16_baseline(g) == ForMN(g, LAMBDA m, n :
    (IF g.beta = 0 THEN <<PackOp("ft2", 1, "zero", "zero", 2)>>
     ELSE <<Load("ft2", C(m * g.ldc + n), 1), PackOp("ft2", 1, "ft2", "zero", 2)>>)
    \o DoWhile(0, g.K \div 4, LAMBDA i : LoadPair(g, m, n, i, 4) \o <<FmaOp("ft2", "ft0", "ft1", "ft2", 2)>>)
    \o <<Clear("ft3"), SumOp("ft3", "ft3", "ft2", 1), Store("ft3", C(m * g.ldc + n))>>)

gemm_fp8_baseline(g) == ForMN(g, LAMBDA m, n :
    (IF g.beta = 0 THEN <<PackOp("ft2", 1, "zero", "zero", 2)>>
     ELSE <<Load("ft2", C(m * g.ldc + n), 1), PackOp("ft2", 1, "ft2", "zero", 4)>>)
    \o DoWhile(0, g.K \div 8, LAMBDA i : LoadPair(g, m, n, i, 8) \o <<FmaOp("ft2", "ft0", "ft1", "ft2", 4)>>)
    \o <<Clear("ft3"), SumOp("ft3", "ft3", "ft2", 2), Clear("ft2"), SumOp("ft2", "ft2", "ft3", 1),
         Store("ft2", C(m * g.ldc + n))>>)

---------------------------------------------------------------------------------
(* gemm_fp64_opt: A is streamed through ft0, B through ft1, C through ft2. *)
gemm_fp64_ssr0(g) ==
    IF g.transa THEN snrt_ssr_loop_3d(0, g.K, g.N \div unroll, g.M, g.lda, 0, 8)
    ELSE IF g.banks THEN snrt_ssr_loop_4d(0, g.nc, g.K \div g.nc, g.N \div unroll, g.M, 1, g.hb, 0, g.lda)
    ELSE snrt_ssr_loop_3d(0, g.K, g.N \div unroll, g.M, 1, 0, g.lda)
n_outer_incr(g) == IF g.banks THEN g.hb ELSE unroll
gemm_fp64_ssr1(g) ==
    IF g.transb THEN snrt_ssr_loop_4d(1, unroll, g.K, g.N \div unroll, g.M, g.ldb, 1, g.ldb * unroll, 0)
    ELSE snrt_ssr_loop_4d(1, unroll, g.K, g.N \div unroll, g.M, 1, g.ldb, n_outer_incr(g), 0)
gemm_fp64_ssr(g) ==
    <<gemm_fp64_ssr0(g), snrt_ssr_repeat(0, unroll), gemm_fp64_ssr1(g),
      snrt_ssr_loop_3d(2, unroll, g.N \div unroll, g.M, 1, n_outer_incr(g), g.ldc)>>

Macs(dst(_)) == Each(unroll, LAMBDA i : Fmadd(dst(i), "ft0", "ft1", c(i)))
Muls         == Each(unroll, LAMBDA i : Mul(c(i), "ft0", "ft1"))

(* beta = 0 and a sequencer with nested loops: one frep over all blocks *)
gemm_fp64_nested(g) ==
    Frep((g.M * g.N) \div unroll - 1,
         Muls \o Frep(g.K - 3, Macs(c)) \o Macs(LAMBDA i : "ft2"))
gemm_fp64_loops(g) ==
    Loop(g.M, LAMBDA m : Loop(g.N \div unroll, LAMBDA n0 :
        (IF g.beta = 0 THEN Muls
         ELSE Each(unroll, LAMBDA i : Load(c(i), C(m * g.ldc + n0 * unroll + i), 1)) \o Macs(c))
        \o Frep(g.K - 3, Macs(c)) \o Macs(LAMBDA i : "ft2")))
gemm_fp64_opt(g) ==
    When(g.N >= unroll,
         When(g.setup_ssr, gemm_fp64_ssr(g))
         \o <<snrt_ssr_read(0, 4, A(0), 1), snrt_ssr_read(1, 4, B(0), 1), snrt_ssr_write(2, 3, C(0), 1),
              snrt_ssr_enable>>)
    \o (IF g.nested /\ g.beta = 0 THEN gemm_fp64_nested(g) ELSE gemm_fp64_loops(g))
    \o <<snrt_fpu_fence, snrt_ssr_disable>>

---------------------------------------------------------------------------------
(* The SIMD kernels stream words of several elements of A and of B, which is
   transposed, and store C themselves. *)
SimdSetup(g, lanes) ==
    When(g.N >= unroll,
         When(g.setup_ssr,
              <<snrt_ssr_loop_3d(0, g.K \div lanes, g.N \div unroll, g.M, lanes, 0, g.lda),
                snrt_ssr_repeat(0, unroll),
                snrt_ssr_loop_4d(1, unroll, g.K \div lanes, g.N \div unroll, g.M,
                                 g.ldb, lanes, unroll * g.ldb, 0)>>)
         \o <<snrt_ssr_read(0, 4, A(0), lanes), snrt_ssr_read(1, 4, B(0), lanes), snrt_ssr_enable>>)
Zeros(r(_), n)         == Each(n, LAMBDA i : PackOp(r(i), 1, "zero", "zero", 2))
LoadC(at)              == Each(unroll, LAMBDA i : Load(reduce_reg(i), At(at, i), 1))
PackC(r(_), lanes)     == Each(unroll, LAMBDA i : PackOp(r(i), 1, reduce_reg(i), "zero", lanes))
Dots(acc(_), n)        == Each(unroll, LAMBDA i : FmaOp(c(i), "ft1", "ft0", acc(i), n))
Reduce(to(_), from(_), n) == Each(unroll, LAMBDA i : SumOp(to(i), to(i), from(i), n))

gemm_fp32_block(g, at) ==
    (IF g.beta = 0 THEN Zeros(reduce_reg, unroll) ELSE LoadC(at) \o PackC(reduce_reg, 2))
    \o Dots(LAMBDA i : "zero", 2) \o Frep(g.K \div 2 - 1 - 1, Dots(c, 2))
    \o Reduce(reduce_reg, c, 1)
    \o Each(4, LAMBDA i : PackOp(c(i), 1, reduce_reg(2 * i), reduce_reg(2 * i + 1), 2))
    \o Each(4, LAMBDA i : Store(c(i), At(at, 2 * i)))
(* n counts two per column, the address half of it: the clean-up loop starts at
   twice the first column that is left over. *)
gemm_fp32_opt(g) ==
    SimdSetup(g, 2)
    \o Loop(g.M, LAMBDA m :
        LET n1 == (g.N \div unroll) * unroll * 2
        IN  Loop(g.N \div unroll, LAMBDA n0 : gemm_fp32_block(g, C(m * g.ldc + (n0 * unroll * 2) \div 2)))
            \o <<snrt_ssr_disable>>
            \o When(n1 < g.N, Loop(g.N - n1, LAMBDA i :
                    Dot(g, LAMBDA k : k + m * g.lda, LAMBDA k : k + (n1 + i) * g.ldb, m * g.ldc + n1 + i)))
            \o <<snrt_ssr_enable>>)
    \o <<snrt_ssr_disable>>

SimdLoops(g, Block(_, _)) ==
    Loop(g.M, LAMBDA m : Loop(g.N \div unroll, LAMBDA n0 : Block(g, C(m * g.ldc + n0 * unroll))))
    \o <<snrt_ssr_disable>>

Pack16(r(_)) == <<PackOp("c0", 1, r(0), r(1), 4), PackOp("c0", 3, r(2), r(3), 4),
                  PackOp("c1", 1, r(4), r(5), 4), PackOp("c1", 3, r(6), r(7), 4)>>
gemm_fp16_block(g, at) ==
    (IF g.beta = 0 THEN Zeros(c, unroll) ELSE LoadC(at) \o Zeros(c, unroll) \o PackC(c, 4))
    \o Frep(g.K \div 4 - 1, Dots(c, 4))
    \o Zeros(reduce_reg, unroll) \o Reduce(reduce_reg, c, 2) \o Zeros(c, unroll) \o Reduce(c, reduce_reg, 1)
    \o Pack16(c) \o <<Store("c0", at), Store("c1", At(at, 4))>>
gemm_fp16_opt(g) == SimdSetup(g, 4) \o SimdLoops(g, gemm_fp16_block)

gemm_fp16_ex_block(g, at) ==
    (IF g.beta = 0 THEN Zeros(c, unroll) ELSE LoadC(at) \o Zeros(c, unroll) \o PackC(c, 2))
    \o Frep(g.K \div 4 - 1, Dots(c, 2))
    \o Zeros(reduce_reg, unroll) \o Reduce(reduce_reg, c, 1)
    \o Pack16(reduce_reg) \o <<Store("c0", at), Store("c1", At(at, 4))>>
gemm_fp16_opt_ex(g) == SimdSetup(g, 4) \o SimdLoops(g, gemm_fp16_ex_block)

gemm_fp8_block(g, at) ==
    (IF g.beta = 0 THEN Zeros(c, unroll) ELSE LoadC(at) \o Zeros(c, unroll) \o PackC(c, 4))
    \o Frep(g.K \div 8 - 1, Dots(c, 4))
    \o Zeros(reduce_reg, unroll) \o Reduce(reduce_reg, c, 2) \o Zeros(c, unroll) \o Reduce(c, reduce_reg, 1)
    \o Each(4, LAMBDA i : PackOp("c0", 2 * i + 1, c(2 * i), c(2 * i + 1), 8)) \o <<Store("c0", at)>>
gemm_fp8_opt_ex(g) == SimdSetup(g, 8) \o SimdLoops(g, gemm_fp8_block)
=================================================================================
