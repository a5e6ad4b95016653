------------------------------- MODULE MCStreams --------------------------------
(* Small instances of the streaming kernels for TLC. *)
EXTENDS GemmKernels, DnnKernels, StencilKernels, MonteCarlo

(* Row-major operands without gaps. *)
Args(M_, N_, K_) == [M |-> M_, N |-> N_, K |-> K_, lda |-> K_, ldb |-> N_, ldc |-> N_, beta |-> 0,
    transa |-> FALSE, transb |-> FALSE, banks |-> FALSE, nc |-> 8, hb |-> 8, setup_ssr |-> TRUE,
    nested |-> TRUE, swap |-> FALSE]
TransB(g) == [g EXCEPT !.transb = TRUE, !.ldb = g.K]
Simd(g)   == [TransB(g) EXCEPT !.swap = TRUE]
Beta(g)   == [g EXCEPT !.beta = 1]

TransA(g) == [g EXCEPT !.transa = TRUE, !.lda = g.M]
Banks(g)  == [g EXCEPT !.banks = TRUE, !.hb = 10, !.lda = 10, !.ldb = 20, !.ldc = 20]
Flat(g)   == [g EXCEPT !.nested = FALSE]
Wide(g)   == [g EXCEPT !.lda = @ + 2, !.ldb = @ + 2, !.ldc = @ + 2]

GemmRuns ==
    LET call(kernel_(_), g) == Gemm(g, kernel_(g))
        g == Args(2, 2, 3)
        t == TransA(Args(1, 2, 3))   \* the kernels read a transposed A right if M = 1
    IN  <<call(gemm_fp64_naive, g), call(gemm_fp64_naive, Beta(TransB(g))), call(gemm_fp64_naive, t),
          call(gemm_fp64_naive, TransB(t)), call(gemm_fp64_naive, Beta(Banks(Args(1, 16, 8)))),
          call(gemm_fp64_opt, Wide(Args(2, 16, 4))), call(gemm_fp64_opt, Beta(Wide(Args(2, 8, 3)))),
          call(gemm_fp64_opt, Flat(Args(2, 8, 3))), call(gemm_fp64_opt, TransB(Args(2, 8, 3))),
          call(gemm_fp64_opt, TransA(Args(1, 8, 3))), call(gemm_fp64_opt, Banks(Args(1, 16, 8))),
          call(gemm_fp32_naive, g), call(gemm_fp32_naive, Beta(TransB(t))),
          call(gemm_fp32_naive_unrolled, Args(1, 2, 4)), call(gemm_fp32_naive_unrolled, Beta(TransB(Args(1, 2, 4)))),
          call(gemm_fp32_naive_unrolled, TransA(Args(1, 2, 4))), call(gemm_fp32_naive_unrolled, Beta(TransB(t))),
          call(gemm_fp32_baseline, TransB(Args(2, 2, 4))), call(gemm_fp32_baseline, Beta(TransB(Args(1, 2, 6)))),
          call(gemm_fp32_opt, Simd(Args(2, 16, 4))), call(gemm_fp32_opt, Beta(Simd(Args(1, 8, 6)))),
          call(gemm_fp16_naive, g), call(gemm_fp16_naive, Beta(TransB(g))),
          call(gemm_fp16_baseline, TransB(Args(2, 2, 4))), call(gemm_fp16_baseline, Beta(TransB(Args(1, 2, 8)))),
          call(gemm_fp16_opt, Simd(Args(2, 8, 4))), call(gemm_fp16_opt, Beta(Simd(Args(1, 8, 8)))),
          call(gemm_fp16_opt_ex, Simd(Args(2, 8, 4))), call(gemm_fp16_opt_ex, Beta(Simd(Args(1, 8, 8)))),
          call(gemm_fp8_naive, g), call(gemm_fp8_naive, Beta(TransB(g))),
          call(gemm_fp8_baseline, TransB(Args(1, 2, 8))), call(gemm_fp8_baseline, Beta(TransB(Args(1, 2, 16)))),
          call(gemm_fp8_opt_ex, Simd(Args(1, 8, 16))), call(gemm_fp8_opt_ex, Beta(Simd(Args(2, 8, 8))))>>

(* Two cores where a kernel's result does not depend on the other core. *)
Syrk_(m_, n_, stride_, beta_) == [m |-> m_, n |-> n_, offset |-> stride_ - 1, stride |-> stride_, beta |-> beta_,
    alpha |-> "alpha", a |-> <<"d", 0>>, at |-> <<"d", m_ * n_>>, c |-> <<"cov", 0>>]
Doit(r_, q_, s_, cores_) == [r |-> r_, q |-> q_, s |-> s_, cores |-> cores_, core |-> cores_ - 1]

VectorRuns ==
    LET s == Syrk_(4, 4, 2, 1)
        v == Syrk_(4, 2, 1, 0)
    IN  <<dot_seq(3), dot_seq_4_acc(8), axpy_naive(5, 1, 2), axpy_opt(6, 1, 2),
          single_core_gemv(FALSE, 2, 3, 4, 1), single_core_gemv(TRUE, 2, 3, 4, 2), single_core_gemv(FALSE, 2, 2, 2, 0),
          SyrkKernel(s, TRUE, syrk_naive(s)), SyrkKernel(s, TRUE, syrk_baseline(s)),
          SyrkKernel(s, FALSE, syrk_opt(s, TRUE)),
          CovarianceKernel(v, TRUE, covariance_naive(v)),
          CovarianceKernel([v EXCEPT !.n = 4, !.at = <<"d", 16>>], TRUE, covariance_baseline([v EXCEPT !.n = 4, !.at = <<"d", 16>>])),
          doitgen_naive(Doit(3, 2, 2, 2)), doitgen_baseline(Doit(2, 1, 4, 2)), doitgen_opt(Doit(4, 2, 4, 2), TRUE),
          ASM_BASE(3), SSR_BASE(3), SSR_UNROLL(8), SCSSR(8)>>

(* Two rows of two blocks. *)
StencilRuns ==
    LET g == [r |-> 1, nx |-> 6, ny |-> 4, nz |-> 4]
        one == [g EXCEPT !.nz = 3]
    IN  <<box3d1r_naive(one), box3d1r_baseline1(one), box3d1r_baseline2(g), box3d1r_baseline3(one),
          box3d1r_baseline4(g), box3d1r_opt1(one), box3d1r_opt2(g),
          j3d27pt_naive(one), j3d27pt_baseline1(one), j3d27pt_baseline2(one), j3d27pt_baseline3(one),
          j3d27pt_baseline4(one), j3d27pt_opt1(one), j3d27pt_opt2(g)>>

DnnRuns == <<transpose_fp64_opt(2, 3, 4), batchnorm_fp64(2, 4, 2, 1, 2)>>

(* The kernels that read back what they stream out, behind a fence or a barrier that
   does not wait for the data mover.  With three batches every buffer of the Monte
   Carlo sums is used again; with rows of eight, layernorm meets words that are late
   only if there are three of them. *)
LongRuns ==
    LET v == Syrk_(4, 2, 1, 0)
    IN  <<calculate_psum_optimized(8, 3, FALSE), calculate_psum_optimized(8, 3, TRUE),
          layernorm_fp32_opt(2, 2, 16, 2, 1), CovarianceKernel(v, FALSE, covariance_opt(v))>>
ShortRow == <<layernorm_fp32_opt(1, 2, 8, 1, 0)>>
OneRow   == <<layernorm_fp32_opt(1, 1, 16, 1, 0)>>

CONSTANTS Queue, FewWords, Words, MoreWords, ChainDepth

(* The stencils and the long ones among the last have the largest state spaces. *)
With(depth_, timed_, runs) == [k \in DOMAIN runs |-> runs[k] @@ [depth |-> depth_, timed |-> timed_]]
AllRuns ==
    With(FewWords, FALSE, StencilRuns) \o With(Words, FALSE, GemmRuns \o VectorRuns \o DnnRuns) \o
    With(FewWords, TRUE, LongRuns) \o With(MoreWords, TRUE, ShortRow) \o With(Words, TRUE, OneRow)

VARIABLES kernel, ipc, fpc, regs, chained, on, cfg, jobs, fifo, mem, stale
INSTANCE Streams WITH Kernels <- AllRuns
=================================================================================
