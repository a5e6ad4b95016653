--------------------------------- MODULE MCJobs ---------------------------------
(* Small instances of the jobs for TLC. *)
EXTENDS Cluster, DnnJobs

(* One element per tile, one hyperbank, nothing split. *)
Gemm == [a |-> Global("A", 0), b |-> Global("B", 0), c |-> Global("C", 0), load_a |-> TRUE, beta |-> TRUE,
         mt |-> 1, nt |-> 1, kt |-> 1, m |-> 1, n |-> 1, k |-> 1, db |-> FALSE, transb |-> FALSE,
         parallelize_m |-> FALSE, parallelize_k |-> FALSE,
         banks |-> FALSE, hb |-> 0, hyperbanks |-> 1, hyperbank_size |-> 0]
Banks == [Gemm EXCEPT !.mt = 2, !.n = 2, !.k = 2, !.db = TRUE, !.banks = TRUE]

(* Two column blocks of two rows. *)
Fa2 == [dtype |-> "FP32", L |-> 2, S |-> 4, d |-> 1, B_r |-> 1, B_c |-> 2, baseline |-> TRUE]

MCJobs ==
    {axpy_job(4, 2, FALSE, 2), axpy_job(8, 4, TRUE, 2), dot(4, 2),
     syrk_job(4, 1, 2, 2),
     gemm([Gemm EXCEPT !.mt = 2, !.nt = 2, !.kt = 2, !.m = 3, !.n = 2], 1, 2),
     gemm([Gemm EXCEPT !.mt = 2, !.nt = 2, !.kt = 2, !.db = TRUE, !.beta = FALSE], 1, 1),
     gemm([Gemm EXCEPT !.mt = 2, !.nt = 2, !.kt = 1, !.db = TRUE, !.transb = TRUE], 1, 1),
     gemm([Gemm EXCEPT !.mt = 2, !.db = TRUE, !.parallelize_m = TRUE], 2, 1),
     gemm([Gemm EXCEPT !.kt = 2, !.parallelize_k = TRUE], 2, 1),
     gemm([Banks EXCEPT !.hb = 8], 1, 2),
     gemm([Banks EXCEPT !.hb = 12], 1, 2),
     gemm([Banks EXCEPT !.hb = 6, !.hyperbanks = 2, !.hyperbank_size = 24], 1, 2),
     covariance_job(2, 2, 2, TRUE, 1), covariance_job(2, 1, 2, FALSE, 1), covariance_job(2, 1, 1, TRUE, 2),
     doitgen_job(2, 2, 2, 2, 2, TRUE, 1), doitgen_job(2, 1, 1, 1, 1, FALSE, 2),
     correlation_job(2, 2, 2, 1), correlation_job(3, 2, 1, 2),
     atax_job(2, 2, 2, 1), atax_job(3, 2, 1, 2), stencil_main(3, 2), kbpcpa_main(3, 2),
     kmeans_job(1, 2, 1, 1, 2, 1), kmeans_job(1, 2, 1, 1, 1, 2),
     montecarlo_main(2, 2, 2), montecarlo_main(1, 2, 2),
     concat_layer(2, 2, 2, 3, 1), transpose_layer(4, 2, 2), softmax_layer(2, 2, 2, 2),
     layernorm_layer(1, 4, 2, 2, 1, 2), layernorm_layer(2, 4, 1, 4, 2, 1), gelu_layer(4, 2, 1),
     batchnorm_layer(2, 3, 1, 2, 2, 2), batchnorm_layer(2, 2, 2, 1, 1, 1),
     maxpool_layer(2, 1, 2, 2, 1, 2, 2), maxpool_layer(2, 1, 2, 1, 2, 1, 1),
     flashattention_2_layer([Fa2 EXCEPT !.L = 4, !.B_r = 2], 2),
     flashattention_2_layer([Fa2 EXCEPT !.dtype = "FP16", !.B_r = 2, !.d = 2, !.B_c = 1, !.S = 1], 2),
     flashattention_2_layer([Fa2 EXCEPT !.dtype = "FP8", !.baseline = FALSE], 1),
     mha_fp32([Fa2 EXCEPT !.L = 1, !.S = 2, !.B_c = 1], 2, 2, 1), mha_fp32([Fa2 EXCEPT !.S = 1, !.B_c = 1], 1, 2, 1)
     }
=================================================================================
