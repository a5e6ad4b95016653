------------------------------- MODULE DnnKernels -------------------------------
(***************************************************************************)
(* The streaming kernels of sw/kernels/dnn as one core runs them, as       *)
(* programs of module Streams.                                             *)
(***************************************************************************)
EXTENDS StreamKernels

In(i)  == <<"in", i>>
Out(i) == <<"out", i>>

---------------------------------------------------------------------------------
(* transpose.h: M rows of N elements; a column of the output has M_stride. *)
transpose_fp64_opt(m, n, M_stride) == Kernel(
    <<snrt_ssr_loop_2d(0, n, m, 1, n), snrt_ssr_loop_2d(1, n, m, M_stride, 1),
      snrt_ssr_read(0, 2, In(0), 1), snrt_ssr_write(1, 2, Out(0), 1), snrt_ssr_enable>>
    \o Frep(m * n - 1, <<SumOp("ft1", "ft0", "zero", 1)>>)
    \o <<snrt_ssr_disable, snrt_fpu_fence>>,
    Array("in", m * n) \union Array("out", n * M_stride),
    [l \in {Out(j * M_stride + i) : i \in Index(m), j \in Index(n)} |->
        Raw(In((l[2] % M_stride) * n + (l[2] \div M_stride)))])

---------------------------------------------------------------------------------
(* batchnorm.h: gamma * x + beta on every cores-th of CI channels, for tiles tiles
   one after the other; the loops are set up for the first of them only. *)
batchnorm_fp64(OW, CI, cores, id, tiles) ==
    LET size == OW * CI
        tile(t) ==
            When(t = 0, <<snrt_ssr_loop_2d(0, OW, CI \div cores, CI, cores),
                          snrt_ssr_loop_2d(1, OW, CI \div cores, CI, cores)>>)
            \o <<snrt_ssr_read(0, 2, In(t * size + id), 1), snrt_ssr_write(1, 2, Out(t * size + id), 1),
                 snrt_ssr_enable>>
            \o For(0, CI, cores, LAMBDA ci :
                   <<Load("g", <<"gamma", id + ci>>, 1), Load("b", <<"beta", id + ci>>, 1)>>
                   \o Frep(OW - 1, <<Fmadd("ft1", "ft0", "g", "b")>>))
            \o <<snrt_fpu_fence, builtin_ssr_barrier(1), snrt_ssr_disable>>
    IN  Kernel(Loop(tiles, tile),
               Array("in", tiles * size) \union Array("out", tiles * size)
                   \union Array("gamma", CI) \union Array("beta", CI),
               [l \in {Out(i) : i \in {j \in Index(tiles * size) : (j % CI) % cores = id}} |->
                   Times(Raw(In(l[2])), Raw(<<"gamma", l[2] % CI>>)) (+) Raw(<<"beta", l[2] % CI>>)])

---------------------------------------------------------------------------------
(* layernorm_fp32.h: x - mean of the row is streamed to the output and read back,
   to be multiplied by the inverse deviation; both passes over the row are one
   write stream.  "mean" stands for minus the mean. *)
layernorm_fp32_opt(batch, seq_len, embeddings, cores, id) ==
    LET unroll == 4
        n_frep == embeddings \div (unroll * 2)
        stride == cores * embeddings
        rows   == seq_len \div cores
        from(b)   == (b * seq_len + id) * embeddings
        four(Op(_)) == Each(unroll, Op)
        reduce(x, tot) == <<Fadd(R(x, 0), R(x, 0), R(x, 1)), Fadd(R(x, 2), R(x, 2), R(x, 3)),
                            Fadd(tot, R(x, 0), R(x, 2))>>
        row(b, s) ==
            four(LAMBDA i : Clear(R("var", i))) \o <<snrt_ssr_enable>>
            \* the mean
            \o four(LAMBDA i : Clear(R("mean", i)))
            \o Frep(n_frep - 1, four(LAMBDA i : SumOp(R("mean", i), R("mean", i), "ft0", 1)))
            \o reduce("mean", "mean_tot") \o <<Apply("mean_tot", "mean", "mean_tot"), snrt_fpu_fence>>
            \* the variance
            \o <<PackOp("mean_reg", 1, "mean_tot", "mean_tot", 2)>>
            \o Frep(n_frep - 1,
                    four(LAMBDA i : SumOp(R("var_reg", i), "ft0", "mean_reg", 2))
                    \o four(LAMBDA i : SumOp("ft1", R("var_reg", i), "zero", 2))
                    \o four(LAMBDA i : FmaOp(R("pow", i), R("var_reg", i), R("var_reg", i), "zero", 2))
                    \o four(LAMBDA i : SumOp(R("var", i), R("var", i), R("pow", i), 1)))
            \o reduce("var", "var_tot") \o <<Apply("var_tot", "inverse_deviation", "var_tot"),
                 PackOp("mean_reg", 1, "var_tot", "var_tot", 2), snrt_fpu_fence>>
            \* the row again
            \o <<snrt_ssr_read(2, 2, Out(from(b) + s * stride), 2)>>
            \o Frep(n_frep - 1, four(LAMBDA i : FmaOp("ft1", "ft2", "mean_reg", "zero", 2)))
            \o <<snrt_ssr_disable>>
        prog == Loop(batch, LAMBDA b :
            <<snrt_ssr_loop_4d(0, unroll, n_frep, 2, rows, 2, 2 * unroll, 0, stride),
              snrt_ssr_loop_4d(1, unroll, n_frep, 2, rows, 2, 2 * unroll, 0, stride),
              snrt_ssr_loop_2d(2, unroll, n_frep, 2, 2 * unroll),
              snrt_ssr_read(0, 4, In(from(b)), 2), snrt_ssr_write(1, 4, Out(from(b)), 2)>>
            \o Loop(rows, LAMBDA s : row(b, s))) \o <<snrt_fpu_fence>>
        size == batch * seq_len * embeddings
        Normal(i) ==
            LET x(j) == Raw(In((i - (i % embeddings)) + j))
                mean == Applied("mean", SumOver(embeddings, x))
                centred(j) == x(j) (+) mean
                var  == SumOver(embeddings, LAMBDA j : Times(centred(j), centred(j)))
            IN  Times(centred(i % embeddings), Applied("inverse_deviation", var))
    IN  Kernel(prog, Array("in", size) \union Array("out", size),
               [l \in {Out(i) : i \in {j \in Index(size) : ((j \div embeddings) % seq_len) % cores = id}} |->
                   Normal(l[2])])
=================================================================================
