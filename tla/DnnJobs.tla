-------------------------------- MODULE DnnJobs ---------------------------------
(***************************************************************************)
(* The layers of sw/kernels/dnn as programs of module Cluster.  A value    *)
(* that a non-linear function computes from several locations is one       *)
(* product that names them all (AllOf), so constants drop out.             *)
(***************************************************************************)
EXTENDS MiscJobs

(* Every input tile is loaded, computed and stored in turn by one cluster:
   transpose_layer, gelu_layer, softmax_layer and the body of layernorm_layer. *)
LoadComputeStore(c, nc, in, comp, out) ==
    When(IsDm(c, nc), <<in, Wait>>) \o <<HwBarrier(c, nc)>>
    \o When(~IsDm(c, nc), comp) \o <<HwBarrier(c, nc)>>
    \o When(IsDm(c, nc), <<out, Wait>>)

---------------------------------------------------------------------------------
(* concat_layer: cluster i copies input i, of rows x cols elements, to column
   i * cols of the output. *)
concat_layer(rows, cols, num_inputs, ncl, nc) ==
    LET Input(i) == Global("in", i * rows * cols)
        Prog(c)  == When(IsDm(c, nc) /\ c[1] < num_inputs,
                         <<snrt_dma_start_2d(Global("out", c[1] * cols), Input(c[1]), cols,
                                             cols * num_inputs, cols, rows), Wait>>)
                    \o <<GlobalBarrierOp(ncl, nc)>>
        width    == cols * num_inputs
    IN  [prog   |-> Program(ncl, nc, Prog),
         expect |-> [l \in {Global("out", i) : i \in 0..(rows * width - 1)} |->
                        LET x == l[3] % width
                        IN  {<<At(Input(x \div cols), (l[3] \div width) * cols + (x % cols))>>}]]

---------------------------------------------------------------------------------
(* transpose_baseline and transpose_fp64_opt on the rows of one core; what is left
   of M \div nc rows is not transposed. *)
transpose_kernel(core, nc, M, N, input, output) ==
    LET frac_M == M \div nc
        rows   == (core * frac_M)..((core + 1) * frac_M - 1)
    IN  When(frac_M > 0,
             <<Compute([l \in {At(output, n * M + m) : m \in rows, n \in 0..(N - 1)} |->
                           LET e == l[3] - output[3]
                           IN  {<<At(input, (e % M) * N + (e \div M))>>}])>>)

transpose_layer(M, N, nc) ==
    LET in  == Local(0, "l1", 0)
        out == Local(0, "l1", M * N)
        Prog(c) == LoadComputeStore(c, nc, snrt_dma_start_1d(in, Global("in", 0), M * N),
                                    transpose_kernel(c[2], nc, M, N, in, out),
                                    snrt_dma_start_1d(Global("out", 0), out, M * N))
                   \o <<GlobalBarrierOp(1, nc)>>
    IN  [prog   |-> Program(1, nc, Prog),
         expect |-> [l \in {Global("out", i) : i \in 0..(M * N - 1)} |->
                        {<<Global("in", (l[3] % M) * N + (l[3] \div M))>>}]]

---------------------------------------------------------------------------------
(* Row-wise functions of a batch x seq_len x width tensor: softmax_fp32 and
   layernorm_naive.  Core c has the rows c, c + nc, ... below seq_len \div nc * nc. *)
RowKernel(core, nc, batch, seq_len, width, input, output) ==
    LET Row(b, s) == b * seq_len + core + s * nc
        rows      == {Row(b, s) : b \in 0..(batch - 1), s \in 0..((seq_len \div nc) - 1)}
    IN  When(rows # {},
             <<Compute([l \in {At(output, r * width + i) : r \in rows, i \in 0..(width - 1)} |->
                   LET e == l[3] - output[3]
                   IN  AllOf(<<At(input, e)>> \o [i \in 1..width |->
                                                     At(input, (e - (e % width)) + i - 1)])])>>)

RowsRight(size, width) ==
    [l \in {Global("out", i) : i \in 0..(size - 1)} |->
        {<<Global("in", l[3])>> \o [i \in 1..width |-> Global("in", (l[3] - (l[3] % width)) + i - 1)]}]

softmax_layer(batch, seq_len, width, nc) ==
    LET size    == batch * seq_len * width
        in      == Local(0, "l1", 0)
        out     == Local(0, "l1", size)
        \* both copies are 2D transfers of rows of batch_size elements
        Copy(dst, src) == snrt_dma_start_2d(dst, src, batch, batch, batch, seq_len * width)
        Prog(c) == LoadComputeStore(c, nc, Copy(in, Global("in", 0)),
                                    RowKernel(c[2], nc, batch, seq_len, width, in, out),
                                    Copy(Global("out", 0), out))
                   \o <<GlobalBarrierOp(1, nc)>>
    IN  [prog |-> Program(1, nc, Prog), expect |-> RowsRight(size, width)]

(* layernorm_layer: n_tiles tiles of the sequence, a share for every cluster.
   There is one input and one output buffer and no barrier after the store. *)
layernorm_layer(batch, seq_len, width, n_tiles, ncl, nc) ==
    LET n_tiles_per_cluster == n_tiles \div ncl
        tile_seq_len == seq_len \div n_tiles
        tile_row     == tile_seq_len * width
        Tile(c, t) ==
            LET itile == Local(c[1], "l1", 0)
                otile == Local(c[1], "l1", batch * tile_row)
                off   == (c[1] * n_tiles_per_cluster + t) * tile_row
            IN  LoadComputeStore(c, nc,
                    snrt_dma_start_2d(itile, Global("in", off), tile_row, tile_row, seq_len * width, batch),
                    RowKernel(c[2], nc, batch, tile_seq_len, width, itile, otile),
                    snrt_dma_start_2d(Global("out", off), otile, tile_row, seq_len * width, tile_row, batch))
        Prog(c) == Loop(n_tiles_per_cluster, LAMBDA t : Tile(c, t)) \o <<GlobalBarrierOp(ncl, nc)>>
    IN  [prog |-> Program(ncl, nc, Prog), expect |-> RowsRight(batch * seq_len * width, width)]

---------------------------------------------------------------------------------
(* gelu_fp64: every compute core computes and writes the whole output of its
   cluster, all with the same values. *)
gelu_fp64(size, input, output) ==
    <<Compute([l \in {At(output, i) : i \in 0..(size - 1)} |-> {<<At(input, l[3] - output[3])>>}])>>

gelu_layer(size, ncl, nc) ==
    LET frac    == size \div ncl
        Prog(c) == LoadComputeStore(c, nc,
                       snrt_dma_start_1d(Local(c[1], "l1", 0), Global("in", c[1] * frac), frac),
                       gelu_fp64(frac, Local(c[1], "l1", 0), Local(c[1], "l1", frac)),
                       snrt_dma_start_1d(Global("out", c[1] * frac), Local(c[1], "l1", frac), frac))
                   \o <<HwBarrier(c, nc)>>
    IN  [prog   |-> Program(ncl, nc, Prog),
         expect |-> [l \in {Global("out", i) : i \in 0..(size - 1)} |-> {<<Global("in", l[3])>>}]]

---------------------------------------------------------------------------------
(* batchnorm_layer and maxpool_layer: the tiles 0..tiles-1 of one cluster with two
   buffers and one barrier per tile.  After the barrier of tile i the compute cores
   compute it and the DM core stores tile i - 1 and loads tile i + 1; the last
   tile is stored after a final barrier. *)
PooledTiles(c, nc, tiles, In(_), Out(_), Comp(_)) ==
    Loop(tiles, LAMBDA i :
        IF IsDm(c, nc) THEN In(i) \o <<Wait, HwBarrier(c, nc)>> \o When(i > 0, Out(i - 1)) \o <<Wait>>
        ELSE <<HwBarrier(c, nc)>> \o Comp(i))
    \o <<HwBarrier(c, nc)>> \o When(IsDm(c, nc), Out(tiles - 1) \o <<Wait>>)

(* batchnorm_fp64: the channels core, core + nc, ... of one row tile. *)
batchnorm_fp64(core, nc, OW, CI, ifmap, gamma, beta, ofmap) ==
    <<Compute([l \in {At(ofmap, w * CI + ch) : w \in 0..(OW - 1), ch \in Strided(core, nc, CI)} |->
                  LET e == l[3] - ofmap[3]
                  IN  {<<At(ifmap, e), At(gamma, e % CI)>>, <<At(beta, e % CI)>>}])>>

(* A cluster without a row (IH < clusters) would store with uninitialised indices. *)
batchnorm_layer(CI, IH, IW, TILE_CI, ncl, nc) ==
    LET cis    == CI \div TILE_CI
        half   == IW * TILE_CI
        tiles(cl) == ((IH - cl + ncl - 1) \div ncl) * cis
        oh(cl, i) == cl + ncl * (i \div cis)
        ci(i)     == (i % cis) * TILE_CI
        Remote(array, cl, i) == Global(array, oh(cl, i) * IW * CI + ci(i))
        L(cl, off) == Local(cl, "l1", off)
        ifmap(cl, i) == L(cl, (i % 2) * half)
        gamma(cl)    == L(cl, 2 * half)
        beta(cl)     == L(cl, 2 * half + CI)
        ofmap(cl, i) == L(cl, 2 * half + 2 * CI + (i % 2) * half)
        Prog(c) ==
            LET cl == c[1]
                In(i) == When(i = 0, <<snrt_dma_start_1d(gamma(cl), Global("gamma", 0), CI),
                                       snrt_dma_start_1d(beta(cl), Global("beta", 0), CI), Wait>>)
                         \o <<IF TILE_CI = CI
                              THEN snrt_dma_start_1d(ifmap(cl, i), Remote("in", cl, i), half)
                              ELSE snrt_dma_start_2d(ifmap(cl, i), Remote("in", cl, i), TILE_CI, TILE_CI, CI, IW)>>
                Out(i) == <<IF TILE_CI = CI
                            THEN snrt_dma_start_1d(Remote("out", cl, i), ofmap(cl, i), half)
                            ELSE snrt_dma_start_2d(Remote("out", cl, i), ofmap(cl, i), TILE_CI, CI, TILE_CI, IW)>>
            IN  PooledTiles(c, nc, tiles(cl), In, Out, LAMBDA i :
                    batchnorm_fp64(c[2], nc, IW, TILE_CI, ifmap(cl, i), At(gamma(cl), ci(i)),
                                   At(beta(cl), ci(i)), ofmap(cl, i)))
    IN  [prog   |-> Program(ncl, nc, Prog),
         expect |-> [l \in {Global("out", i) : i \in 0..(IH * IW * CI - 1)} |->
                        {<<Global("in", l[3]), Global("gamma", l[3] % CI)>>, <<Global("beta", l[3] % CI)>>}]]

(* maxpool_fp64: the largest of FH x FW inputs, per channel of the core. *)
maxpool_fp64(core, nc, CI, window, ifmap, ofmap) ==
    <<Compute([l \in {At(ofmap, ch) : ch \in Strided(core, nc, CI)} |->
                  AllOf([f \in 1..window |-> At(ifmap, (f - 1) * CI + l[3] - ofmap[3])])])>>

(* One cluster: compute_id is the global core index. *)
maxpool_layer(CI, OH, OW, FH, FW, tile_ci, nc) ==
    LET cis     == CI \div tile_ci
        IW      == OW * FW
        half    == FH * FW * tile_ci
        oh(i)   == (i \div cis) \div OW
        ow(i)   == (i \div cis) % OW
        ci(i)   == (i % cis) * tile_ci
        ifmap(i) == Local(0, "l1", (i % 2) * half)
        ofmap(i) == Local(0, "l1", 2 * half + (i % 2) * tile_ci)
        In(i)   == [f \in 1..FH |->
                       LET dst == At(ifmap(i), (f - 1) * FW * tile_ci)
                           src == Global("in", ((oh(i) * FH + f - 1) * IW + ow(i) * FW) * CI + ci(i))
                       IN  IF tile_ci = CI THEN snrt_dma_start_1d(dst, src, tile_ci * FW)
                           ELSE snrt_dma_start_2d(dst, src, tile_ci, tile_ci, CI, FW)]
        Out(i)  == <<snrt_dma_start_2d(Global("out", (oh(i) * OW + ow(i)) * CI + ci(i)), ofmap(i),
                                       tile_ci, CI, tile_ci, 1)>>
        Prog(c) == PooledTiles(c, nc, OH * OW * cis, In, Out, LAMBDA i :
                       maxpool_fp64(c[2], nc, tile_ci, FH * FW, ifmap(i), ofmap(i)))
        Window(p, ch) == [f \in 1..(FH * FW) |->
                             Global("in", (((p \div OW) * FH + ((f - 1) \div FW)) * IW
                                           + (p % OW) * FW + ((f - 1) % FW)) * CI + ch)]
    IN  [prog   |-> Program(1, nc, Prog),
         expect |-> [l \in {Global("out", i) : i \in 0..(OH * OW * CI - 1)} |->
                        {Window(l[3] \div CI, l[3] % CI)}]]

---------------------------------------------------------------------------------
(* flashattention_2_fp32: O := softmax(Q * K^T) * V, in row blocks of B_r rows of Q
   and column blocks of B_c rows of K and V.  Tiles and row statistics live in L1;
   Fa(c, array, i) is element i of one of them. *)
Fa(c, array, i) == Local(c[1], array, i)

\* rows_per_core rows for every core, the last core takes the remainder
fa2_rows(a, c, nc) ==
    LET per == a.B_r \div nc
    IN  (per * c[2])..((IF c[2] = nc - 1 THEN a.B_r ELSE per * (c[2] + 1)) - 1)

fa2_init(a, c, nc) ==
    LET rows == fa2_rows(a, c, nc)
    IN  When(rows # {},
             <<Compute([l \in {Fa(c, v, r) : v \in {"m_i", "m_i_prev", "l_i"}, r \in rows} |->
                           IF l[1] = "l_i" THEN {} ELSE {<<>>}])>>)

(* The running maximum m_i, P = exp(S - m_i), the running sum l_i, and O rescaled by
   exp(m_i_prev - m_i). *)
fa2_softmax(a, c, nc, t_c) ==
    LET rows     == fa2_rows(a, c, nc)
        NewM(r)  == <<Fa(c, "m_i", r)>> \o [k \in 1..a.B_c |-> Fa(c, "S_fa", r * a.B_c + k - 1)]
        P(r, k)  == <<Fa(c, "S_fa", r * a.B_c + k)>> \o NewM(r)
        shifted_exp(r) == <<Fa(c, "m_i", r)>> \o NewM(r)
        Value(l) ==
            CASE l[1] = "m_i_prev" -> {<<Fa(c, "m_i", l[3])>>}
              [] l[1] = "m_i"      -> AllOf(NewM(l[3]))
              [] l[1] = "P_fa"     -> AllOf(P(l[3] \div a.B_c, l[3] % a.B_c))
              [] l[1] = "l_i"      -> {P(l[3], k) : k \in 0..(a.B_c - 1)} \union
                                      {t \in {<<l>> \o shifted_exp(l[3])} : t_c # 0}
              [] l[1] = "O_fa"     -> AllOf(<<l>> \o shifted_exp(l[3] \div a.d))
    IN  When(rows # {},
             <<Compute([l \in {Fa(c, v, r) : v \in {"m_i", "m_i_prev", "l_i"}, r \in rows}
                              \union {Fa(c, "P_fa", r * a.B_c + k) : r \in rows, k \in 0..(a.B_c - 1)}
                              \union {Fa(c, "O_fa", r * a.d + j) :
                                         r \in {x \in rows : t_c # 0}, j \in 0..(a.d - 1)} |-> Value(l)])>>)

(* O += P * V; the optimized kernels want V transposed, every core transposes its
   rows of V and goes on without a barrier. *)
fa2_pv(a, c, nc, t_c) ==
    LET F(array) == Fa(c, array, 0)
        Gemm_PV(b, ldb, transb) == sc_st_gemm(c[2], nc, a.B_r, a.d, a.B_c, F("P_fa"), a.B_c, b, ldb, transb,
                                              t_c # 0, F("O_fa"), a.d)
    IN  IF a.baseline THEN Gemm_PV(F("V_fa"), a.d, FALSE)
        ELSE transpose_kernel(c[2], nc, a.B_c, a.d, F("V_fa"), F("V_t")) \o Gemm_PV(F("V_t"), a.B_c, TRUE)

fa2_column(a, c, nc, K, V, t_c) ==
    LET bar == <<HwBarrier(c, nc)>>
        Load(dst, src) == snrt_dma_load_2d_tile(Fa(c, dst, 0), src, t_c, 0, a.B_c, a.d, a.d)
        qk  == sc_st_gemm(c[2], nc, a.B_r, a.B_c, a.d, Fa(c, "Q_fa", 0), a.d, Fa(c, "K_fa", 0), a.d, TRUE,
                          FALSE, Fa(c, "S_fa", 0), a.B_c)
    IN  When(IsDm(c, nc), <<Load("K_fa", K), Load("V_fa", V), Wait>>) \o bar
        \o (IF IsDm(c, nc) THEN bar \o bar
            ELSE qk \o bar \o fa2_softmax(a, c, nc, t_c) \o bar \o fa2_pv(a, c, nc, t_c))
        \o bar

fa2_rescale(a, c, nc) ==
    LET rows == fa2_rows(a, c, nc)
    IN  When(rows # {},
             <<Compute([l \in {Fa(c, "O_fa", r * a.d + j) : r \in rows, j \in 0..(a.d - 1)} |->
                           AllOf(<<l, Fa(c, "l_i", l[3] \div a.d)>>)])>>)

flashattention_2_fp32(a, c, nc, Q, K, V, O) ==
    LET bar == <<HwBarrier(c, nc)>>
        Row(t_r) ==
            When(IsDm(c, nc), <<snrt_dma_load_2d_tile(Fa(c, "Q_fa", 0), Q, t_r, 0, a.B_r, a.d, a.d), Wait>>)
            \o bar \o When(~IsDm(c, nc), fa2_init(a, c, nc)) \o bar
            \o Loop(a.S \div a.B_c, LAMBDA t_c : fa2_column(a, c, nc, K, V, t_c))
            \o When(~IsDm(c, nc), fa2_rescale(a, c, nc)) \o bar
            \o When(IsDm(c, nc), <<snrt_dma_store_2d_tile(O, Fa(c, "O_fa", 0), t_r, 0, a.B_r, a.d, a.d), Wait>>)
            \o bar
    IN  Loop(a.L \div a.B_r, Row) \o bar

(* The same loops on 16-bit and 8-bit elements; l_i sums P before it is rounded, and
   the 8-bit kernel converts at every access. *)
flashattention_2_fp16(a, c, nc, Q, K, V, O) == flashattention_2_fp32(a, c, nc, Q, K, V, O)
flashattention_2_fp8(a, c, nc, Q, K, V, O)  == flashattention_2_fp32(a, c, nc, Q, K, V, O)

(* Products of one factor from each set of the sequence. *)
Joined(sets) == FoldLeft(LAMBDA X, Y : {x \o y : x \in X, y \in Y}, {<<>>}, sets)

(* The recurrence of the kernel, evaluated in order, for row r and column j of O, block after block. *)
Attention(a, Q, K, V, r, j) ==
    LET SS(k) == {<<At(Q, r * a.d + x), At(K, k * a.d + x)>> : x \in 0..(a.d - 1)}
        Block(st, t) ==
            LET ks   == [k \in 1..a.B_c |-> SS(t * a.B_c + k - 1)]
                m    == Joined(<<st.m>> \o ks)
                P(k) == Joined(<<ks[k], m>>)
                shift == Joined(<<st.m, m>>)
            IN  [m |-> m,
                 l |-> UNION {P(k) : k \in 1..a.B_c} \union Joined(<<st.l, shift>>),
                 o |-> UNION {Joined(<<P(k), {<<At(V, (t * a.B_c + k - 1) * a.d + j)>>}>>) : k \in 1..a.B_c}
                       \union Joined(<<st.o, shift>>)]
        end == FoldLeft(Block, [m |-> {<<>>}, l |-> {}, o |-> {}], [t \in 1..(a.S \div a.B_c) |-> t - 1])
    IN  Joined(<<end.o, end.l>>)

(* flashattention_2_layer *)
flashattention_2_layer(a, nc) ==
    LET G(array) == Global(array, 0)
        Prog(c)  == CASE a.dtype = "FP32" -> flashattention_2_fp32(a, c, nc, G("Q"), G("K"), G("V"), G("O"))
                      [] a.dtype = "FP16" -> flashattention_2_fp16(a, c, nc, G("Q"), G("K"), G("V"), G("O"))
                      [] a.dtype = "FP8"  -> flashattention_2_fp8(a, c, nc, G("Q"), G("K"), G("V"), G("O"))
    IN  [prog   |-> Program(1, nc, Prog),
         expect |-> [l \in {Global("O", i) : i \in 0..(a.L * a.d - 1)} |->
                        Attention(a, G("Q"), G("K"), G("V"), l[3] \div a.d, l[3] % a.d)]]

---------------------------------------------------------------------------------
(* fused_concat_linear_optimized: cluster i keeps input i in L1 as its K tile of
   the concatenated operand; gemm reduces the products over the clusters. *)
fused_concat_linear_prog(c, ncl, nc, m, k, n, num_inputs, Input(_), weights, output) ==
    When(IsDm(c, nc) /\ c[1] < num_inputs,
         <<snrt_dma_load_2d_tile(Local(c[1], "a", 0), Input(c[1]), 0, 0, m, k, k), Wait>>)
    \o <<HwBarrier(c, nc)>>
    \o gemm_prog([a |-> Global("a", 0), b |-> weights, c |-> output, load_a |-> FALSE, beta |-> FALSE,
                  mt |-> 1, nt |-> 1, kt |-> num_inputs, m |-> m, n |-> n, k |-> k,
                  db |-> FALSE, transb |-> FALSE, parallelize_m |-> FALSE, parallelize_k |-> TRUE,
                  banks |-> FALSE, hb |-> 0, hyperbanks |-> 1, hyperbank_size |-> 0], c, ncl, nc)
    \o <<GlobalBarrierOp(ncl, nc)>>

(* mha_fp32: one head of attention per cluster, then the linear layer. *)
mha_fp32(a, num_heads, ncl, nc) ==
    LET HeadOf(array, h, size) == Global(array, h * size)
        Q(h) == HeadOf("Q", h, a.L * a.d)
        K(h) == HeadOf("K", h, a.S * a.d)
        V(h) == HeadOf("V", h, a.S * a.d)
        O(h) == HeadOf("head_outputs", h, a.L * a.d)
        Prog(c) == When(c[1] < num_heads, flashattention_2_fp32(a, c, nc, Q(c[1]), K(c[1]), V(c[1]), O(c[1])))
                   \o <<GlobalBarrierOp(ncl, nc)>>
                   \o fused_concat_linear_prog(c, ncl, nc, a.L, a.d, a.d, num_heads, O,
                                               Global("W", 0), Global("O", 0))
    IN  [prog   |-> Program(ncl, nc, Prog),
         expect |-> [l \in {Global("O", i) : i \in 0..(a.L * a.d - 1)} |->
                        UNION {Joined(<<Attention(a, Q(h), K(h), V(h), l[3] \div a.d, x),
                                        {<<Global("W", (h * a.d + x) * a.d + (l[3] % a.d))>>}>>) :
                                  h \in 0..(num_heads - 1), x \in 0..(a.d - 1)}]]
=================================================================================
