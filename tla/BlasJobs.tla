-------------------------------- MODULE BlasJobs --------------------------------
(***************************************************************************)
(* The jobs of sw/kernels/blas as programs of module Cluster: which tile   *)
(* the DM core moves where and when, what the compute cores combine        *)
(* meanwhile, and the barriers between.  The floating-point inner loops    *)
(* are taken at their contract here (module StreamKernels has the loops).  *)
(* Scalars (alpha, beta) are not part of the symbolic values.              *)
(***************************************************************************)
EXTENDS Integers, Dma

(* Elements i of 0..n-1 with i = core modulo nc: the split of axpy_naive,
   axpy_fma and syrk. *)
Strided(core, nc, n) == {i \in 0..(n - 1) : i % nc = core}

---------------------------------------------------------------------------------
(* axpy_job: z := a * x + y in n_tiles tiles, two buffers when db. *)
axpy_fp(core, nc, n, x, y, z) ==
    Compute([l \in {At(z, i) : i \in Strided(core, nc, n)} |->
                LET i == l[3] - z[3] IN {<<At(x, i)>>, <<At(y, i)>>}])

\* Mutant: the buffers are not switched between the tiles
BufferOfNone(db, i) == 0

BufferOf(db, i) == IF db THEN i % 2 ELSE 0

(* The tile loop most jobs share.  With two buffers, iteration i loads tile i,
   stores tile i - 2 and computes tile i - 1; with one buffer, two further
   barriers separate the three.  `mid` is what the DM core does while the
   compute cores are busy (barriers they need among themselves). *)
TileLoop(c, nc, tiles, db, In(_), mid, Out(_), Comp(_)) ==
    LET bar == <<HwBarrier(c, nc)>>
        Iter(i) ==
            (CASE db /\ IsDm(c, nc)  -> When(i < tiles, In(i)) \o When(i > 0 /\ i < tiles + 1, mid)
                                        \o When(i > 1, Out(i - 2))
               [] db /\ ~IsDm(c, nc) -> When(i > 0 /\ i < tiles + 1, Comp(i - 1))
               [] ~db /\ IsDm(c, nc) -> In(i) \o bar \o mid \o bar \o Out(i)
               [] OTHER              -> bar \o Comp(i) \o bar)
            \o bar
    IN  Loop(IF db THEN tiles + 2 ELSE tiles, Iter)

axpy_job(n, n_tiles, db, nc) ==
    LET frac == n \div n_tiles
        \* x, y and z of the first buffer, then of the second
        L(v, i) == Local(0, "l1", (3 * BufferOf(db, i) + v) * frac)
        In(i)   == <<snrt_dma_start_1d(L(0, i), Global("x", i * frac), frac),
                     snrt_dma_start_1d(L(1, i), Global("y", i * frac), frac), Wait>>
        Out(i)  == <<snrt_dma_start_1d(Global("z", i * frac), L(2, i), frac), Wait>>
        Prog(c) == CopyArgs(c, nc) \o
                   TileLoop(c, nc, n_tiles, db, In, <<>>, Out,
                            LAMBDA i : <<axpy_fp(c[2], nc, frac, L(0, i), L(1, i), L(2, i))>>)
    IN  [prog   |-> Program(1, nc, Prog),
         expect |-> [l \in {Global("z", i) : i \in 0..(n - 1)} |->
                        {<<Global("x", l[3])>>, <<Global("y", l[3])>>}]]

---------------------------------------------------------------------------------
(* dot: every core sums its n/nc products, core 0 adds the partial sums, the
   DM core stores the result. *)
dot(n, nc) ==
    LET frac  == n \div nc
        X(i)  == Local(0, "l1", i)
        Y(i)  == Local(0, "l1", n + i)
        ps(i) == Local(0, "l1", 2 * n + i)
        Prog(c) ==
            When(IsDm(c, nc), <<snrt_dma_start_1d(X(0), Global("x", 0), n),
                                snrt_dma_start_1d(Y(0), Global("y", 0), n), Wait>>)
            \o <<HwBarrier(c, nc)>>
            \o When(~IsDm(c, nc),
                    <<Compute([l \in {ps(c[2])} |->
                          {<<X(i), Y(i)>> : i \in (c[2] * frac)..((c[2] + 1) * frac - 1)}])>>)
            \o <<HwBarrier(c, nc)>>
            \o When(c[2] = 0, <<Compute([l \in {ps(0)} |-> {<<ps(i)>> : i \in 0..(nc - 1)}])>>)
            \o <<HwBarrier(c, nc)>>
            \o When(IsDm(c, nc), <<Compute([l \in {Global("result", 0)} |-> {<<ps(0)>>}])>>)
            \o <<HwBarrier(c, nc)>>
    IN  [prog   |-> Program(1, nc, Prog),
         expect |-> [l \in {Global("result", 0)} |->
                        {<<Global("x", i), Global("y", i)>> : i \in 0..(n - 1)}]]

---------------------------------------------------------------------------------
(* gemv: contiguous rows per core, the last core takes the remainder. *)
gemv(trans, m, n, core, nc, a, x, y) ==
    LET frac_m  == m \div nc
        start_m == core * frac_m
        core_m  == IF core = nc - 1 THEN frac_m + (m % nc) ELSE frac_m
        lda     == IF trans THEN m ELSE n
        A(i, k) == IF trans THEN At(a, i + k * lda) ELSE At(a, i * lda + k)
    IN  When(core_m > 0,
             <<Compute([l \in {At(y, start_m + i) : i \in 0..(core_m - 1)} |->
                   {<<A(l[3] - y[3], k), At(x, k)>> : k \in 0..(n - 1)}])>>)

---------------------------------------------------------------------------------
(* syrk_naive, syrk_baseline and syrk_opt: the rows core, core + nc, ...; beta is
   whether C is added (syrk_opt always loads it).  syrk_job: C := A * A^T + C in m_tiles x m_tiles tiles, out before in. *)
syrk_fp(core, nc, m, n, a, at, beta, c) ==
    Compute([l \in {At(c, i * m + j) : i \in Strided(core, nc, m), j \in 0..(m - 1)} |->
                (IF beta THEN {<<l>>} ELSE {}) \union
                {<<At(a, ((l[3] - c[3]) \div m) * n + k), At(at, ((l[3] - c[3]) % m) * n + k)>> :
                    k \in 0..(n - 1)}])

syrk_job(m, n, m_tiles, nc) ==
    LET m_frac  == m \div m_tiles
        a_size  == n * m_frac
        c_size  == m_frac * m_frac
        n_tiles == m_tiles * m_tiles
        B(i)    == (i % 2) * (2 * a_size + c_size)
        La(i)   == Local(0, "l1", B(i))
        Lat(i)  == Local(0, "l1", B(i) + a_size)
        Lc(i)   == Local(0, "l1", B(i) + 2 * a_size)
        Out(i)  == <<snrt_dma_store_2d_tile(Global("C", 0), Lc(i), i \div m_tiles, i % m_tiles,
                                            m_frac, m_frac, m), Wait>>
        In(i)   == <<snrt_dma_load_1d_tile(La(i), Global("A", 0), i \div m_tiles, a_size),
                     snrt_dma_load_1d_tile(Lat(i), Global("A", 0), i % m_tiles, a_size),
                     snrt_dma_load_2d_tile(Lc(i), Global("C", 0), i \div m_tiles, i % m_tiles,
                                           m_frac, m_frac, m), Wait>>
        Iter(c, i) ==
            (IF IsDm(c, nc) THEN When(i > 1, Out(i - 2)) \o When(i < n_tiles, In(i))
             ELSE When(i > 0 /\ i < n_tiles + 1,
                       <<syrk_fp(c[2], nc, m_frac, n, La(i - 1), Lat(i - 1), TRUE, Lc(i - 1))>>))
            \o <<HwBarrier(c, nc)>>
    IN  [prog   |-> Program(1, nc, LAMBDA c : CopyArgs(c, nc) \o
                        Loop(n_tiles + 2, LAMBDA i : Iter(c, i))),
         expect |-> [l \in {Global("C", i) : i \in 0..(m * m - 1)} |->
                        {<<l>>} \union {<<Global("A", (l[3] \div m) * n + k),
                                          Global("A", (l[3] % m) * n + k)>> : k \in 0..(n - 1)}]]
---------------------------------------------------------------------------------
(* sc_st_gemm: the rows core, core + nc, ... of a C tile; beta is whether the old
   C is added.  transb is the only transposition the tile loop supports. *)
sc_st_gemm(core, nc, m, n, k, a, lda, b, ldb, transb, beta, c, ldc) ==
    LET frac_m == (m \div nc) + (IF core < m % nc THEN 1 ELSE 0)
        B(j, q) == IF transb THEN At(b, j * ldb + q) ELSE At(b, q * ldb + j)
        Row(i)  == core + i * nc
        cells   == (0..(frac_m - 1)) \X (0..(n - 1))
        C(x)    == At(c, Row(x[1]) * ldc + x[2])
    IN  When(frac_m > 0,
             <<Compute([l \in {C(x) : x \in cells} |->
                 LET x == CHOOSE x \in cells : C(x) = l
                 IN  {t \in {<<l>>} : beta} \union
                     {<<At(a, Row(x[1]) * lda + q), B(x[2], q)>> : q \in 0..(k - 1)}])>>)

(* allocate_buffers: offsets in L1 of buffer 0 and 1 of A, B and C (row = 1, 2,
   3).  `banks` is the layout with distinct banks per matrix: a line of the
   hyperbank is hb elements, every matrix has nc of them; the second set is in
   the second hyperbank (`hyperbanks` = 2), in further banks (when there are
   six sets of them), or in the lines after the first. *)
allocate_buffers(size, banks, nc, hb, hyperbanks, hyperbank_size) ==
    LET Before(v) == IF v = 1 THEN 0 ELSE IF v = 2 THEN size[1] ELSE size[1] + size[2]
    IN  [v \in 1..3 |-> [b \in 0..1 |->
            IF ~banks THEN Before(v) + b * (size[1] + size[2] + size[3])
            ELSE (v - 1) * nc + b * (IF hyperbanks = 2 THEN hyperbank_size
                                     ELSE IF hb >= 6 * nc THEN 3 * nc
                                     ELSE hb * (size[v] \div nc))]]

(* calculate_partitioned_banks_stride *)
BanksStride(nc, row_size, hb) == (row_size \div nc) * hb

(* snrt_global_reduction_dma on the ncl clusters of the communicator. *)
snrt_global_reduction_dma(c, ncl, nc, dst, src, len) ==
    LET levels == CHOOSE n \in 0..ncl : 2 ^ n >= ncl /\ \A q \in 0..(n - 1) : 2 ^ q < ncl
        per    == len \div nc
        Lev(level) ==
            LET is_active == c[1] % (2 ^ level) = 0
                is_sender == c[1] % (2 ^ (level + 1)) # 0
            IN  When(is_active /\ is_sender /\ IsDm(c, nc),
                     <<snrt_dma_start_1d(Local(c[1] - 2 ^ level, dst[1], dst[3]), src, len), Wait>>)
                \o <<GlobalBarrierOp(ncl, nc)>>
                \o When(is_active /\ ~is_sender /\ ~IsDm(c, nc) /\ per > 0,
                        <<Compute([l \in {At(src, c[2] * per + i) : i \in 0..(per - 1)} |->
                                      {<<l>>, <<At(dst, l[3] - src[3])>>}])>>)
                \o <<HwBarrier(c, nc)>>
    IN  When(ncl > 1, <<HwBarrier(c, nc)>> \o Loop(levels, Lev))

(* gemm: C := A * B + beta * C.  g.mt, g.nt, g.kt tiles of g.m x g.n x g.k elements
   each, double-buffered or not, M or K split over the ncl clusters; g.a, g.b, g.c
   are the matrices (with ~g.load_a, g.a is each cluster's own tile in L1). *)
GemmKTiles(g, ncl, cl) ==
    IF g.parallelize_k THEN (g.kt \div ncl) + (IF cl < g.kt % ncl THEN 1 ELSE 0) ELSE g.kt

\* Mutant: the C buffer is switched with every tile, not after the K loop
GemmCBufferEvery(g, i, kt) == IF g.db THEN i % 2 ELSE 0

GemmCBuffer(g, i, kt) == IF g.db THEN (i \div kt) % 2 ELSE 0

gemm_prog(g, c, ncl, nc) ==
    LET cl == c[1]
        kt == GemmKTiles(g, ncl, cl)
        mt == IF g.parallelize_m THEN g.mt \div ncl ELSE g.mt
        num_tiles == mt * g.nt * kt
        \* absolute tile indices of iteration i
        K(i) == (i % kt) + (IF g.parallelize_k THEN cl * kt ELSE 0)
        N(i) == (i \div kt) % g.nt
        M(i) == ((i \div kt) \div g.nt) + (IF g.parallelize_m THEN cl * mt ELSE 0)
        size == <<g.m * g.k, g.k * g.n, g.m * g.n>>
        addr == allocate_buffers(size, g.banks, nc, g.hb, g.hyperbanks, g.hyperbank_size)
        work == IF g.parallelize_k /\ g.kt < ncl THEN g.kt ELSE ncl   \* num_working_clusters
        Buf(i) == IF g.db THEN i % 2 ELSE 0
        la(i) == IF g.load_a THEN Local(cl, "l1", addr[1][Buf(i)]) ELSE Local(cl, g.a[1], g.a[3])
        lb(i) == Local(cl, "l1", addr[2][Buf(i)])
        lc(i) == Local(cl, "l1", addr[3][GemmCBuffer(g, i, kt)])
        lcr   == Local(cl, "l1", addr[3][1])
        Lines(dst, src, n) == snrt_dma_1d_to_2d(dst, src, n, nc, g.hb)
        Out(i) ==
            When(cl = 0 \/ ~g.parallelize_k,
                 <<IF g.banks
                   THEN snrt_dma_2d_to_1d(At(g.c, M(i) * size[3]), lc(i), size[3], nc, g.hb)
                   ELSE snrt_dma_store_2d_tile(g.c, lc(i), M(i), N(i), g.m, g.n, g.nt * g.n),
                   Wait>>)
        In(i) ==
            When(g.load_a,
                 <<IF g.banks THEN Lines(la(i), At(g.a, M(i) * size[1]), size[1])
                   ELSE snrt_dma_load_2d_tile(la(i), g.a, M(i), K(i), g.m, g.k, g.kt * g.k)>>)
            \o <<CASE g.transb -> snrt_dma_load_2d_tile(lb(i), g.b, N(i), K(i), g.n, g.k, g.kt * g.k)
                   [] g.banks  -> Lines(lb(i), At(g.b, K(i) * size[2]), size[2])
                   [] OTHER    -> snrt_dma_load_2d_tile(lb(i), g.b, K(i), N(i), g.k, g.n, g.nt * g.n)>>
            \o When(K(i) = 0,
                    <<IF g.banks THEN Lines(lc(i), At(g.c, M(i) * size[3]), size[3])
                      ELSE snrt_dma_load_2d_tile(lc(i), g.c, M(i), N(i), g.m, g.n, g.nt * g.n)>>)
            \o When(K(i) # 0 /\ i % kt = 0, <<Dma({<<Global("zero", 0), At(lc(i), e)>> : e \in 0..(size[3] - 1)})>>)
            \o <<Wait>>
        Ld(rows, cols) == IF g.banks THEN BanksStride(nc, cols, g.hb) ELSE cols
        Comp(i) ==
            When(~IsDm(c, nc),
                 sc_st_gemm(c[2], nc, g.m, g.n, g.k, la(i), Ld(g.m, g.k), lb(i),
                            IF g.transb THEN g.k ELSE Ld(g.k, g.n), g.transb, K(i) # 0 \/ g.beta,
                            lc(i), Ld(g.m, g.n)))
            \o When(g.parallelize_k /\ i % kt = kt - 1,
                    snrt_global_reduction_dma(c, work, nc, lcr, lc(i), size[3]))
        Iter(i) ==
            LET comp == IF g.db THEN i - 1 ELSE i
                out  == IF g.db THEN i - 2 ELSE i - 1
            IN  When(IsDm(c, nc), When(out >= 0, Out(out)) \o When(i < num_tiles, In(i)))
                \o When(~g.db, <<HwBarrier(c, nc)>>)
                \o When(comp >= 0 /\ comp < num_tiles, Comp(comp))
                \o <<HwBarrier(c, nc)>>
    \* snrt_comm_create ends in a barrier of all clusters
    IN  CopyArgs(c, nc) \o <<HwBarrier(c, nc), GlobalBarrierOp(ncl, nc)>>
        \o Loop(num_tiles + (IF g.db THEN 2 ELSE 1), Iter)

gemm(g, ncl, nc) ==
    LET width == g.nt * g.n
        depth == g.kt * g.k
        B(q, j) == At(g.b, IF g.transb THEN j * depth + q ELSE q * width + j)
    IN  [prog   |-> Program(ncl, nc, LAMBDA c : gemm_prog(g, c, ncl, nc)),
         expect |-> [l \in {At(g.c, i) : i \in 0..(g.mt * g.m * width - 1)} |->
                        {t \in {<<l>>} : g.beta} \union
                        {<<At(g.a, (l[3] \div width) * depth + q),
                                          B(q, l[3] % width)>> : q \in 0..(depth - 1)}]]
=================================================================================
