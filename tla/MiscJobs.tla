-------------------------------- MODULE MiscJobs --------------------------------
(***************************************************************************)
(* The jobs of sw/kernels/misc as programs of module Cluster.              *)
(***************************************************************************)
EXTENDS BlasJobs

(* A value that depends on all of the locations in s, as one product. *)
AllOf(s) == {s}

---------------------------------------------------------------------------------
(* covariance_naive, _baseline and _opt: the cores centre their rows of both
   operands, meet, and multiply as syrk does with beta 0. *)
covariance_fp(c, nc, m, n, data, datat, cov) ==
    LET Row(p, l) == [k \in 1..n |-> At(p, ((l[3] - p[3]) \div n) * n + k - 1)]
        Cells(p)  == {At(p, i * n + j) : i \in Strided(c[2], nc, m), j \in 0..(n - 1)}
        \* an element minus the mean of its row
        Centred(p, l) == AllOf(<<l>> \o Row(p, l))
    IN  <<Compute([l \in Cells(data) \union Cells(datat) |->
                      IF l \in Cells(data) THEN Centred(data, l) ELSE Centred(datat, l)]),
          HwBarrier(c, nc),
          syrk_fp(c[2], nc, m, n, data, datat, FALSE, cov)>>

covariance_job(m, n, m_tiles, db, nc) ==
    LET m_frac == m \div m_tiles
        a_size == n * m_frac
        b_size == m_frac * m_frac
        L(i, off) == Local(0, "l1", BufferOf(db, i) * (2 * a_size + b_size) + off)
        In(i)   == <<snrt_dma_load_1d_tile(L(i, 0), Global("data", 0), i \div m_tiles, a_size),
                     snrt_dma_load_1d_tile(L(i, a_size), Global("data", 0), i % m_tiles, a_size), Wait>>
        Out(i)  == <<snrt_dma_store_2d_tile(Global("cov", 0), L(i, 2 * a_size), i \div m_tiles,
                                            i % m_tiles, m_frac, m_frac, m), Wait>>
        Prog(c) == CopyArgs(c, nc) \o
                   TileLoop(c, nc, m_tiles * m_tiles, db, In, <<HwBarrier(c, nc)>>, Out,
                            LAMBDA i : covariance_fp(c, nc, m_frac, n, L(i, 0), L(i, a_size),
                                                     L(i, 2 * a_size)))
        Centred(i, k) == <<Global("data", i * n + k)>> \o [q \in 1..n |-> Global("data", i * n + q - 1)]
    IN  [prog   |-> Program(1, nc, Prog),
         expect |-> [l \in {Global("cov", i) : i \in 0..(m * m - 1)} |->
                        {Centred(l[3] \div m, k) \o Centred(l[3] % m, k) : k \in 0..(n - 1)}]]

---------------------------------------------------------------------------------
(* doitgen: Aout[i][j][k] = sum over l of A[i][j][l] * x[k][l], in place in
   global memory; x is loaded with the first tile. *)
doitgen_fp(core, nc, r, q, s, a, x, aout) ==
    Compute([l \in {At(aout, i * q * s + j) : i \in Strided(core, nc, r), j \in 0..(q * s - 1)} |->
                LET e == l[3] - aout[3]
                IN  {<<At(a, (e - (e % s)) + t), At(x, (e % s) * s + t)>> : t \in 0..(s - 1)}])

doitgen_job(r, q, s, r_tiles, q_tiles, db, nc) ==
    LET r_frac == r \div r_tiles
        q_frac == q \div q_tiles
        a_size == r_frac * q_frac * s
        x      == Local(0, "l1", 0)
        La(i)  == Local(0, "l1", s * s + 2 * BufferOf(db, i) * a_size)
        Lout(i) == At(La(i), a_size)
        In(i)  == <<snrt_dma_load_2d_tile(La(i), Global("A", 0), i \div q_tiles, i % q_tiles,
                                          r_frac, q_frac * s, q * s)>>
                  \o When(i = 0, <<snrt_dma_start_1d(x, Global("x", 0), s * s)>>) \o <<Wait>>
        Out(i) == <<snrt_dma_store_2d_tile(Global("A", 0), Lout(i), i \div q_tiles, i % q_tiles,
                                           r_frac, q_frac * s, q * s), Wait>>
        Prog(c) == CopyArgs(c, nc) \o
                   TileLoop(c, nc, r_tiles * q_tiles, db, In, <<>>, Out,
                            LAMBDA i : <<doitgen_fp(c[2], nc, r_frac, q_frac, s, La(i), x, Lout(i))>>)
    IN  [prog   |-> Program(1, nc, Prog),
         expect |-> [l \in {Global("A", i) : i \in 0..(r * q * s - 1)} |->
                        {<<Global("A", l[3] - (l[3] % s) + t), Global("x", (l[3] % s) * s + t)>> :
                            t \in 0..(s - 1)}]]

---------------------------------------------------------------------------------
(* correlation: step 1 on the columns of every cluster, then cluster 0 collects
   the standardized tiles and computes the correlation matrix. *)
Columns(core, nc, m) == LET range == m \div nc IN (core * range)..((core + 1) * range - 1)

correlation_step1(core, nc, n, m, data, stddev) ==
    LET Column(i) == [k \in 1..n |-> At(data, (k - 1) * m + i)]
        mine      == Columns(core, nc, m)
    IN  When(mine # {},
             <<Compute([l \in {At(stddev, i) : i \in mine}
                              \union {At(data, k * m + i) : k \in 0..(n - 1), i \in mine} |->
                            IF l \in {At(stddev, i) : i \in mine} THEN AllOf(Column(l[3] - stddev[3]))
                            ELSE AllOf(<<l>> \o Column((l[3] - data[3]) % m))])>>)

correlation_step2(core, nc, n, m, data, stddev, corr) ==
    LET mine == {<<i, j>> \in Columns(core, nc, m) \X (0..(m - 1)) : j <= i}
        Corr(i, j) == {<<At(data, k * m + i), At(data, k * m + j), At(stddev, i), At(stddev, j)>> :
                           k \in 0..(n - 1)}
        Cell(i, j) == At(corr, i * m + j)
    IN  When(mine # {},
             <<Compute([l \in {Cell(p[1], p[2]) : p \in mine} \union {Cell(p[2], p[1]) : p \in mine} |->
                            LET p == CHOOSE p \in mine : l \in {Cell(p[1], p[2]), Cell(p[2], p[1])}
                            IN  Corr(p[1], p[2])])>>)

correlation_job(n, m, ncl, nc) ==
    LET tile_M == m \div ncl
        data(cl)   == Local(cl, "data", 0)
        corr       == Local(0, "corr", 0)
        stddev(cl) == Local(cl, "stddev", 0)
        Aggregate(i) ==
            <<snrt_dma_store_2d_tile(data(0), data(i), 0, i, n, tile_M, m),
              snrt_dma_store_1d_tile(stddev(0), stddev(i), i, tile_M)>>
        Prog(c) ==
            CopyArgs(c, nc)
            \o When(IsDm(c, nc), <<snrt_dma_load_2d_tile(data(c[1]), Global("in", 0), 0, c[1],
                                                         n, tile_M, m), Wait>>)
            \o <<HwBarrier(c, nc)>>
            \o When(~IsDm(c, nc), correlation_step1(c[2], nc, n, tile_M, data(c[1]), stddev(c[1])))
            \o <<GlobalBarrierOp(ncl, nc)>>
            \o When(c[1] = 0,
                    When(IsDm(c, nc), Loop(ncl, Aggregate) \o <<Wait>>) \o <<HwBarrier(c, nc)>>
                    \o When(~IsDm(c, nc), correlation_step2(c[2], nc, n, m, data(0), stddev(0), corr))
                    \o <<HwBarrier(c, nc)>>
                    \o When(IsDm(c, nc), <<snrt_dma_start_1d(Global("out", 0), corr, m * m), Wait>>)
                    \o <<HwBarrier(c, nc)>>)
        Col(i)   == [k \in 1..n |-> Global("in", (k - 1) * m + i)]
        Std(k, i) == <<Global("in", k * m + i)>> \o Col(i)
        Greater(i, j) == IF i > j THEN i ELSE j
        Smaller(i, j) == IF i > j THEN j ELSE i
        Entry(i, j) == {Std(k, i) \o Std(k, j) \o Col(i) \o Col(j) : k \in 0..(n - 1)}
    IN  [prog   |-> Program(ncl, nc, Prog),
         expect |-> [l \in {Global("out", i) : i \in 0..(m * m - 1)} |->
                        Entry(Greater(l[3] \div m, l[3] % m), Smaller(l[3] \div m, l[3] % m))]]

---------------------------------------------------------------------------------
(* atax: y = A^T (A x).  Every cluster computes all of A x and its columns of y. *)
atax(c, ncl, nc, m, n, a, x, y, tmp) ==
    LET range  == n \div (ncl * nc)
        offset == (c[1] * nc + c[2]) * range
    IN  When(~IsDm(c, nc), gemv(FALSE, m, n, c[2], nc, a, x, tmp))
        \o <<HwBarrier(c, nc)>>
        \o When(~IsDm(c, nc) /\ range > 0,
                <<Compute([l \in {At(y, c[2] * range + j) : j \in 0..(range - 1)} |->
                      LET j == offset + (l[3] - y[3] - c[2] * range)
                      IN  {<<At(a, i * n + j), At(tmp, i)>> : i \in 0..(m - 1)}])>>)

atax_job(m, n, ncl, nc) ==
    LET Prog(c) ==
            LET a   == Local(c[1], "l1", 0)
                x   == At(a, m * n)
                y   == At(x, n)
                tmp == At(y, n \div ncl)
            IN  CopyArgs(c, nc)
                \o When(IsDm(c, nc), <<snrt_dma_start_1d(a, Global("A", 0), m * n),
                                       snrt_dma_start_1d(x, Global("x", 0), n), Wait>>)
                \o <<HwBarrier(c, nc)>>
                \o atax(c, ncl, nc, m, n, a, x, y, tmp)
                \o <<HwBarrier(c, nc)>>
                \o When(IsDm(c, nc), <<snrt_dma_store_1d_tile(Global("y", 0), y, c[1], n \div ncl), Wait>>)
                \o <<HwBarrier(c, nc)>>
    IN  [prog   |-> Program(ncl, nc, Prog),
         expect |-> [l \in {Global("y", j) : j \in 0..(n - 1)} |->
                        {<<Global("A", i * n + l[3]), Global("A", i * n + k), Global("x", k)>> :
                            i \in 0..(m - 1), k \in 0..(n - 1)}]]

---------------------------------------------------------------------------------
(* box3d1r, j3d27pt and kbpcpa: the DM core copies the operands, core 0 runs the
   kernel, the DM core copies the result. *)
core0_main(nc, in, comp, out) ==
    LET Prog(c) == When(IsDm(c, nc), in \o <<Wait>>) \o <<HwBarrier(c, nc)>>
                   \o When(c[2] = 0, <<comp>>) \o <<HwBarrier(c, nc)>>
                   \o When(IsDm(c, nc), out \o <<Wait>>) \o <<HwBarrier(c, nc)>>
    IN  Program(1, nc, Prog)

(* A cube of n points each way, window 3 x 3 x 3. *)
stencil_main(n, nc) ==
    LET size  == n * n * n
        a     == Local(0, "l1", 0)
        coef  == At(a, size)
        a_    == At(coef, 27)
        Tap(p) == (p \div 9) * n * n + ((p \div 3) % 3) * n + (p % 3) - (n * n + n + 1)
        inner == {z * n * n + y * n + x : z \in 1..(n - 2), y \in 1..(n - 2), x \in 1..(n - 2)}
        Sum27(c0, a0, i) == {<<At(c0, p), At(a0, i + Tap(p))>> : p \in 0..26}
    IN  [prog   |-> core0_main(nc,
                        <<snrt_dma_start_1d(a, Global("A", 0), size), snrt_dma_start_1d(coef, Global("c", 0), 27)>>,
                        Compute([l \in {At(a_, i) : i \in inner} |-> Sum27(coef, a, l[3] - a_[3])]),
                        <<snrt_dma_start_1d(Global("A_", 0), a_, size)>>),
         expect |-> [l \in {Global("A_", i) : i \in inner} |-> Sum27(Global("c", 0), Global("A", 0), l[3])]]

kbpcpa_main(n, nc) ==
    LET b == Local(0, "l1", 0)
        c == At(b, n)
        a == At(c, n)
    IN  [prog   |-> core0_main(nc,
                        <<snrt_dma_start_1d(b, Global("b", 0), n), snrt_dma_start_1d(c, Global("c", 0), n)>>,
                        Compute([l \in {At(a, i) : i \in 0..(n - 1)} |->
                                    {<<At(b, l[3] - a[3])>>, <<At(c, l[3] - a[3])>>}]),
                        <<snrt_dma_start_1d(Global("a", 0), a, n)>>),
         expect |-> [l \in {Global("a", i) : i \in 0..(n - 1)} |-> {<<Global("b", l[3])>>, <<Global("c", l[3])>>}]]

---------------------------------------------------------------------------------
(* kmeans.  What is counted or added for centroid k depends on k and on the
   membership of a sample: a product with <<"k", 0, k>> and membership. *)
Id(k) == Global("k", k)

(* The locations of cluster cl: spc samples of f features per core, kc
   centroids; partial counts and centroids once per compute core. *)
KmeansLayout(cl, nc, spc, kc, f) ==
    LET samples == Local(cl, "l1", 0)
        centroids == At(samples, spc * nc * f)
        membership == At(centroids, kc * f)
        cnt == At(membership, spc * nc)
    IN  [samples |-> samples, centroids |-> centroids, membership |-> membership,
         cnt |-> cnt, partial |-> At(cnt, nc * kc)]

(* The samples whose sum the update step takes: all of this core's. *)
Mine(core, spc) == (core * spc)..((core + 1) * spc - 1)

(* euclidean_distance_squared to every centroid decides the membership. *)
Nearest(samples, s, f, centroids, kc) ==
    [i \in 1..f |-> At(samples, s * f + i - 1)] \o [i \in 1..(kc * f) |-> At(centroids, i - 1)]

kmeans_assign(core, L, spc, kc, f, centroids) ==
    LET cnt == At(L.cnt, core * kc)
        memberships == {At(L.membership, s) : s \in Mine(core, spc)}
    IN  Compute([l \in memberships \union {At(cnt, k) : k \in 0..(kc - 1)} |->
            IF l \in memberships THEN AllOf(Nearest(L.samples, l[3] - L.membership[3], f, centroids, kc))
            ELSE {<<Id(l[3] - cnt[3])>> \o Nearest(L.samples, s, f, centroids, kc) : s \in Mine(core, spc)}])

kmeans_update(core, L, spc, kc, f) ==
    LET partial == At(L.partial, core * kc * f)
    IN  Compute([l \in {At(partial, i) : i \in 0..(kc * f - 1)} |->
            LET i == l[3] - partial[3]
            IN  {<<Id(i \div f), At(L.membership, s), At(L.samples, s * f + (i % f))>> : s \in Mine(core, spc)}])

(* Counts and centroids of all of `from` are added to those of core 0 of L. *)
kmeans_reduce(L, kc, f, from) ==
    Compute([l \in {At(L.cnt, k) : k \in 0..(kc - 1)} \union {At(L.partial, i) : i \in 0..(kc * f - 1)} |->
        IF l[3] < L.partial[3] THEN {<<At(p[1], l[3] - L.cnt[3])>> : p \in from}
        ELSE {<<At(p[2], l[3] - L.partial[3])>> : p \in from}])

kmeans_normalize(L, kc, f) ==
    Compute([l \in {At(L.partial, i) : i \in 0..(kc * f - 1)} |->
        {<<l, At(L.cnt, (l[3] - L.partial[3]) \div f)>>}])

kmeans_iteration(c, ncl, nc, spc, kc, f, centroids) ==
    LET L     == KmeansLayout(c[1], nc, spc, kc, f)
        cores == {<<At(L.cnt, i * kc), At(L.partial, i * kc * f)>> : i \in 0..(nc - 1)}
        clusters == {LET r == KmeansLayout(i, nc, spc, kc, f) IN <<r.cnt, r.partial>> : i \in 0..(ncl - 1)}
    IN  When(~IsDm(c, nc), <<kmeans_assign(c[2], L, spc, kc, f, centroids), kmeans_update(c[2], L, spc, kc, f)>>)
        \o <<HwBarrier(c, nc)>>
        \o When(c[2] = 0, <<kmeans_reduce(L, kc, f, cores), Barrier((0..(ncl - 1)) \X {0})>>)
        \o When(c = <<0, 0>>, <<kmeans_reduce(L, kc, f, clusters), kmeans_normalize(L, kc, f)>>)

(* The centroids are copied with their size in bytes taken for their number. *)
kmeans_job(spc, kc, f, iters, ncl, nc) ==
    LET final == KmeansLayout(0, nc, spc, kc, f).partial
        per   == spc * nc * f
        Prog(c) ==
            LET L == KmeansLayout(c[1], nc, spc, kc, f)
            IN  When(IsDm(c, nc),
                     <<snrt_dma_start_1d(L.samples, Global("samples", c[1] * per), per),
                       snrt_dma_start_1d(L.centroids, Global("centroids", 0), kc * f * 8), Wait>>)
                \o <<HwBarrier(c, nc)>>
                \o Loop(iters, LAMBDA i :
                        kmeans_iteration(c, ncl, nc, spc, kc, f, IF i = 0 THEN L.centroids ELSE final)
                        \o <<GlobalBarrierOp(ncl, nc)>>)
                \o When(IsDm(c, nc) /\ c[1] = 0, <<snrt_dma_start_1d(Global("centroids", 0), final, kc * f), Wait>>)
        all     == 0..(ncl * nc * spc - 1)
        near(s) == Nearest(Global("samples", 0), s, f, Global("centroids", 0), kc)
    IN  [prog   |-> Program(ncl, nc, Prog),
         \* of the first iteration
         expect |-> [l \in {Global("centroids", i) : i \in 0..(kc * f - 1)} |->
                        LET k == l[3] \div f
                        IN  {<<Id(k)>> \o near(s) \o <<Global("samples", s * f + (l[3] % f)), Id(k)>> \o near(t) :
                                s \in all, t \in all}]]

---------------------------------------------------------------------------------
(* pi_estimation: core 0 seeds the generators, the DM core clears the buffers in
   which the threads of a core meet (the upper half of a random word stays
   zero), every core counts its hits, core 0 adds them up.  The batches of
   calculate_psum_optimized are in module MonteCarlo. *)
montecarlo_main(batch, line, nc) ==
    LET prngs(i)  == Local(0, "l1", i)
        rng(v)    == Local(0, "l1", nc + v * batch * nc)        \* x, y and z, twice
        mine(core) == {At(rng(v), core * batch + i) : v \in 0..5, i \in 0..(batch - 1)}
        result(i) == Local(0, "reduction_array", i)
        hit       == Local(0, "hit", 0)
        Prog(c) ==
            When(c[2] = 0, <<Compute([l \in {prngs(i) : i \in 0..(nc - 1)} |-> {<<Global("seed", 0), Id(l[3])>>}])>>)
            \o <<HwBarrier(c, nc)>>
            \o When(IsDm(c, nc), Loop(6, LAMBDA v : snrt_dma_memset(rng(v), Global("zero", 0), batch * nc, line)))
            \o <<HwBarrier(c, nc)>>
            \o When(~IsDm(c, nc), <<Compute([l \in {result(c[2])} \union mine(c[2]) |->
                    {<<prngs(c[2])>>} \union {<<b>> : b \in IF l = result(c[2]) THEN mine(c[2]) ELSE {l}}])>>)
            \o <<HwBarrier(c, nc)>>
            \o When(c[2] = 0, <<Compute([l \in {hit} |-> {<<result(i)>> : i \in 0..(nc - 1)}])>>)
    IN  [prog   |-> Program(1, nc, Prog),
         expect |-> [l \in {hit} |-> {<<Global("seed", 0), Id(i)>> : i \in 0..(nc - 1)}]]
=================================================================================
