------------------------------ MODULE StreamKernels -----------------------------
(***************************************************************************)
(* Vector and matrix kernels of sw/kernels as one core runs them, as       *)
(* programs of module Streams: the core is number offset of stride compute *)
(* cores.  Every program comes with the values the plain loops compute.    *)
(***************************************************************************)
EXTENDS Ssr

acc(i) == R("acc", i)
For(from, to, step, Body(_)) ==
    Loop(IF to > from THEN (to - from + step - 1) \div step ELSE 0, LAMBDA i : Body(from + i * step))
Index(n)     == 0..(n - 1)
Clears(n)    == Each(n, LAMBDA i : Clear(acc(i)))
Stores(n, l) == Each(n, LAMBDA i : Store(acc(i), At(l, i)))
StreamMacs(n) == Each(n, LAMBDA i : Fmadd(acc(i), "ft0", "ft1", acc(i)))

---------------------------------------------------------------------------------
(* dot.h *)
X(i) == <<"x", i>>
Y(i) == <<"y", i>>
Z(i) == <<"z", i>>
Vectors(n) == Array("x", n) \union Array("y", n) \union Array("z", n)
DotRead(n) == <<snrt_ssr_loop_1d(0, n, 1), snrt_ssr_loop_1d(1, n, 1),
                snrt_ssr_read(0, 1, X(0), 1), snrt_ssr_read(1, 1, Y(0), 1)>>
DotKernel(n, prog) == Kernel(prog, Vectors(n),
    Z(0) :> SumOver(n, LAMBDA i : Times(Raw(X(i)), Raw(Y(i)))))

dot_seq(n) == DotKernel(n,
    DotRead(n) \o <<Clear("acc0"), snrt_ssr_enable>>
    \o Frep(n - 1, StreamMacs(1))
    \o <<snrt_fpu_fence, snrt_ssr_disable, Store("acc0", Z(0))>>)

dot_seq_4_acc(n) == DotKernel(n,
    DotRead(n) \o Clears(4) \o <<snrt_ssr_enable>>
    \o Frep(n \div 4 - 1, StreamMacs(4))
    \o <<snrt_ssr_disable, Fadd("acc0", "acc0", "acc1"), Fadd("acc2", "acc2", "acc3"),
         Fadd("acc0", "acc0", "acc2"), snrt_fpu_fence, Store("acc0", Z(0))>>)

---------------------------------------------------------------------------------
(* axpy.h: z = alpha * x + y on every stride-th element *)
AxpyKernel(n, offset, stride, prog) == Kernel(prog, Vectors(n),
    [l \in {Z(i) : i \in {j \in Index(n) : j % stride = offset}} |->
        Times(Raw(<<"alpha", 0>>), Raw(X(l[2]))) (+) Raw(Y(l[2]))])

axpy_naive(n, offset, stride) == AxpyKernel(n, offset, stride,
    For(offset, n, stride, LAMBDA i :
        <<Load("x", X(i), 1), Load("y", Y(i), 1), Fmadd("z", "alpha", "x", "y"), Store("z", Z(i))>>)
    \o <<snrt_fpu_fence>>)

axpy_opt(n, offset, stride) == AxpyKernel(n, offset, stride,
    LET frac == n \div stride
    IN  Each(3, LAMBDA d : snrt_ssr_loop_1d(d, frac, stride))        \* SNRT_SSR_DM_ALL
        \o <<snrt_ssr_read(0, 1, X(offset), 1), snrt_ssr_read(1, 1, Y(offset), 1),
             snrt_ssr_write(2, 1, Z(offset), 1), snrt_ssr_enable>>
        \o Frep(frac - 1, <<Fmadd("ft2", "alpha", "ft0", "ft1")>>)
        \o <<snrt_fpu_fence, snrt_ssr_disable>>)

---------------------------------------------------------------------------------
(* gemv.h: z = alpha * a * x for m rows of a (columns if trans) *)
M(i) == <<"m", i>>
single_core_gemv(trans, m, n, lda, incx) ==
    LET at(i, j) == M(IF trans THEN j * lda + i ELSE i * lda + j)
    IN  Kernel(
          <<IF trans THEN snrt_ssr_loop_2d(0, n, m, lda, 1) ELSE snrt_ssr_loop_2d(0, n, m, 1, lda),
            snrt_ssr_loop_2d(1, n, m, incx, 0),
            snrt_ssr_read(0, 2, M(0), 1), snrt_ssr_read(1, 2, X(0), 1), snrt_ssr_enable>>
          \o For(0, m, 1, LAMBDA i :
                <<Clear("acc0")>> \o Frep(n - 1, StreamMacs(1))
                \o <<Mul("acc0", "acc0", "alpha"), Store("acc0", Z(i))>>)
          \o <<snrt_ssr_disable, snrt_fpu_fence>>,
          {at(i, j) : i \in Index(m), j \in Index(n)} \union {X(j * incx) : j \in Index(n)} \union Array("z", m),
          [l \in Array("z", m) |-> Times(SumOver(n, LAMBDA j :
                Times(Raw(at(l[2], j)), Raw(X(j * incx)))), Raw(<<"alpha", 0>>))])

---------------------------------------------------------------------------------
(* syrk.h: c = alpha * a * at' + beta * c on every stride-th row.  s gives the
   arguments: m, n, offset, stride, the register that holds alpha, whether beta
   is zero, and the locations a, at and c. *)
Mine(s) == {i \in Index(s.m) : i % s.stride = s.offset}
Rows(s, Body(_)) == For(s.offset, s.m, s.stride, Body)
(* multiply_opt: the old content is dropped, not multiplied, when beta is zero.
   alpha multiplies from the left in the C loops, from the right in the asm. *)
Syrk(s, left, value(_)) ==
    [l \in {At(s.c, i * s.m + j) : i \in Mine(s), j \in Index(s.m)} |->
        LET i == (l[2] - s.c[2]) \div s.m
            j == (l[2] - s.c[2]) % s.m
            p == SumOver(s.n, LAMBDA k : Times(value(At(s.a, i * s.n + k)), value(At(s.at, j * s.n + k))))
            alpha == Raw(<<s.alpha, 0>>)
        IN  (IF s.beta = 0 THEN EmptyBag ELSE Times(Raw(l), Raw(<<"beta", 0>>)))
                (+) (IF left THEN Times(alpha, p) ELSE Times(p, alpha))]
SyrkKernel(s, left, prog) ==
    Kernel(prog, {At(l, i) : l \in {s.a, s.at}, i \in Index(s.m * s.n)} \union {At(s.c, i) : i \in Index(s.m * s.m)},
           Syrk(s, left, Raw))

(* c = multiply_opt(c, beta); c += alpha * acc *)
ScaleAdd(s, l, r) ==
    (IF s.beta = 0 THEN <<Clear("c")>> ELSE <<Load("c", l, 1), Mul("c", "c", "beta")>>)
    \o <<Store("c", l), Load("c", l, 1), Fmadd("c", s.alpha, r, "c"), Store("c", l)>>
syrk_naive(s) ==
    Rows(s, LAMBDA i : For(0, s.m, 1, LAMBDA j :
        <<Clear("acc0")>>
        \o For(0, s.n, 1, LAMBDA k : <<Load("a0", At(s.a, i * s.n + k), 1), Load("at0", At(s.at, j * s.n + k), 1),
                                       Fmadd("acc0", "a0", "at0", "acc0")>>)
        \o ScaleAdd(s, At(s.c, i * s.m + j), "acc0")))

(* Four columns and four steps of k at a time: operands l(k) and r(j, k). *)
Unrolled4(l(_), r(_, _), k) ==
    Each(4, LAMBDA u : Load(R("a", u), l(k + u), 1))
    \o Loop(4, LAMBDA u : Each(4, LAMBDA j : Load(R("at", 4 * u + j), r(j, k + u), 1)))
    \o Loop(4, LAMBDA u : Each(4, LAMBDA j : Fmadd(acc(j), R("a", u), R("at", 4 * u + j), acc(j))))
syrk_baseline(s) ==
    Rows(s, LAMBDA i : For(0, s.m, 4, LAMBDA j :
        Clears(4)
        \o For(0, s.n, 4, LAMBDA k : Unrolled4(LAMBDA p : At(s.a, i * s.n + p),
                                               LAMBDA q, p : At(s.at, (j + q) * s.n + p), k))
        \o Loop(4, LAMBDA q : ScaleAdd(s, At(s.c, i * s.m + j + q), acc(q)))))

syrk_ssr(s) ==
    <<snrt_ssr_loop_3d(0, s.n, s.m \div 4, s.m \div s.stride, 1, 0, s.stride * s.n), snrt_ssr_repeat(0, 4),
      snrt_ssr_loop_4d(1, 4, s.n, s.m \div 4, s.m \div s.stride, s.n, 1, 4 * s.n, 0)>>
syrk_opt(s, setup_ssr) ==
    When(setup_ssr, syrk_ssr(s))
    \o <<snrt_ssr_read(0, 4, At(s.a, s.offset * s.n), 1), snrt_ssr_read(1, 4, s.at, 1), snrt_ssr_enable>>
    \o Rows(s, LAMBDA i : For(0, s.m, 4, LAMBDA j :
        LET c(q) == At(s.c, i * s.m + j + q)
        IN  Clears(4) \o Each(4, LAMBDA q : Load(R("c", q), c(q), 1))
            \o Frep(s.n - 1, StreamMacs(4))
            \o Each(4, LAMBDA q : Mul(acc(q), acc(q), s.alpha))
            \o Each(4, LAMBDA q : Fmadd(R("c", q), R("c", q), "beta", acc(q)))
            \o Each(4, LAMBDA q : Store(R("c", q), c(q)))))
    \o <<snrt_ssr_disable, snrt_fpu_fence>>

---------------------------------------------------------------------------------
(* covariance.h: the rows of data and datat are centred in place, then
   multiplied. *)
Centred(s, l) ==
    LET row == (l[2] \div s.n) * s.n
    IN  Raw(l) (+) Times(SumOver(s.n, LAMBDA j : Raw(<<l[1], row + j>>)),
                            Times(Raw(<<"inv_n", 0>>), Raw(<<"minus", 0>>)))
CovarianceKernel(s, left, prog) ==
    LET k == SyrkKernel(s, left, prog)
    IN  [k EXCEPT !.expect = Syrk(s, left, LAMBDA l : Centred(s, l))]

(* The C loops centre row i of both operands. *)
CentreRow(s, l) ==
    <<Clear("mean")>> \o For(0, s.n, 1, LAMBDA j : <<Load("x", At(l, j), 1), Fadd("mean", "mean", "x")>>)
    \o <<Mul("mean", "mean", "inv_n")>>
    \o For(0, s.n, 1, LAMBDA j : <<Load("x", At(l, j), 1), Fsub("x", "x", "mean"), Store("x", At(l, j))>>)
CentreRows(s) ==
    Rows(s, LAMBDA i : CentreRow(s, At(s.a, i * s.n)) \o CentreRow(s, At(s.at, i * s.n)))
    \o <<snrt_fpu_fence, snrt_cluster_hw_barrier>>
covariance_naive(s)    == CentreRows(s) \o syrk_naive(s)
covariance_baseline(s) == CentreRows(s) \o syrk_baseline(s)

(* Both passes over the rows are one stream of each operand; the second pass
   streams the centred rows back to where they came from. *)
covariance_centre(s) ==
    LET pairs == s.m \div (s.stride * 2)
        down  == s.n * s.stride
    IN  <<snrt_ssr_loop_4d(0, 2, s.n, 2, pairs, down, 1, 0, down * 2),
          snrt_ssr_loop_4d(1, 2, s.n, 2, pairs, down, 1, 0, down * 2), snrt_ssr_repeat(0, 1),
          snrt_ssr_loop_4d(2, 2, 2, s.n, pairs, s.at[2] - s.a[2], down, 1, down * 2),
          snrt_ssr_read(0, 4, At(s.a, s.offset * s.n), 1), snrt_ssr_read(1, 4, At(s.at, s.offset * s.n), 1),
          snrt_ssr_write(2, 4, At(s.a, s.offset * s.n), 1), snrt_ssr_enable>>
        \o For(s.offset, s.m, s.stride * 2, LAMBDA i :
            Clears(4)
            \o Frep(s.n - 1, Each(4, LAMBDA q : Fadd(acc(q), R("ft", q % 2), acc(q))))
            \o Each(4, LAMBDA q : Mul(acc(q), acc(q), "inv_n")) \o <<snrt_fpu_fence>>
            \o Frep(s.n - 1, Each(4, LAMBDA q : Fsub("ft2", R("ft", q % 2), acc(q)))))
        \o <<snrt_ssr_disable, snrt_fpu_fence, snrt_cluster_hw_barrier>>
covariance_opt(s) ==
    covariance_centre(s) \o syrk_ssr(s)
    \o <<snrt_ssr_read(0, 3, At(s.a, s.offset * s.n), 1), snrt_ssr_read(1, 4, s.at, 1), snrt_ssr_enable>>
    \o Rows(s, LAMBDA i : For(0, s.m, 4, LAMBDA j :
        Clears(4) \o Frep(s.n - 1, StreamMacs(4))
        \o Each(4, LAMBDA q : Mul(R("b", q), acc(q), s.alpha))
        \o Each(4, LAMBDA q : Store(R("b", q), At(s.c, i * s.m + j + q)))))
    \o <<snrt_ssr_disable, snrt_fpu_fence>>

---------------------------------------------------------------------------------
(* doitgen.h: z[i][j][k] = sum over l of x[i][j][l] * y[k][l], d = [r, q, s, core, cores] *)
DoitgenRows(d, mine) ==
    {i * d.q * d.s + j * d.s + k : i \in mine, j \in Index(d.q), k \in Index(d.s)}
DoitgenKernel(d, mine, prog) ==
    Kernel(prog, Array("x", d.r * d.q * d.s) \union Array("y", d.s * d.s) \union Array("z", d.r * d.q * d.s),
        [l \in {Z(e) : e \in DoitgenRows(d, mine)} |->
            LET k == l[2] % d.s
            IN  SumOver(d.s, LAMBDA j : Times(Raw(X(l[2] - k + j)), Raw(Y(k * d.s + j))))])
Cyclic(d) == {i \in Index(d.r) : i % d.cores = d.core}
Block(d)  == LET bound == d.r \div d.cores IN (bound * d.core)..(bound * (d.core + 1) - 1)

doitgen_naive(d) == DoitgenKernel(d, Cyclic(d),
    For(d.core, d.r, d.cores, LAMBDA i : For(0, d.q, 1, LAMBDA j : For(0, d.s, 1, LAMBDA k :
        LET row == i * d.q * d.s + j * d.s
        IN  <<Clear("z"), Store("z", Z(row + k))>>
            \o For(0, d.s, 1, LAMBDA e : <<Load("z", Z(row + k), 1), Load("x", X(row + e), 1),
                    Load("y", Y(k * d.s + e), 1), Fmadd("z", "x", "y", "z"), Store("z", Z(row + k))>>))))
    \o <<snrt_fpu_fence>>)

doitgen_baseline(d) == DoitgenKernel(d, Cyclic(d),
    For(d.core, d.r, d.cores, LAMBDA i : For(0, d.q, 1, LAMBDA j : For(0, d.s, 4, LAMBDA k :
        LET row == i * d.q * d.s + j * d.s
        IN  Clears(4)
            \o For(0, d.s, 4, LAMBDA e : Unrolled4(LAMBDA p : X(row + p), LAMBDA u, p : Y((k + u) * d.s + p), e))
            \o Stores(4, Z(row + k)))))
    \o <<snrt_fpu_fence>>)

doitgen_opt(d, setup_ssr) == DoitgenKernel(d, Block(d),
    LET bound  == d.r \div d.cores
        offset == bound * d.core
    IN  When(setup_ssr,
             <<snrt_ssr_loop_3d(0, d.s, d.s \div 4, d.q * bound, 1, 0, d.s), snrt_ssr_repeat(0, 4),
               snrt_ssr_loop_4d(1, 4, d.s, d.s \div 4, d.q * bound, d.s, 1, 4 * d.s, 0)>>)
        \o <<snrt_ssr_read(0, 4, X(offset * d.q * d.s), 1), snrt_ssr_read(1, 4, Y(0), 1), snrt_ssr_enable>>
        \o For(offset, offset + bound, 1, LAMBDA i : For(0, d.q, 1, LAMBDA j : For(0, d.s, 4, LAMBDA k :
            Clears(4) \o Frep(d.s - 1, StreamMacs(4)) \o Stores(4, Z(i * d.q * d.s + j * d.s + k)))))
        \o <<snrt_ssr_disable, snrt_fpu_fence>>)

---------------------------------------------------------------------------------
(* kbpcpa.h: z = k * (x + y), in the variants the preprocessor selects *)
KbpcpaKernel(l, prog) == Kernel(prog, Vectors(l),
    [e \in Array("z", l) |-> Times(Raw(<<"k", 0>>), Raw(X(e[2])) (+) Raw(Y(e[2])))])
kbpcpa_streams(l) == Each(3, LAMBDA d : snrt_ssr_loop_1d(d, l, 1))
    \o <<snrt_ssr_read(0, 1, X(0), 1), snrt_ssr_read(1, 1, Y(0), 1), snrt_ssr_write(2, 1, Z(0), 1), snrt_ssr_enable>>

ASM_BASE(l) == KbpcpaKernel(l,
    For(0, l, 1, LAMBDA i : <<Load("ft1", X(i), 1), Load("ft2", Y(i), 1), Fadd("ft3", "ft1", "ft2"),
                              Mul("ft0", "k", "ft3"), Store("ft0", Z(i))>>)
    \o <<snrt_fpu_fence>>)
SSR_BASE(l) == KbpcpaKernel(l, kbpcpa_streams(l)
    \o Frep(l - 1, <<Fadd("ft3", "ft0", "ft1"), Mul("ft2", "k", "ft3")>>)
    \o <<snrt_fpu_fence, snrt_ssr_disable>>)
SSR_UNROLL(l) == KbpcpaKernel(l, kbpcpa_streams(l)
    \o Frep(l \div 4 - 1, Each(4, LAMBDA i : Fadd(R("ft", 3 + i), "ft0", "ft1"))
                          \o Each(4, LAMBDA i : Mul("ft2", "k", R("ft", 3 + i))))
    \o <<snrt_fpu_fence, snrt_ssr_disable>>)
(* ft3 is chained: four sums queue up in it. *)
SCSSR(l) == KbpcpaKernel(l, kbpcpa_streams(l) \o <<snrt_sc_enable({"ft3"})>>
    \o Frep(l \div 4 - 1, Each(4, LAMBDA i : Fadd("ft3", "ft0", "ft1"))
                          \o Each(4, LAMBDA i : Mul("ft2", "k", "ft3")))
    \o <<snrt_fpu_fence, snrt_sc_disable, snrt_ssr_disable>>)
=================================================================================
