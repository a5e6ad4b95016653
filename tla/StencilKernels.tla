----------------------------- MODULE StencilKernels -----------------------------
(***************************************************************************)
(* The 27-point stencils of sw/kernels/misc (box3d1r, j3d27pt) as programs  *)
(* of module Streams.  Two indirect streams bring the operands of a block  *)
(* of two by two points; the third mover streams results out (baseline2,   *)
(* opt2) or coefficients in (baseline3, baseline4); opt1 and opt2 keep the *)
(* four sums in one chained register.  g = [r, nx, ny, nz]; scaled tells   *)
(* j3d27pt, which multiplies by fact, from box3d1r.                        *)
(***************************************************************************)
EXTENDS Ssr

Cell(g, z, y, x) == z * g.ny * g.nx + y * g.nx + x
Window == [p \in 0..26 |-> <<p \div 9, (p \div 3) % 3, p % 3>>]
Tap(g, p)  == Cell(g, Window[p][1], Window[p][2], Window[p][3])

(* What the plain loops compute: the sum over the window around a point. *)
Interior(g) == {Cell(g, z, y, x) : z \in g.r..(g.nz - g.r - 1), y \in g.r..(g.ny - g.r - 1),
                                   x \in g.r..(g.nx - g.r - 1)}
StencilKernel(g, scaled, prog) ==
    LET size == g.nx * g.ny * g.nz
    IN  Kernel(prog, Array("c", 27) \union Array("ca", 27) \union Array("A", size) \union Array("A_", size),
        [l \in {<<"A_", i>> : i \in Interior(g)} |->
            LET sum == SumOver(27, LAMBDA p :
                           Times(Raw(<<"c", p>>), Raw(<<"A", l[2] + Tap(g, p) - Cell(g, 1, 1, 1)>>)))
            IN  IF scaled THEN Times(Raw(<<"fact", 0>>), sum) ELSE sum])

Planes(g, Body(_))   == Loop(g.nz - 2 * g.r, Body)
RowPairs(g, Body(_)) == Loop((g.ny - 2 * g.r + 1) \div 2, LAMBDA y : Body(2 * y))
Blocks(g, Body(_))   == Loop((g.nx - 2 * g.r + 1) \div 2, LAMBDA x : Body(2 * x))

naive(g, scaled) ==
    Planes(g, LAMBDA z : Loop(g.ny - 2 * g.r, LAMBDA y : Loop(g.nx - 2 * g.r, LAMBDA x :
        <<Clear("acc")>>
        \o Loop(27, LAMBDA p : <<Load("c", <<"c", p>>, 1), Load("a", <<"A", Cell(g, z, y, x) + Tap(g, p)>>, 1),
                                 Fmadd("acc", "c", "a", "acc")>>)
        \o When(scaled, <<Mul("acc", "fact", "acc")>>)
        \o <<Store("acc", <<"A_", Cell(g, z + g.r, y + g.r, x + g.r)>>)>>)))
    \o <<snrt_fpu_fence>>

---------------------------------------------------------------------------------
(* The index streams: ft0 alternates between the points at 0 and sy, ft1
   between sx and sb. *)
sides(g)  == <<0, 1, g.nx, g.nx + 1>>
i0(g)     == FlattenSeq([p \in 1..27 |-> <<Tap(g, p - 1), Tap(g, p - 1) + g.nx>>])
i1(g)     == FlattenSeq([p \in 1..27 |-> <<Tap(g, p - 1) + 1, Tap(g, p - 1) + g.nx + 1>>])
indirect  == <<snrt_issr_set_bound(0, 54), snrt_issr_set_bound(1, 54)>>
start_issr(g, z, y, x) ==
    <<snrt_issr_set_ptrs(0, <<"A", Cell(g, z, y, x)>>, i0(g)),
      snrt_issr_set_ptrs(1, <<"A", Cell(g, z, y, x)>>, i1(g))>>

(* Four points: point i takes ft0 or ft1 and sums in register sum(i). *)
Sums(i)    == R("fa", i)
OneSum(i)  == "fa0"
four(Op(_)) == Each(4, Op)
first_tap(coef, sum(_))     == four(LAMBDA i : Mul(sum(i), coef, R("ft", i % 2)))
tap(coef, sum(_))           == four(LAMBDA i : Fmadd(sum(i), coef, R("ft", i % 2), sum(i)))
last_tap(coef, sum(_), dst) == four(LAMBDA i : Fmadd(dst, coef, R("ft", i % 2), sum(i)))
scale(sum(_))               == four(LAMBDA i : Mul(sum(i), "fact", sum(i)))
scale_out(sum(_))           == four(LAMBDA i : Mul("ft2", "fact", sum(i)))
store(g, z, y, x, sum(_)) ==
    four(LAMBDA i : Store(sum(i), <<"A_", Cell(g, z + g.r, y + g.r, x + g.r) + sides(g)[i + 1]>>))

(* The registers of the 27 coefficients.  Without chaining four of them are
   loaded again in every block. *)
saved      == [i \in 1..12 |-> R("fs", i - 1)]
temporary  == [i \in 1..9 |-> R("ft", i + 2)]
Resident   == temporary \o saved \o [i \in 1..6 |-> R("fa", i)]
Reloaded   == temporary \o SubSeq(saved, 1, 10) \o <<"fs10", "fs11", "fa5", "fa6", "fs10", "fs11", "fa5", "fa6">>
load_c(reg, from, to) == [i \in 1..(to - from + 1) |-> Load(reg[from + i], <<"c", from + i - 1>>, 1)]
taps(reg, from, to, sum(_)) == Loop(to - from + 1, LAMBDA i : tap(reg[from + i + 1], sum))

(* Taps 0 to 25 of a block and tap 26, whose results go to last. *)
block_reloaded(last) ==
    first_tap(Reloaded[1], Sums) \o taps(Reloaded, 1, 18, Sums)
    \o load_c(Reloaded, 19, 22) \o taps(Reloaded, 19, 22, Sums)
    \o load_c(Reloaded, 23, 26) \o taps(Reloaded, 23, 25, Sums) \o last
block_chained(last) == first_tap(Resident[1], OneSum) \o taps(Resident, 1, 25, OneSum) \o last
block_streamed(rest) == first_tap("ft2", Sums) \o rest

(* The third mover, once per row: out to A_, or the coefficients again for
   every block. *)
results_out(g) == snrt_ssr_loop_3d(2, 2, 2, (g.nx - 2 * g.r) \div 2, 1, g.nx, 2)
start_out(g, z, y, x) == When(x = 0, <<snrt_ssr_write(2, 3, <<"A_", Cell(g, z + 1, y + 1, x + 1)>>, 1)>>)
coefficients_in(g) == snrt_ssr_loop_2d(2, 27, (g.nx - 2 * g.r) \div 2, 1, 0)
start_in(x) == When(x = 0, <<snrt_ssr_read(2, 2, <<"ca", 0>>, 1)>>)
(* The copy ca of the coefficients. *)
copy_c == Loop(27, LAMBDA p : <<Load("c", <<"c", p>>, 1), Store("c", <<"ca", p>>)>>)

grid(g, Row(_), Block(_, _, _)) ==
    Planes(g, LAMBDA z : RowPairs(g, LAMBDA y : Row(y) \o Blocks(g, LAMBDA x :
        start_issr(g, z, y, x) \o Block(z, y, x))))
no_row(y) == <<>>
leave == <<snrt_ssr_disable, snrt_fpu_fence>>

baseline1(g, scaled) ==
    indirect \o load_c(Reloaded, 0, 18) \o <<snrt_ssr_enable>>
    \o grid(g, no_row, LAMBDA z, y, x :
           block_reloaded(tap("fa6", Sums)) \o When(scaled, scale(Sums)) \o store(g, z, y, x, Sums))
    \o leave

baseline2(g, scaled) ==
    indirect \o load_c(Reloaded, 0, 18) \o <<snrt_ssr_enable>>
    \o grid(g, LAMBDA y : <<results_out(g)>>, LAMBDA z, y, x :
           start_out(g, z, y, x)
           \o block_reloaded(IF scaled THEN tap("fa6", Sums) \o scale_out(Sums) ELSE last_tap("fa6", Sums, "ft2")))
    \o leave

baseline3(g, scaled) ==
    indirect \o copy_c \o <<snrt_ssr_repeat(2, 4), snrt_ssr_enable>>
    \o grid(g, LAMBDA y : <<coefficients_in(g)>>, LAMBDA z, y, x :
           start_in(x) \o block_streamed(Loop(26, LAMBDA p : tap("ft2", Sums)))
           \o When(scaled, scale(Sums)) \o store(g, z, y, x, Sums))
    \o leave

baseline4(g, scaled) ==
    indirect \o copy_c \o <<snrt_ssr_repeat(2, 4), snrt_ssr_enable>>
    \o grid(g, LAMBDA y : <<coefficients_in(g)>>, LAMBDA z, y, x :
           start_in(x) \o block_streamed(Frep(27 - 2, tap("ft2", Sums)))
           \o When(scaled, scale(Sums)) \o store(g, z, y, x, Sums))
    \o leave

opt1(g, scaled) ==
    indirect \o load_c(Resident, 0, 26) \o <<snrt_ssr_enable, snrt_sc_enable({"fa0"})>>
    \o grid(g, no_row, LAMBDA z, y, x :
           block_chained(tap("fa6", OneSum)) \o When(scaled, scale(OneSum)) \o store(g, z, y, x, OneSum))
    \o <<snrt_sc_disable>> \o leave

opt2(g, scaled) ==
    indirect \o load_c(Resident, 0, 26) \o <<snrt_ssr_enable, snrt_sc_enable({"fa0"})>>
    \o grid(g, LAMBDA y : <<results_out(g)>>, LAMBDA z, y, x :
           start_out(g, z, y, x)
           \o block_chained(IF scaled THEN tap("fa6", OneSum) \o scale_out(OneSum)
                            ELSE last_tap("fa6", OneSum, "ft2")))
    \o <<snrt_sc_disable>> \o leave

---------------------------------------------------------------------------------
box3d1r_naive(g)     == StencilKernel(g, FALSE, naive(g, FALSE))
box3d1r_baseline1(g) == StencilKernel(g, FALSE, baseline1(g, FALSE))
box3d1r_baseline2(g) == StencilKernel(g, FALSE, baseline2(g, FALSE))
box3d1r_baseline3(g) == StencilKernel(g, FALSE, baseline3(g, FALSE))
box3d1r_baseline4(g) == StencilKernel(g, FALSE, baseline4(g, FALSE))
box3d1r_opt1(g)      == StencilKernel(g, FALSE, opt1(g, FALSE))
box3d1r_opt2(g)      == StencilKernel(g, FALSE, opt2(g, FALSE))
(* j3d27pt has r = 1. *)
j3d27pt_naive(g)     == StencilKernel(g, TRUE, naive(g, TRUE))
j3d27pt_baseline1(g) == StencilKernel(g, TRUE, baseline1(g, TRUE))
j3d27pt_baseline2(g) == StencilKernel(g, TRUE, baseline2(g, TRUE))
j3d27pt_baseline3(g) == StencilKernel(g, TRUE, baseline3(g, TRUE))
j3d27pt_baseline4(g) == StencilKernel(g, TRUE, baseline4(g, TRUE))
j3d27pt_opt1(g)      == StencilKernel(g, TRUE, opt1(g, TRUE))
j3d27pt_opt2(g)      == StencilKernel(g, TRUE, opt2(g, TRUE))
=================================================================================
