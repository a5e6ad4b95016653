------------------------------- MODULE MonteCarlo -------------------------------
(***************************************************************************)
(* calculate_psum_optimized of sw/kernels/misc/montecarlo/pi_estimation:   *)
(* an integer thread draws the points of one batch and adds up the         *)
(* comparisons of another while the FPU, fed by streams, works on a third. *)
(* The two threads of one core meet only in snrt_fpu_fence; the buffers    *)
(* x, y and z exist twice.  Point i is <<"px", i>>, <<"py", i>>.           *)
(***************************************************************************)
EXTENDS Ssr

(* Register i of the four points a repetition of the FP loop works on. *)
fx(i) == R("fa", 2 * i)
fy(i) == R("fa", 2 * i + 1)
ft(i) == R("ft", 3 + i)

(* Conversion of the integers and scaling to the unit square.  The instructions
   for x and y alternate; fcvt copies what it converts. *)
fcvt == FlattenSeq(Each(4, LAMBDA i : <<Fadd(fx(i), "ft0", "zero"), Fadd(fy(i), "ft1", "zero")>>))
normalize == Each(4, LAMBDA i : Mul(fx(i), fx(i), "div")) \o Each(4, LAMBDA i : Mul(fy(i), fy(i), "div"))

(* flt.d.copift is represented by the difference whose sign it tests. *)
EVAL_X2_PLUS_Y2_UNROLL4 ==
    Each(4, LAMBDA i : Mul(fx(i), fx(i), fx(i))) \o Each(4, LAMBDA i : Fmadd(fy(i), fy(i), fy(i), fx(i)))
EVAL_POLY_UNROLL4 ==
    Each(4, LAMBDA i : Mul(fy(i), fy(i), "three"))
    \o Each(4, LAMBDA i : Mul(ft(i), fx(i), fx(i)))
    \o Each(4, LAMBDA i : Fmadd(ft(i), ft(i), fx(i), ft(i)))
    \o Each(4, LAMBDA i : Fsub(fx(i), ft(i), fx(i)))
    \o Each(4, LAMBDA i : Fadd(fx(i), fx(i), "two"))
FLT_SSR_UNROLL_4(rhs(_)) == Each(4, LAMBDA i : Fsub("ft2", fy(i), rhs(i)))

fp_batch(batch, poly) ==
    Frep(batch \div 4 - 1,
         fcvt \o normalize
         \o (IF poly THEN EVAL_POLY_UNROLL4 \o FLT_SSR_UNROLL_4(fx)
             ELSE EVAL_X2_PLUS_Y2_UNROLL4 \o FLT_SSR_UNROLL_4(LAMBDA i : "one")))

(* Four points are drawn and stored at a time, eight comparisons added. *)
draw(batch, b, first) ==
    Loop(batch \div 4, LAMBDA n :
        <<IntegerStore([l \in {<<v, b * batch + 4 * n + i>> : v \in {"x", "y"}, i \in 0..3} |->
                           <<<<"p" \o l[1], first + l[2] - b * batch>>>>])>>)
accumulate(batch, b) ==
    Loop(batch \div 8, LAMBDA n :
        <<IntegerStore([l \in Array("temp", 8) |-> <<l, <<"z", b * batch + 8 * n + l[2]>>>>])>>)

(* Iteration i: the FPU takes the batch drawn in iteration i - 1, the integer
   thread draws the next and adds up the comparisons of iteration i - 1. *)
fp_buffer(i)  == i % 2
int_buffer(i) == (i + 1) % 2

psum_iteration(batch, n_batches, poly, i) ==
    When(i > 0 /\ i < n_batches + 1,
         LET b == fp_buffer(i) * batch
         IN  <<snrt_ssr_read(0, 1, <<"x", b>>, 1), snrt_ssr_read(1, 1, <<"y", b>>, 1),
               snrt_ssr_write(2, 1, <<"z", b>>, 1), snrt_ssr_enable>> \o fp_batch(batch, poly))
    \o When(i < n_batches, draw(batch, int_buffer(i), i * batch))
    \o When(i > 1, accumulate(batch, int_buffer(i)))
    \o <<snrt_fpu_fence, snrt_ssr_disable>>

calculate_psum_optimized(batch, n_batches, poly) ==
    LET n == batch * n_batches
        X(i) == Times(Raw(<<"px", i>>), Raw(<<"div", 0>>))
        Y(i) == Times(Raw(<<"py", i>>), Raw(<<"div", 0>>))
        X2(i) == Times(X(i), X(i))
        minus(b) == Times(b, Raw(<<"minus", 0>>))
        Hit(i) == IF poly
                  THEN Times(Y(i), Raw(<<"three", 0>>))
                       (+) minus(Times(X2(i), X(i)) (+) X2(i) (+) minus(X(i)) (+) Raw(<<"two", 0>>))
                  ELSE Times(Y(i), Y(i)) (+) X2(i) (+) minus(Raw(<<"one", 0>>))
    IN  Kernel(Each(3, LAMBDA d : snrt_ssr_loop_1d(d, batch, 1))
               \o Loop(n_batches + 2, LAMBDA i : psum_iteration(batch, n_batches, poly, i)),
               Array("px", n) \union Array("py", n) \union Array("x", 2 * batch) \union Array("y", 2 * batch)
                   \union Array("z", 2 * batch) \union Array("temp", 8),
               [l \in Array("temp", 8) |->
                   Raw(l) (+) SumOver(n \div 8, LAMBDA i : Hit(8 * i + l[2]))])
=================================================================================
