---------------------------------- MODULE Dma -----------------------------------
(***************************************************************************)
(* The DMA driver (sw/runtime/src/dma.h) as the operations it issues to the *)
(* engine, and the other operations a core of a cluster program performs.  *)
(* A location is <<array, cluster, offset>>, offset in elements: the L1     *)
(* arrays exist once per cluster, arrays in global memory have cluster 0.  *)
(* A transfer is the set of <<source, destination>> moves the engine makes; *)
(* sizes and strides are in elements, so `prec` cancels out.               *)
(***************************************************************************)
EXTENDS Naturals, Sequences, SequencesExt

(* f itself; TLC then keeps the table of its values. *)
Table(f) == f @@ <<>>

(* Pointers. *)
Global(array, off)   == <<array, 0, off>>
Local(c, array, off) == <<array, c, off>>
At(p, i)             == <<p[1], p[2], p[3] + i>>

(* The operations of a core. *)
Wait           == [op |-> "wait"]                      \* snrt_dma_wait_all
Barrier(cores) == [op |-> "barrier", who |-> cores]
\* f[l] is the sum of products of locations that is stored at l
Compute(f)     == [op |-> "compute", out |-> Table(f)]
Dma(moves)     == [op |-> "dma", moves |-> moves]

(* Loops and conditionals of a program. *)
Loop(n, Body(_)) == FlattenSeq([i \in 1..n |-> Body(i - 1)])
When(p, ops)     == IF p THEN ops ELSE <<>>

(* The cores of a cluster: compute cores 0..nc-1 and the DM core nc. *)
ClusterCores(cl, nc) == {cl} \X (0..nc)
IsDm(c, nc)          == c[2] = nc
HwBarrier(c, nc)     == Barrier(ClusterCores(c[1], nc))
GlobalBarrierOp(ncl, nc) == Barrier((0..(ncl - 1)) \X (0..nc))
Program(ncl, nc, P(_)) == Table([c \in (0..(ncl - 1)) \X (0..nc) |-> P(c)])
\* Mutant: the DM core goes on without the barrier
CopyArgsNoBarrier(c, nc) ==
    IF IsDm(c, nc) THEN <<Dma({<<Global("args", 0), Local(c[1], "largs", 0)>>}), Wait>>
    ELSE <<HwBarrier(c, nc)>>

(* Copy of the job's arguments to L1 by the DM core, before any core uses them. *)
CopyArgs(c, nc) ==
    When(IsDm(c, nc), <<Dma({<<Global("args", 0), Local(c[1], "largs", 0)>>}), Wait>>)
    \o <<HwBarrier(c, nc)>>

snrt_dma_start_1d(dst, src, size) ==
    Dma({<<At(src, i), At(dst, i)>> : i \in 0..(size - 1)})

snrt_dma_start_2d(dst, src, size, dst_stride, src_stride, repeat) ==
    Dma({<<At(src, r * src_stride + i), At(dst, r * dst_stride + i)>> :
            r \in 0..(repeat - 1), i \in 0..(size - 1)})

snrt_dma_load_1d_tile(dst, src, tile_idx, tile_size) ==
    snrt_dma_start_1d(dst, At(src, tile_idx * tile_size), tile_size)

snrt_dma_store_1d_tile(dst, src, tile_idx, tile_size) ==
    snrt_dma_start_1d(At(dst, tile_idx * tile_size), src, tile_size)

snrt_dma_1d_to_2d(dst, src, size, row_size, stride) ==
    snrt_dma_start_2d(dst, src, row_size, stride, row_size, size \div row_size)

snrt_dma_2d_to_1d(dst, src, size, row_size, stride) ==
    snrt_dma_start_2d(dst, src, row_size, row_size, stride, size \div row_size)

(* Where a tile starts in a 2D array. *)
TileOffset(x1_idx, x0_idx, x1_size, x0_size, full_x0_size) ==
    x0_idx * x0_size + x1_idx * x1_size * full_x0_size

snrt_dma_load_2d_tile_ld(dst, src, x1_idx, x0_idx, x1_size, x0_size, full_x0_size, tile_ld) ==
    snrt_dma_start_2d(dst, At(src, TileOffset(x1_idx, x0_idx, x1_size, x0_size, full_x0_size)),
                      x0_size, tile_ld, full_x0_size, x1_size)

snrt_dma_load_2d_tile(dst, src, x1_idx, x0_idx, x1_size, x0_size, full_x0_size) ==
    snrt_dma_load_2d_tile_ld(dst, src, x1_idx, x0_idx, x1_size, x0_size, full_x0_size, x0_size)

snrt_dma_store_2d_tile_ld(dst, src, x1_idx, x0_idx, x1_size, x0_size, full_x0_size, tile_ld) ==
    snrt_dma_start_2d(At(dst, TileOffset(x1_idx, x0_idx, x1_size, x0_size, full_x0_size)), src,
                      x0_size, full_x0_size, tile_ld, x1_size)

snrt_dma_store_2d_tile(dst, src, x1_idx, x0_idx, x1_size, x0_size, full_x0_size) ==
    snrt_dma_store_2d_tile_ld(dst, src, x1_idx, x0_idx, x1_size, x0_size, full_x0_size, x0_size)

(* The core sets the first line (64 bytes, `line` elements) and the engine
   copies it over the region, the first line included; a length that is not a
   multiple of the line, or a single line, is set by the core alone. *)
snrt_dma_memset(ptr, value, len, line) ==
    LET use_dma == len % line = 0 /\ len > line
        nbytes  == IF len < line \/ ~use_dma THEN len ELSE line
    IN  <<Compute([l \in {At(ptr, i) : i \in 0..(nbytes - 1)} |-> {<<value>>}])>>
        \o When(use_dma, <<snrt_dma_start_2d(ptr, ptr, line, line, 0, len \div line), Wait>>)
=================================================================================
