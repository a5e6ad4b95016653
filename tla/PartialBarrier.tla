---------------------------- MODULE PartialBarrier -----------------------------
(***************************************************************************)
(* snrt_partial_barrier (sw/runtime/src/sync.h), the generic software      *)
(* barrier behind __kmpc_barrier (sw/runtime/src/omp/kmp.c): N harts call  *)
(* it over and over on one snrt_barrier_t {cnt, iteration}.  Every access  *)
(* to the two shared words is a step of its own.                           *)
(***************************************************************************)
EXTENDS Integers, FiniteSets

CONSTANTS
    Harts,         \* the harts that invoke the barrier; n in the code is their number
    ItMod          \* number of values of the uint32_t iteration word (2^32 in the code)

ASSUME HartsAssumption == IsFiniteSet(Harts) /\ Harts # {}
ASSUME ItModAssumption == ItMod \in Nat /\ ItMod > 1

VARIABLES
    cnt,           \* barr->cnt
    iteration,     \* barr->iteration
    prev_it,       \* the local prev_it of each hart
    pc             \* the next access of each hart

vars == <<cnt, iteration, prev_it, pc>>

n == Cardinality(Harts)

(***************************************************************************)
(* Program counters: "outside" the function, about to "add" to cnt, about  *)
(* to "reset" cnt or to "bump" iteration (the last hart only), in the      *)
(* "spin" loop, about to "return" after the bump.                          *)
(***************************************************************************)
PCs == {"outside", "add", "reset", "bump", "spin", "return"}

Init ==
    /\ cnt = 0
    /\ iteration = 0
    /\ prev_it = [h \in Harts |-> 0]
    /\ pc = [h \in Harts |-> "outside"]

\* Mutant: the iteration is read after the counter was incremented
ReadIterationNot(h) ==
    /\ pc[h] = "outside"
    /\ pc' = [pc EXCEPT ![h] = "add"]
    /\ UNCHANGED <<cnt, iteration, prev_it>>

(* uint32_t prev_it = barr->iteration; *)
ReadIteration(h) ==
    /\ pc[h] = "outside"
    /\ prev_it' = [prev_it EXCEPT ![h] = iteration]
    /\ pc' = [pc EXCEPT ![h] = "add"]
    /\ UNCHANGED <<cnt, iteration>>

\* Mutant: the iteration is bumped by a hart that did not wait for the last one
AddFetchEarly(h) ==
    /\ pc[h] = "add"
    /\ cnt' = cnt + 1
    /\ pc' = [pc EXCEPT ![h] = IF cnt + 2 = n THEN "reset" ELSE "spin"]
    /\ UNCHANGED <<iteration, prev_it>>

(* cnt = __atomic_add_fetch(&barr->cnt, 1), and the branch on cnt == n. *)
AddFetch(h) ==
    /\ pc[h] = "add"
    /\ cnt' = cnt + 1
    /\ pc' = [pc EXCEPT ![h] = IF cnt + 1 = n THEN "reset" ELSE "spin"]
    /\ UNCHANGED <<iteration, prev_it>>

\* Mutant: the counter is not reset for the next round
ResetCountNot(h) ==
    /\ pc[h] = "reset"
    /\ pc' = [pc EXCEPT ![h] = "bump"]
    /\ UNCHANGED <<cnt, iteration, prev_it>>

(* barr->cnt = 0; *)
ResetCount(h) ==
    /\ pc[h] = "reset"
    /\ cnt' = 0
    /\ pc' = [pc EXCEPT ![h] = "bump"]
    /\ UNCHANGED <<iteration, prev_it>>

(* __atomic_add_fetch(&barr->iteration, 1) *)
BumpIteration(h) ==
    /\ pc[h] = "bump"
    /\ iteration' = (iteration + 1) % ItMod
    /\ pc' = [pc EXCEPT ![h] = "return"]
    /\ UNCHANGED <<cnt, prev_it>>

(* while (prev_it == barr->iteration); and the return that follows it *)
SpinExit(h) ==
    /\ pc[h] = "spin"
    /\ prev_it[h] # iteration
    /\ pc' = [pc EXCEPT ![h] = "outside"]
    /\ UNCHANGED <<cnt, iteration, prev_it>>

(* the last hart's return *)
Return(h) ==
    /\ pc[h] = "return"
    /\ pc' = [pc EXCEPT ![h] = "outside"]
    /\ UNCHANGED <<cnt, iteration, prev_it>>

Step(h) ==
    \/ ReadIteration(h)
    \/ AddFetch(h)
    \/ ResetCount(h)
    \/ BumpIteration(h)
    \/ SpinExit(h)
    \/ Return(h)

Next == \E h \in Harts : Step(h)

(***************************************************************************)
(* Every hart runs on its own core and keeps executing, so each of its     *)
(* steps is weakly fair.  That a hart calls the barrier again              *)
(* (ReadIteration) is the caller's obligation ("exactly the specified      *)
(* number of harts must invoke this function").                            *)
(***************************************************************************)
Fairness == \A h \in Harts : WF_vars(Step(h))

Spec == Init /\ [][Next]_vars

FairSpec == Spec /\ Fairness
--------------------------------------------------------------------------------
(* cnt never exceeds the number of harts, so the last one is always recognised
   by cnt == n. *)
TypeOK ==
    /\ cnt \in 0..n
    /\ iteration \in 0..(ItMod - 1)
    /\ prev_it \in [Harts -> 0..(ItMod - 1)]
    /\ pc \in [Harts -> PCs]

(* Harts that have been counted in the current round. *)
Waiting == {h \in Harts :
    \/ pc[h] = "spin" /\ prev_it[h] = iteration
    \/ pc[h] \in {"reset", "bump"}}

(* The hart that closes the round. *)
Closing == {h \in Harts : pc[h] \in {"reset", "bump"}}

(* A hart about to add read the iteration of the round it will be counted in,
   so its spin loop cannot miss the bump of that round. *)
FreshIteration ==
    \A h \in Harts : pc[h] \in {"add", "reset", "bump"} => prev_it[h] = iteration

(* Only one hart closes a round, and when it does everybody is in. *)
ClosedByLast ==
    /\ \A h, k \in Closing : h = k
    /\ Closing # {} => Waiting = Harts

(* cnt counts exactly the waiting harts until the closing hart resets it. *)
CountIsWaiting ==
    cnt = IF \E h \in Harts : pc[h] = "bump" THEN 0 ELSE Cardinality(Waiting)

(* The inductive invariant of the barrier: counter, iteration word and the
   positions of the harts always describe one round. *)
IInv == TypeOK /\ FreshIteration /\ ClosedByLast /\ CountIsWaiting

(***************************************************************************)
(* The refinement mapping onto the abstract barrier.                       *)
(***************************************************************************)
stageBar == [h \in Harts |->
    IF h \in Waiting THEN "waiting"
    ELSE IF pc[h] \in {"spin", "return"} THEN "released" ELSE "outside"]

Abs == INSTANCE AbstractBarrier WITH Participants <- Harts, stage <- stageBar

(* snrt_partial_barrier implements the abstract barrier: no hart returns from
   a round that some hart has not entered, although cnt and iteration are
   updated in two steps and harts re-enter while others still spin. *)
ImplementsBarrier == Abs!Spec

(* No hart spins forever: the bump of a round is never missed, as long as
   all harts keep calling. *)
EveryoneReturns == \A h \in Harts : pc[h] = "spin" ~> pc[h] = "outside"
================================================================================
