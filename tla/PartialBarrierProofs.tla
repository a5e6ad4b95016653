-------------------------- MODULE PartialBarrierProofs --------------------------
(***************************************************************************)
(* For every finite set of harts and every width of the iteration word:    *)
(* IInv is an inductive invariant of snrt_partial_barrier, and under it    *)
(* every access of a hart is a step of the abstract barrier or a stutter.  *)
(***************************************************************************)
EXTENDS PartialBarrier, FiniteSetTheorems, TLAPS

(* The uint32_t increment of the iteration word never yields the value it
   started from: what the spin loop compares against always changes. *)
LEMMA BumpChanges ==
    ASSUME NEW i \in 0..(ItMod - 1)
    PROVE  /\ (i + 1) % ItMod \in 0..(ItMod - 1)
           /\ (i + 1) % ItMod # i
<1> USE ItModAssumption
<1>1. CASE i = ItMod - 1
  <2>1. (i + 1) % ItMod = 0
    BY <1>1
  <2> QED
    BY <2>1, <1>1
<1>2. CASE i # ItMod - 1
  <2>1. i + 1 \in 0..(ItMod - 1)
    BY <1>2
  <2>2. (i + 1) % ItMod = i + 1
    BY <2>1
  <2> QED
    BY <2>1, <2>2
<1> QED
  BY <1>1, <1>2

(* The number of harts that wait in the barrier is bounded by n, grows by one
   with a new arrival, and reaches n only when all harts have arrived. *)
LEMMA CountFacts ==
    ASSUME NEW W \in SUBSET Harts, NEW h \in Harts, h \notin W
    PROVE  /\ IsFiniteSet(W)
           /\ n \in Nat
           /\ Cardinality(W) \in Nat
           /\ Cardinality(W) < n
           /\ Cardinality(W \cup {h}) = Cardinality(W) + 1
           /\ Cardinality(W) + 1 = n => W \cup {h} = Harts
<1>1. IsFiniteSet(W) /\ Cardinality(W) <= Cardinality(Harts)
      /\ (Cardinality(W) = Cardinality(Harts) => W = Harts)
  BY HartsAssumption, FS_Subset
<1>2. Cardinality(W) \in Nat /\ Cardinality(Harts) \in Nat
  BY <1>1, HartsAssumption, FS_CardinalityType
<1>3. IsFiniteSet(W \cup {h}) /\ Cardinality(W \cup {h}) = Cardinality(W) + 1
  BY <1>1, FS_AddElement
<1>4. W \cup {h} \subseteq Harts
  OBVIOUS
<1>5. Cardinality(W \cup {h}) = Cardinality(Harts) => W \cup {h} = Harts
  BY <1>4, HartsAssumption, FS_Subset
<1> QED
  BY <1>1, <1>2, <1>3, <1>5 DEF n

(* Nobody waits, nobody closes, the counter is zero at the start. *)
LEMMA InitIInv == Init => IInv
<1> SUFFICES ASSUME Init PROVE IInv
  OBVIOUS
<1>1. Waiting = {} /\ Closing = {}
  BY DEF Init, Waiting, Closing
<1>2. n \in Nat
  BY HartsAssumption, FS_CardinalityType DEF n
<1>3. Cardinality(Waiting) = 0
  BY <1>1, FS_EmptySet
<1>4. TypeOK
  BY <1>2, ItModAssumption DEF Init, TypeOK, PCs
<1>5. FreshIteration /\ ClosedByLast
  BY <1>1 DEF Init, FreshIteration, ClosedByLast
<1>6. CountIsWaiting
  BY <1>3 DEF Init, CountIsWaiting
<1> QED
  BY <1>4, <1>5, <1>6 DEF IInv

(* How each access changes the set of waiting and of closing harts.  The
   refinement and the invariance proof both rest on these facts. *)
LEMMA ReadSets ==
    ASSUME IInv, NEW h \in Harts, ReadIteration(h)
    PROVE  Waiting' = Waiting /\ Closing' = Closing /\ Closing = {} /\ h \notin Waiting
BY DEF IInv, TypeOK, ReadIteration, Waiting, Closing, ClosedByLast

LEMMA AddSets ==
    ASSUME IInv, NEW h \in Harts, AddFetch(h)
    PROVE  /\ h \notin Waiting
           /\ Closing = {}
           /\ Waiting' = Waiting \cup {h}
           /\ Closing' = IF cnt + 1 = n THEN {h} ELSE {}
<1>1. h \notin Waiting /\ Closing = {}
  BY DEF IInv, TypeOK, AddFetch, Waiting, Closing, ClosedByLast
<1>2. prev_it[h] = iteration
  BY DEF IInv, FreshIteration, AddFetch
<1>3. Waiting' = Waiting \cup {h}
  BY <1>1, <1>2 DEF IInv, TypeOK, AddFetch, Waiting
<1>4. Closing' = IF cnt + 1 = n THEN {h} ELSE {}
  BY <1>1 DEF IInv, TypeOK, AddFetch, Closing
<1> QED
  BY <1>1, <1>3, <1>4

LEMMA ResetSets ==
    ASSUME IInv, NEW h \in Harts, ResetCount(h)
    PROVE  Waiting' = Waiting /\ Closing' = Closing /\ Closing = {h} /\ Waiting = Harts
<1>1. Waiting' = Waiting /\ Closing' = Closing
  BY DEF IInv, TypeOK, ResetCount, Waiting, Closing
<1>2. Closing = {h} /\ Waiting = Harts
  BY DEF IInv, TypeOK, ResetCount, Closing, ClosedByLast
<1> QED
  BY <1>1, <1>2

LEMMA BumpSets ==
    ASSUME IInv, NEW h \in Harts, BumpIteration(h)
    PROVE  /\ Closing = {h}
           /\ Waiting = Harts
           /\ \A k \in Harts \ {h} : pc[k] = "spin" /\ prev_it[k] = iteration
           /\ Waiting' = {}
           /\ Closing' = {}
<1>1. Closing = {h} /\ Waiting = Harts
  BY DEF IInv, TypeOK, BumpIteration, Closing, ClosedByLast
<1>2. \A k \in Harts \ {h} : pc[k] = "spin" /\ prev_it[k] = iteration
  BY <1>1 DEF Waiting, Closing
<1>3. iteration' # iteration
  BY BumpChanges DEF IInv, TypeOK, BumpIteration
<1>4. Waiting' = {} /\ Closing' = {}
  BY <1>2, <1>3 DEF IInv, TypeOK, BumpIteration, Waiting, Closing
<1> QED
  BY <1>1, <1>2, <1>4

LEMMA LeaveSets ==
    ASSUME IInv, NEW h \in Harts, SpinExit(h) \/ Return(h)
    PROVE  Waiting' = Waiting /\ Closing' = Closing /\ Closing = {} /\ h \notin Waiting
<1>1. h \notin Waiting /\ h \notin Closing
  BY DEF SpinExit, Return, Waiting, Closing
<1>2. Closing = {}
  BY <1>1 DEF IInv, ClosedByLast
<1>3. Waiting' = Waiting /\ Closing' = Closing
  BY DEF IInv, TypeOK, SpinExit, Return, Waiting, Closing
<1> QED
  BY <1>1, <1>2, <1>3

(* Every access preserves the invariant. *)
LEMMA NextIInv == IInv /\ [Next]_vars => IInv'
<1> SUFFICES ASSUME IInv, [Next]_vars PROVE IInv'
  OBVIOUS
<1>1. CASE UNCHANGED vars
  BY <1>1 DEF vars, IInv, TypeOK, FreshIteration, ClosedByLast, CountIsWaiting,
              Waiting, Closing
<1>2. ASSUME NEW h \in Harts, ReadIteration(h) PROVE IInv'
  <2>1. TypeOK'
    BY <1>2 DEF IInv, TypeOK, PCs, ReadIteration
  <2>2. FreshIteration'
    BY <1>2 DEF IInv, TypeOK, FreshIteration, ReadIteration
  <2>3. ClosedByLast'
    BY <1>2, ReadSets DEF ClosedByLast
  <2>4. CountIsWaiting'
    BY <1>2, ReadSets DEF IInv, TypeOK, CountIsWaiting, ReadIteration
  <2> QED
    BY <2>1, <2>2, <2>3, <2>4 DEF IInv
<1>3. ASSUME NEW h \in Harts, AddFetch(h) PROVE IInv'
  <2>1. Waiting \subseteq Harts
    BY DEF Waiting
  <2>2. ~ \E k \in Harts : pc[k] = "bump"
    BY <1>3, AddSets DEF Closing
  <2>3. cnt = Cardinality(Waiting)
    BY <2>2 DEF IInv, CountIsWaiting
  <2>4. cnt \in Nat /\ cnt < n /\ n \in Nat /\ Cardinality(Waiting \cup {h}) = cnt + 1
        /\ (cnt + 1 = n => Waiting \cup {h} = Harts)
    BY <1>3, <2>1, <2>3, AddSets, CountFacts
  <2>5. TypeOK'
    BY <1>3, <2>4 DEF IInv, TypeOK, PCs, AddFetch
  <2>6. FreshIteration'
    BY <1>3 DEF IInv, TypeOK, FreshIteration, AddFetch
  <2>7. ClosedByLast'
    BY <1>3, <2>4, AddSets DEF ClosedByLast
  <2>8. ~ \E k \in Harts : pc'[k] = "bump"
    BY <1>3, <2>2 DEF IInv, TypeOK, AddFetch
  <2>9. CountIsWaiting'
    BY <1>3, <2>4, <2>8, AddSets DEF AddFetch, CountIsWaiting
  <2> QED
    BY <2>5, <2>6, <2>7, <2>9 DEF IInv
<1>4. ASSUME NEW h \in Harts, ResetCount(h) PROVE IInv'
  <2>1. TypeOK'
    BY <1>4, HartsAssumption, FS_CardinalityType DEF IInv, TypeOK, PCs, ResetCount, n
  <2>2. FreshIteration'
    BY <1>4 DEF IInv, TypeOK, FreshIteration, ResetCount
  <2>3. ClosedByLast'
    BY <1>4, ResetSets DEF ClosedByLast
  <2>4. CountIsWaiting'
    BY <1>4 DEF IInv, TypeOK, CountIsWaiting, ResetCount
  <2> QED
    BY <2>1, <2>2, <2>3, <2>4 DEF IInv
<1>5. ASSUME NEW h \in Harts, BumpIteration(h) PROVE IInv'
  <2>1. TypeOK'
    BY <1>5, BumpChanges DEF IInv, TypeOK, PCs, BumpIteration
  <2>2. FreshIteration'
    BY <1>5, BumpSets DEF IInv, TypeOK, FreshIteration, BumpIteration
  <2>3. ClosedByLast'
    BY <1>5, BumpSets DEF ClosedByLast
  <2>4. cnt' = 0
    BY <1>5 DEF IInv, CountIsWaiting, BumpIteration
  <2>5. Cardinality(Waiting') = 0
    BY <1>5, BumpSets, FS_EmptySet
  <2>6. CountIsWaiting'
    BY <2>4, <2>5 DEF CountIsWaiting
  <2> QED
    BY <2>1, <2>2, <2>3, <2>6 DEF IInv
<1>6. ASSUME NEW h \in Harts, SpinExit(h) \/ Return(h) PROVE IInv'
  <2>1. TypeOK'
    BY <1>6 DEF IInv, TypeOK, PCs, SpinExit, Return
  <2>2. FreshIteration'
    BY <1>6 DEF IInv, TypeOK, FreshIteration, SpinExit, Return
  <2>3. ClosedByLast'
    BY <1>6, LeaveSets DEF ClosedByLast
  <2>4. CountIsWaiting'
    BY <1>6, LeaveSets DEF IInv, TypeOK, CountIsWaiting, SpinExit, Return
  <2> QED
    BY <2>1, <2>2, <2>3, <2>4 DEF IInv
<1> QED
  BY <1>1, <1>2, <1>3, <1>4, <1>5, <1>6 DEF Next, Step

(* snrt_partial_barrier keeps cnt equal to the number of waiting harts, lets
   exactly one hart close a round, and only when all harts are in it. *)
THEOREM BarrierInvariant == Spec => []IInv
BY InitIInv, NextIInv, PTL DEF Spec

(* Each access of a hart maps to a step of the abstract barrier. *)
LEMMA StepRefines == IInv /\ [Next]_vars => [Abs!Next]_stageBar
<1> SUFFICES ASSUME IInv, [Next]_vars PROVE [Abs!Next]_stageBar
  OBVIOUS
<1> USE DEF stageBar
<1>1. CASE UNCHANGED vars
  BY <1>1 DEF vars, Waiting
<1>2. ASSUME NEW h \in Harts, ReadIteration(h) PROVE stageBar' = stageBar
  BY <1>2, ReadSets DEF IInv, TypeOK, ReadIteration
<1>3. ASSUME NEW h \in Harts, AddFetch(h) PROVE Abs!Arrive(h)
  <2>1. stageBar[h] = "outside"
    BY <1>3, AddSets DEF AddFetch
  <2>2. stageBar' = [stageBar EXCEPT ![h] = "waiting"]
    BY <1>3, AddSets DEF IInv, TypeOK, AddFetch
  <2> QED
    BY <2>1, <2>2 DEF Abs!Arrive
<1>4. ASSUME NEW h \in Harts, ResetCount(h) PROVE stageBar' = stageBar
  BY <1>4, ResetSets
<1>5. ASSUME NEW h \in Harts, BumpIteration(h) PROVE Abs!Open
  <2>1. \A k \in Harts : stageBar[k] = "waiting"
    BY <1>5, BumpSets
  <2>2. stageBar' = [k \in Harts |-> "released"]
    BY <1>5, BumpSets DEF IInv, TypeOK, BumpIteration
  <2> QED
    BY <2>1, <2>2 DEF Abs!Open
<1>6. ASSUME NEW h \in Harts, SpinExit(h) \/ Return(h) PROVE Abs!Leave(h)
  <2>1. stageBar[h] = "released"
    BY <1>6, LeaveSets DEF SpinExit, Return
  <2>2. stageBar' = [stageBar EXCEPT ![h] = "outside"]
    BY <1>6, LeaveSets DEF IInv, TypeOK, SpinExit, Return
  <2> QED
    BY <2>1, <2>2 DEF Abs!Leave
<1> QED
  BY <1>1, <1>2, <1>3, <1>4, <1>5, <1>6 DEF Next, Step, Abs!Next

(* No hart leaves a round of snrt_partial_barrier before all n have entered
   it, for any number of harts and although the iteration word wraps. *)
THEOREM BarrierRefinement == Spec => ImplementsBarrier
<1>1. Init => Abs!Init
  BY DEF Init, Abs!Init, stageBar, Waiting
<1> QED
  BY <1>1, BarrierInvariant, StepRefines, PTL DEF Spec, ImplementsBarrier, Abs!Spec
================================================================================
