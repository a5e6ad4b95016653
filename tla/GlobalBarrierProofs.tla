-------------------------- MODULE GlobalBarrierProofs ---------------------------
(***************************************************************************)
(* For every number of clusters and cores, every size of the communicator  *)
(* and every program of barriers: snrt_global_barrier synchronises all     *)
(* cores of the communicator, consecutive barriers over different          *)
(* communicators never mix, and no wake-up outlives its barrier.           *)
(***************************************************************************)
EXTENDS GlobalBarrier, FiniteSetTheorems, TLAPS

(* The round and the next access of the DM core of a cluster. *)
e(k)  == entered[DmCore(k)]
at(k) == pc[DmCore(k)]

Parts(m) == {k \in Clusters : IsParticipant(k, m)}

(* Between the two hardware barriers of the function. *)
Mid == {"icb", "reset", "wake", "wfi", "clear", "poll", "second", "hw2"}

(* The DM core of cluster k has called snrt_inter_cluster_barrier of round r;
   has seen it complete; waits in it. *)
Arrived(k, r) == e(k) > r \/ (e(k) = r /\ at(k) \notin {"hw1", "icb"})
Done(k, r)    == e(k) > r \/ (e(k) = r /\ at(k) \in {"wake", "clear", "poll", "second",
                                                   "hw2", "outside"})
Waiting(k)    == at(k) = "wfi" /\ \A j \in Parts(Comm(k)) : ~Done(j, e(k))

(* The arrivals that the counter of a communicator counts. *)
Gathering(m) == {k \in Parts(m) : (Waiting(k) \/ at(k) = "reset") /\ Comm(k) = m}

(* The hardware barriers keep the cores of a cluster together. *)
CoreInStep(c) ==
    /\ entered[c] = left[c] + (IF pc[c] = "outside" THEN 0 ELSE 1)
    /\ ~IsDm(c) => pc[c] \in {"outside", "hw1", "second", "hw2"}

ClusterInStep(k) ==
    \A c \in CoresOf(k) : /\ left[c] = left[DmCore(k)]
                          /\ pc[c] \in Mid <=> at(k) \in Mid

(* Only participants are in the software barrier, and the counter of each
   communicator counts those gathering for its current instance. *)
OnlyParticipants ==
    \A k \in Clusters : at(k) \in {"reset", "wake", "wfi", "clear", "poll"} =>
        IsParticipant(k, Comm(k))

CountIsGathering == \A m \in Comms : counter[m] = Cardinality(Gathering(m))

(* Nobody sees a software barrier complete before all its participants have
   arrived. *)
DoneAfterArrival ==
    \A r \in 1..Rounds : \A j, k \in Parts(plan[r]) : Done(j, r) => Arrived(k, r)

(* The core that resets the counter is the last to arrive, all others wait. *)
ResetIsLast ==
    \A k \in Clusters : at(k) = "reset" =>
        \A j \in Parts(Comm(k)) : e(j) = e(k) /\ (j # k => Waiting(j))

(* The clusters that the loop of snrt_wake_clusters has still to wake sleep in
   the barrier that has completed, and nobody else wakes them. *)
WakerIsAlone ==
    \A k \in Clusters : at(k) = "wake" =>
        /\ waking[k] <= Size(Comm(k))
        /\ \A j \in Parts(Comm(k)) : j # k =>
              /\ e(j) > e(k) \/ (e(j) = e(k) /\ at(j) \notin {"hw1", "icb", "reset", "wake"})
              /\ waking[k] <= j => e(j) = e(k) /\ at(j) = "wfi" /\ ~mcip[j]

(* An interrupt is only seen by a DM core whose barrier is complete, and it is
   gone when the core has waited for its clear. *)
WakeupRight(k) ==
    /\ clearing[k] => mcip[k] /\ at(k) = "poll"
    /\ mcip[k] => at(k) \in {"wfi", "clear", "poll"}
    /\ at(k) = "clear" => mcip[k]
    /\ mcip[k] /\ at(k) = "poll" => clearing[k]
    /\ mcip[k] /\ at(k) = "wfi" => ~Waiting(k)

Hardware ==
    /\ \A c \in Cores : CoreInStep(c)
    /\ \A k \in Clusters : ClusterInStep(k)

Software ==
    /\ OnlyParticipants /\ CountIsGathering /\ DoneAfterArrival
    /\ ResetIsLast /\ WakerIsAlone
    /\ \A k \in Clusters : WakeupRight(k)

IInv == TypeOK /\ Hardware /\ Software
--------------------------------------------------------------------------------
(* Cores, their clusters and the DM core of each. *)
LEMMA CoreFacts ==
    /\ \A k \in Clusters : /\ DmCore(k) \in Cores /\ DmCore(k) \in CoresOf(k)
                           /\ IsDm(DmCore(k))
    /\ \A k \in Clusters : \A c \in CoresOf(k) : c \in Cores /\ c[1] = k
    /\ \A k \in Clusters : \A c \in CoresOf(k) : IsDm(c) => c = DmCore(k)
    /\ \A c \in Cores : c[1] \in Clusters /\ c \in CoresOf(c[1])
    /\ \A c \in Cores : IsDm(c) => c = DmCore(c[1])
    /\ \A j, k \in Clusters : DmCore(j) = DmCore(k) => j = k
BY GlobalBarrierAssumption DEF Clusters, Cores, CoresOf, DmCore, IsDm

(* The sizes of the sets of participants. *)
LEMMA PartsFacts ==
    ASSUME NEW m \in Comms
    PROVE  /\ Size(m) \in 1..NumClusters
           /\ Parts(m) = 0..(Size(m) - 1)
           /\ Parts(m) \subseteq Clusters
           /\ IsFiniteSet(Parts(m)) /\ Cardinality(Parts(m)) = Size(m)
<1>1. Size(m) \in 1..NumClusters
  BY GlobalBarrierAssumption DEF Size, Comms
<1>2. Parts(m) = 0..(Size(m) - 1)
  BY <1>1, GlobalBarrierAssumption DEF Parts, IsParticipant, Clusters
<1>3. IsFiniteSet(0..(Size(m) - 1)) /\ Cardinality(0..(Size(m) - 1)) = Size(m)
  BY <1>1, FS_Interval
<1> QED
  BY <1>1, <1>2, <1>3 DEF Parts

(* A subset of the participants: one more arrival makes the count grow by one,
   and the count is complete only when everybody has arrived. *)
LEMMA CountFacts ==
    ASSUME NEW m \in Comms, NEW G \in SUBSET Parts(m)
    PROVE  /\ Cardinality(G) \in 0..Size(m)
           /\ Cardinality(G) = Size(m) => G = Parts(m)
           /\ \A k \in Parts(m) \ G : Cardinality(G \cup {k}) = Cardinality(G) + 1
<1>1. IsFiniteSet(G) /\ Cardinality(G) <= Size(m)
      /\ (Cardinality(G) = Size(m) => G = Parts(m))
  BY PartsFacts, FS_Subset
<1>2. Cardinality(G) \in Nat /\ Size(m) \in Nat
  BY <1>1, PartsFacts, FS_CardinalityType
<1>3. \A k \in Parts(m) \ G : Cardinality(G \cup {k}) = Cardinality(G) + 1
  BY <1>1, FS_AddElement
<1> QED
  BY <1>1, <1>2, <1>3

(* A core that is inside the function is in one of the program's rounds. *)
LEMMA RoundFacts ==
    ASSUME TypeOK, Hardware
    PROVE  /\ \A k \in Clusters : e(k) \in 0..Rounds /\ at(k) \in PCs
           /\ \A k \in Clusters : at(k) # "outside" => e(k) \in 1..Rounds
           /\ \A k \in Clusters : at(k) # "outside" => Comm(k) \in Comms /\ Comm(k) = plan[e(k)]
<1>1. \A k \in Clusters : e(k) \in 0..Rounds /\ at(k) \in PCs
  BY CoreFacts DEF TypeOK, e, at
<1>2. \A k \in Clusters : at(k) # "outside" => e(k) \in 1..Rounds
  BY CoreFacts, GlobalBarrierAssumption DEF TypeOK, Hardware, CoreInStep, e, at
<1>3. \A k \in Clusters : at(k) # "outside" => Comm(k) \in Comms /\ Comm(k) = plan[e(k)]
  BY <1>2 DEF TypeOK, Comm, e
<1> QED
  BY <1>1, <1>2, <1>3

(* Nobody has called a barrier. *)
LEMMA InitIInv == Init => IInv
<1> SUFFICES ASSUME Init PROVE IInv
  OBVIOUS
<1> USE GlobalBarrierAssumption
<1>1. TypeOK
  <2>1. \A m \in Comms : Size(m) \in Nat
    BY PartsFacts
  <2> QED
    BY <2>1 DEF Init, TypeOK, PCs
<1>2. \A k \in Clusters : e(k) = 0 /\ at(k) = "outside"
  BY CoreFacts DEF Init, e, at
<1>3. Hardware
  BY CoreFacts DEF Init, Hardware, CoreInStep, ClusterInStep, Mid, at
<1>4. CountIsGathering
  <2>1. \A m \in Comms : Gathering(m) = {}
    BY <1>2 DEF Gathering, Waiting, Parts
  <2> QED
    BY <2>1, FS_EmptySet DEF CountIsGathering, Init
<1>5. DoneAfterArrival
  BY <1>2 DEF DoneAfterArrival, Done, Parts
<1>6. OnlyParticipants /\ ResetIsLast /\ WakerIsAlone /\ \A k \in Clusters : WakeupRight(k)
  BY <1>2 DEF OnlyParticipants, ResetIsLast, WakerIsAlone, WakeupRight, Init
<1> QED
  BY <1>1, <1>3, <1>4, <1>5, <1>6 DEF IInv, Software
--------------------------------------------------------------------------------
(***************************************************************************)
(* The hardware barriers                                                   *)
(***************************************************************************)

(* A step of one DM core between the two hardware barriers. *)
LEMMA DmStepHardware ==
    ASSUME TypeOK, Hardware, NEW k \in Clusters, NEW from \in Mid, NEW to \in Mid,
           Goto(k, from, to), UNCHANGED <<entered, left>>
    PROVE  Hardware'
<1>1. /\ pc'[DmCore(k)] = to /\ pc[DmCore(k)] = from
      /\ \A c \in Cores : c # DmCore(k) => pc'[c] = pc[c]
  BY CoreFacts DEF TypeOK, Goto
<1>2. ASSUME NEW c \in Cores PROVE CoreInStep(c)'
  BY <1>1, CoreFacts DEF Hardware, CoreInStep, Mid
<1>3. ASSUME NEW j \in Clusters PROVE ClusterInStep(j)'
  <2>1. \A c \in CoresOf(j) : pc[c] \in Mid <=> pc'[c] \in Mid
    BY <1>1, CoreFacts
  <2>2. DmCore(j) \in CoresOf(j)
    BY CoreFacts
  <2> QED
    BY <2>1, <2>2 DEF Hardware, ClusterInStep, at
<1> QED
  BY <1>2, <1>3 DEF Hardware

(* A core enters the function, or goes to the second barrier. *)
LEMMA CoreStepHardware ==
    ASSUME TypeOK, Hardware, NEW c \in Cores, CoreStep(c)
    PROVE  Hardware' /\ TypeOK'
<1> USE GlobalBarrierAssumption
<1>1. \/ pc[c] = "outside" /\ pc'[c] = "hw1" /\ entered'[c] = entered[c] + 1 /\ entered[c] < Rounds
      \/ pc[c] = "second" /\ pc'[c] = "hw2" /\ entered'[c] = entered[c]
  BY DEF TypeOK, CoreStep, Enter, SecondHwBarrier
<1>2. /\ \A d \in Cores : d # c => pc'[d] = pc[d] /\ entered'[d] = entered[d]
      /\ UNCHANGED <<plan, left, counter, waking, mcip, clearing>>
  BY DEF TypeOK, CoreStep, Enter, SecondHwBarrier
<1>3. TypeOK'
  <2>1. entered[c] < Rounds => entered[c] + 1 \in 0..Rounds
    BY DEF TypeOK
  <2> QED
    BY <2>1 DEF TypeOK, CoreStep, Enter, SecondHwBarrier, PCs
<1>4. ASSUME NEW d \in Cores PROVE CoreInStep(d)'
  <2>1. CoreInStep(d) /\ left[d] \in Nat
    BY DEF Hardware, TypeOK
  <2> QED
    BY <1>1, <1>2, <2>1 DEF CoreInStep
<1>5. ASSUME NEW j \in Clusters PROVE ClusterInStep(j)'
  <2>1. \A d \in CoresOf(j) : pc[d] \in Mid <=> pc'[d] \in Mid
    BY <1>1, <1>2, CoreFacts DEF Mid
  <2>2. DmCore(j) \in CoresOf(j)
    BY CoreFacts
  <2> QED
    BY <1>2, <2>1, <2>2 DEF Hardware, ClusterInStep, at
<1> QED
  BY <1>3, <1>4, <1>5 DEF Hardware

(* The release: all cores of the cluster stall in the same of the two calls. *)
LEMMA ReleaseHardware ==
    ASSUME TypeOK, Hardware, NEW k \in Clusters, HwRelease(k)
    PROVE  Hardware' /\ TypeOK'
<1> USE GlobalBarrierAssumption
<1>1. \A c \in CoresOf(k) : /\ pc[c] = at(k) /\ pc[c] \in {"hw1", "hw2"}
                            /\ left[c] = left[DmCore(k)] /\ entered[c] = left[c] + 1
                            /\ left[c] \in Nat /\ entered[c] \in 0..Rounds
  <2> SUFFICES ASSUME NEW c \in CoresOf(k)
               PROVE  /\ pc[c] = at(k) /\ pc[c] \in {"hw1", "hw2"}
                      /\ left[c] = left[DmCore(k)] /\ entered[c] = left[c] + 1
                      /\ left[c] \in Nat /\ entered[c] \in 0..Rounds
    OBVIOUS
  <2>1. c \in Cores /\ DmCore(k) \in CoresOf(k)
    BY CoreFacts
  <2>2. pc[c] \in {"hw1", "hw2"} /\ at(k) \in {"hw1", "hw2"}
    BY <2>1 DEF HwRelease, at
  <2>3. left[c] = left[DmCore(k)] /\ (pc[c] \in Mid <=> at(k) \in Mid)
    BY DEF Hardware, ClusterInStep
  <2>4. CoreInStep(c) /\ left[c] \in Nat /\ entered[c] \in 0..Rounds
    BY <2>1 DEF Hardware, TypeOK
  <2> QED
    BY <2>2, <2>3, <2>4 DEF Mid, CoreInStep
<1>2. /\ \A c \in Cores \ CoresOf(k) : pc'[c] = pc[c] /\ left'[c] = left[c]
      /\ \A c \in CoresOf(k) : at(k) = "hw1" => /\ pc'[c] = IF IsDm(c) THEN "icb" ELSE "second"
                                               /\ left'[c] = left[c]
      /\ \A c \in CoresOf(k) : at(k) = "hw2" => pc'[c] = "outside" /\ left'[c] = left[c] + 1
      /\ UNCHANGED <<plan, entered, counter, waking, mcip, clearing>>
  BY <1>1, CoreFacts DEF HwRelease
<1>3. TypeOK'
  <2>1. pc' \in [Cores -> PCs]
    BY DEF HwRelease, TypeOK, PCs
  <2>2. \A c \in Cores : left'[c] \in 0..Rounds
    BY <1>1, <1>2, CoreFacts DEF TypeOK
  <2>3. left' \in [Cores -> 0..Rounds]
    BY <2>2 DEF HwRelease
  <2> QED
    BY <1>2, <2>1, <2>3 DEF TypeOK
<1>4. ASSUME NEW d \in Cores PROVE CoreInStep(d)'
  <2>1. CASE d \in CoresOf(k)
    BY <1>1, <1>2, <2>1 DEF CoreInStep
  <2>2. CASE d \notin CoresOf(k)
    BY <1>2, <2>2 DEF Hardware, CoreInStep
  <2> QED
    BY <2>1, <2>2
<1>5. ASSUME NEW j \in Clusters PROVE ClusterInStep(j)'
  <2>1. DmCore(j) \in CoresOf(j)
    BY CoreFacts
  <2>2. CASE j = k
    BY <1>1, <1>2, <2>1, <2>2 DEF ClusterInStep, Mid, at
  <2>3. CASE j # k
    <3>1. \A d \in CoresOf(j) : d \in Cores \ CoresOf(k)
      BY <2>3, CoreFacts
    <3> QED
      BY <1>2, <2>1, <3>1 DEF Hardware, ClusterInStep, at
  <2> QED
    BY <2>2, <2>3
<1> QED
  BY <1>3, <1>4, <1>5 DEF Hardware
--------------------------------------------------------------------------------
(***************************************************************************)
(* The software barrier                                                    *)
(***************************************************************************)

(* The view of the software barrier: round, next access and interrupt of each
   DM core. *)
SameView(j) ==
    e(j)' = e(j) /\ at(j)' = at(j) /\ mcip'[j] = mcip[j] /\ clearing'[j] = clearing[j]

(* What a DM core does outside the software barrier, or after it has seen it
   complete, concerns nobody else: whom the counter counts, who waits for whom
   and who wakes whom stay as they are. *)
LEMMA Elsewhere ==
    ASSUME IInv, NEW k \in Clusters, UNCHANGED <<plan, counter, waking>>,
           \A j \in Clusters : j # k => SameView(j),
           at(k) \notin {"wfi", "reset"}, at(k)' \notin {"wfi", "reset", "wake"},
           at(k)' \in {"clear", "poll"} => e(k)' = e(k) /\ IsParticipant(k, Comm(k)),
           \A r \in 1..Rounds : k \in Parts(plan[r]) => (Done(k, r)' <=> Done(k, r)),
           \A r \in 1..Rounds : Arrived(k, r) => Arrived(k, r)',
           WakeupRight(k)'
    PROVE  Software'
<1> DEFINE Others == Clusters \ {k}
<1>0. TypeOK /\ Hardware /\ Software
  BY DEF IInv
<1>1. \A j \in Others : /\ Comm(j)' = Comm(j)
                        /\ \A r \in 1..Rounds : (Done(j, r)' <=> Done(j, r)) /\ (Arrived(j, r)' <=> Arrived(j, r))
  BY DEF SameView, Comm, Done, Arrived, e, at
<1>2. \A r \in 1..Rounds : \A j \in Parts(plan[r]) : Done(j, r)' <=> Done(j, r)
  BY <1>1 DEF Parts
<1>3. \A j \in Others : at(j) # "outside" => Comm(j) \in Comms /\ Comm(j) = plan[e(j)] /\ e(j) \in 1..Rounds
  BY <1>0, RoundFacts
<1>4. \A j \in Clusters : Waiting(j)' <=> Waiting(j)
  <2>1. ~Waiting(k) /\ ~Waiting(k)'
    BY DEF Waiting
  <2>2. ASSUME NEW j \in Others, at(j) = "wfi" PROVE Waiting(j)' <=> Waiting(j)
    <3>1. /\ at(j)' = at(j) /\ Comm(j)' = Comm(j) /\ e(j)' = e(j)
          /\ Comm(j) = plan[e(j)] /\ e(j) \in 1..Rounds
      BY <1>1, <1>3, <2>2 DEF SameView
    <3>2. \A i \in Parts(Comm(j)) : Done(i, e(j))' <=> Done(i, e(j))
      <4>1. \A i \in Parts(Comm(j)) : Done(i, e(j))' <=> (e(i)' > e(j)' \/ (e(i)' = e(j)' /\ at(i)' \in {"wake", "clear", "poll", "second", "hw2", "outside"}))
        BY DEF Done
      <4> QED
        BY <1>2, <3>1, <4>1 DEF Done
    <3> QED
      BY <3>1, <3>2 DEF Waiting, Parts
  <2>3. ASSUME NEW j \in Others, at(j) # "wfi" PROVE Waiting(j)' <=> Waiting(j)
    BY <2>3 DEF Waiting, SameView
  <2> QED
    BY <2>1, <2>2, <2>3
<1>5. OnlyParticipants'
  <2> SUFFICES ASSUME NEW j \in Clusters, (at(j) \in {"reset", "wake", "wfi", "clear", "poll"})'
               PROVE  IsParticipant(j, Comm(j)')
    BY DEF OnlyParticipants, IsParticipant, Size
  <2>1. CASE j = k
    BY <2>1 DEF Comm, e
  <2>2. CASE j # k
    BY <1>0, <1>1, <2>2 DEF Software, OnlyParticipants, SameView
  <2> QED
    BY <2>1, <2>2
<1>6. CountIsGathering'
  <2>1. ASSUME NEW m \in Comms PROVE Gathering(m)' = Gathering(m)
    BY <1>1, <1>4 DEF Gathering, SameView, Parts, Waiting
  <2> QED
    BY <1>0, <2>1 DEF Software, CountIsGathering
<1>7. DoneAfterArrival'
  BY <1>0, <1>1, <1>2 DEF Software, DoneAfterArrival, Parts
<1>8. ResetIsLast'
  <2> SUFFICES ASSUME NEW i \in Clusters, at(i)' = "reset", NEW j \in Parts(Comm(i)')
               PROVE  e(j)' = e(i)' /\ (j # i => Waiting(j)')
    BY DEF ResetIsLast, Parts
  <2>1. i # k /\ at(i) = "reset" /\ Comm(i)' = Comm(i) /\ e(i)' = e(i)
    BY <1>1 DEF SameView
  <2>2. e(j) = e(i) /\ (j # i => Waiting(j))
    BY <1>0, <2>1 DEF Software, ResetIsLast
  <2>3. j # k /\ j \in Clusters
    BY <2>1, <2>2 DEF Waiting, Parts
  <2> QED
    BY <1>4, <2>1, <2>2, <2>3 DEF SameView
<1>9. WakerIsAlone'
  <2> SUFFICES ASSUME NEW i \in Clusters, at(i)' = "wake"
               PROVE  /\ waking'[i] <= Size(Comm(i)')
                      /\ \A j \in Parts(Comm(i)') : j # i =>
                            /\ \/ e(j)' > e(i)'
                               \/ e(j)' = e(i)' /\ at(j)' \notin {"hw1", "icb", "reset", "wake"}
                            /\ waking'[i] <= j => e(j)' = e(i)' /\ at(j)' = "wfi" /\ ~mcip'[j]
    BY DEF WakerIsAlone, Parts, IsParticipant, Size
  <2>1. i # k /\ at(i) = "wake" /\ Comm(i)' = Comm(i) /\ e(i)' = e(i) /\ e(i) \in 1..Rounds
    BY <1>1, <1>3 DEF SameView
  <2>2. waking'[i] <= Size(Comm(i)')
    BY <1>0, <2>1 DEF Software, WakerIsAlone
  <2>3. ASSUME NEW j \in Parts(Comm(i)), j # i
        PROVE  /\ \/ e(j)' > e(i)
                  \/ e(j)' = e(i) /\ at(j)' \notin {"hw1", "icb", "reset", "wake"}
               /\ waking[i] <= j => e(j)' = e(i) /\ at(j)' = "wfi" /\ ~mcip'[j]
    <3>1. /\ \/ e(j) > e(i)
             \/ e(j) = e(i) /\ at(j) \notin {"hw1", "icb", "reset", "wake"}
          /\ waking[i] <= j => e(j) = e(i) /\ at(j) = "wfi" /\ ~mcip[j]
      BY <1>0, <2>1, <2>3 DEF Software, WakerIsAlone
    <3>2. CASE j # k
      BY <3>1, <3>2 DEF SameView, Parts
    <3>3. CASE j = k
      <4>1. Arrived(k, e(i))
        BY <3>1, <3>3 DEF Arrived
      <4>2. e(k)' > e(i) \/ (e(k)' = e(i) /\ at(k)' \notin {"hw1", "icb"})
        <5>1. Arrived(k, e(i))'
          BY <4>1, <2>1 DEF Arrived
        <5> QED
          BY <5>1, <2>1 DEF Arrived
      <4> QED
        BY <3>1, <3>3, <4>2
    <3> QED
      BY <3>2, <3>3
  <2> QED
    BY <2>1, <2>2, <2>3
<1>10. \A j \in Clusters : WakeupRight(j)'
  <2>1. ASSUME NEW j \in Others PROVE WakeupRight(j)'
    BY <1>0, <1>4 DEF Software, WakeupRight, SameView
  <2> QED
    BY <2>1
<1> QED
  BY <1>5, <1>6, <1>7, <1>8, <1>9, <1>10 DEF Software
(* How a step of one DM core looks to the software barrier. *)
LEMMA DmView ==
    ASSUME TypeOK, NEW k \in Clusters, NEW from, NEW to, Goto(k, from, to), entered' = entered
    PROVE  /\ at(k) = from /\ at(k)' = to
           /\ \A j \in Clusters : e(j)' = e(j) /\ (j # k => at(j)' = at(j))
<1>1. /\ pc[DmCore(k)] = from /\ pc'[DmCore(k)] = to
      /\ \A j \in Clusters : j # k => pc'[DmCore(j)] = pc[DmCore(j)]
  BY CoreFacts DEF TypeOK, Goto
<1> QED
  BY <1>1 DEF at, e

(* Steps that leave the software barrier's view alone. *)
LEMMA SoftwareSame ==
    ASSUME IInv, UNCHANGED <<plan, counter, waking>>, \A j \in Clusters : SameView(j)
    PROVE  Software'
<1>0. TypeOK /\ Hardware /\ Software
  BY DEF IInv
<1>1. \A j \in Clusters : /\ Comm(j)' = Comm(j)
                          /\ \A r : (Done(j, r)' <=> Done(j, r)) /\ (Arrived(j, r)' <=> Arrived(j, r))
  BY DEF SameView, Comm, Done, Arrived, e, at
<1>2. \A j \in Clusters : Waiting(j)' <=> Waiting(j)
  <2> TAKE j \in Clusters
  <2>1. \A i \in Clusters : (Done(i, e(j)))' <=> Done(i, e(j))
    BY DEF SameView, Done
  <2> QED
    BY <1>1, <2>1 DEF Waiting, Parts, SameView
<1>3. OnlyParticipants'
  BY <1>0, <1>1 DEF Software, OnlyParticipants, SameView
<1>4. CountIsGathering'
  <2>1. ASSUME NEW m \in Comms PROVE Gathering(m)' = Gathering(m)
    BY <1>1, <1>2 DEF Gathering, SameView, Parts
  <2> QED
    BY <1>0, <2>1 DEF Software, CountIsGathering
<1>5. DoneAfterArrival'
  BY <1>0, <1>1 DEF Software, DoneAfterArrival, Parts
<1>6. ResetIsLast'
  BY <1>0, <1>1, <1>2 DEF Software, ResetIsLast, Parts, SameView
<1>7. WakerIsAlone'
  BY <1>0, <1>1 DEF Software, WakerIsAlone, Parts, SameView
<1>8. \A j \in Clusters : WakeupRight(j)'
  BY <1>0, <1>2 DEF Software, WakeupRight, SameView
<1> QED
  BY <1>3, <1>4, <1>5, <1>6, <1>7, <1>8 DEF Software

(* A core calls the function or stalls in its second hardware barrier. *)
LEMMA CoreStepIInv ==
    ASSUME IInv, NEW c \in Cores, CoreStep(c)
    PROVE  IInv'
<1>0. TypeOK /\ Hardware /\ Software
  BY DEF IInv
<1>1. Hardware' /\ TypeOK'
  BY <1>0, CoreStepHardware
<1>2. /\ \A d \in Cores : d # c => pc'[d] = pc[d] /\ entered'[d] = entered[d]
      /\ UNCHANGED <<plan, left, counter, waking, mcip, clearing>>
  BY <1>0 DEF TypeOK, CoreStep, Enter, SecondHwBarrier
<1>3. Software'
  <2>1. CASE ~IsDm(c)
    <3>1. \A j \in Clusters : SameView(j)
      BY <1>2, <2>1, CoreFacts DEF SameView, e, at
    <3> QED
      BY <1>2, <3>1, SoftwareSame
  <2>2. CASE IsDm(c)
    <3> DEFINE k == c[1]
    <3>1. k \in Clusters /\ c = DmCore(k)
      BY <2>2, CoreFacts
    <3> HIDE DEF k
    <3>2. \A j \in Clusters : j # k => SameView(j)
      BY <1>2, <3>1, CoreFacts DEF SameView, e, at
    <3>3. \/ at(k) = "outside" /\ at(k)' = "hw1" /\ e(k)' = e(k) + 1
          \/ at(k) = "second" /\ at(k)' = "hw2" /\ e(k)' = e(k)
      BY <1>0, <3>1, CoreFacts DEF TypeOK, CoreStep, Enter, SecondHwBarrier, e, at
    <3>4. e(k) \in Nat
      BY <1>0, <3>1, RoundFacts
    <3>5. \A r \in 1..Rounds : (Done(k, r)' <=> Done(k, r)) /\ (Arrived(k, r) => Arrived(k, r)')
      BY <3>3, <3>4 DEF Done, Arrived
    <3>6. WakeupRight(k)'
      <4>1. WakeupRight(k) /\ mcip'[k] = mcip[k] /\ clearing'[k] = clearing[k]
        BY <1>0, <1>2, <3>1 DEF Software
      <4> QED
        BY <3>3, <4>1 DEF WakeupRight
    <3> QED
      BY <1>2, <3>1, <3>2, <3>3, <3>5, <3>6, Elsewhere
  <2> QED
    BY <2>1, <2>2
<1> QED
  BY <1>1, <1>3 DEF IInv

(* The hardware barrier of a cluster opens. *)
LEMMA HwReleaseIInv ==
    ASSUME IInv, NEW k \in Clusters, HwRelease(k)
    PROVE  IInv'
<1>0. TypeOK /\ Hardware /\ Software
  BY DEF IInv
<1>1. Hardware' /\ TypeOK'
  BY <1>0, ReleaseHardware
<1>2. \A j \in Clusters : j # k => SameView(j)
  BY <1>0, CoreFacts DEF HwRelease, SameView, e, at
<1>3. /\ e(k)' = e(k)
      /\ \/ at(k) = "hw1" /\ at(k)' = "icb"
         \/ at(k) = "hw2" /\ at(k)' = "outside"
  BY <1>0, CoreFacts DEF HwRelease, e, at
<1>4. \A r \in 1..Rounds : (Done(k, r)' <=> Done(k, r)) /\ (Arrived(k, r) => Arrived(k, r)')
  BY <1>3 DEF Done, Arrived
<1>5. WakeupRight(k)'
  <2>1. WakeupRight(k) /\ mcip'[k] = mcip[k] /\ clearing'[k] = clearing[k]
    BY <1>0 DEF Software, HwRelease
  <2> QED
    BY <1>3, <2>1 DEF WakeupRight
<1>6. Software'
  BY <1>2, <1>3, <1>4, <1>5, Elsewhere DEF HwRelease
<1> QED
  BY <1>1, <1>6 DEF IInv

(* A cluster that does not take part skips the software barrier. *)
LEMMA SkipIInv ==
    ASSUME IInv, NEW k \in Clusters, SkipNonParticipant(k)
    PROVE  IInv'
<1>0. TypeOK /\ Hardware /\ Software
  BY DEF IInv
<1>1. /\ at(k) = "icb" /\ at(k)' = "second"
      /\ \A j \in Clusters : e(j)' = e(j) /\ (j # k => at(j)' = at(j))
  BY <1>0, DmView DEF SkipNonParticipant
<1>2. TypeOK' /\ Hardware'
  <2>1. TypeOK'
    BY <1>0 DEF SkipNonParticipant, Goto, TypeOK, PCs
  <2>2. Hardware'
    BY <1>0, DmStepHardware DEF SkipNonParticipant, Mid
  <2> QED
    BY <2>1, <2>2
<1>3. \A r \in 1..Rounds : /\ k \in Parts(plan[r]) => (Done(k, r)' <=> Done(k, r))
                           /\ Arrived(k, r) => Arrived(k, r)'
  <2>1. k \notin Parts(plan[e(k)])
    BY <1>0, <1>1, RoundFacts DEF SkipNonParticipant, Parts
  <2> QED
    BY <1>1, <2>1 DEF Done, Arrived
<1>4. WakeupRight(k)' /\ \A j \in Clusters : j # k => SameView(j)
  <2>1. UNCHANGED <<mcip, clearing>> /\ WakeupRight(k)
    BY <1>0 DEF SkipNonParticipant, Software
  <2> QED
    BY <1>1, <2>1 DEF WakeupRight, SameView
<1>5. Software'
  BY <1>1, <1>3, <1>4, Elsewhere DEF SkipNonParticipant
<1> QED
  BY <1>2, <1>5 DEF IInv

(* The waker leaves its loop; a woken core posts its clear and waits for it. *)
LEMMA AfterBarrierIInv ==
    ASSUME IInv, NEW k \in Clusters, WakeDone(k) \/ ClearMcip(k) \/ PollMcip(k)
    PROVE  IInv'
<1>0. TypeOK /\ Hardware /\ Software
  BY DEF IInv
<1>1. /\ \/ WakeDone(k) /\ at(k) = "wake" /\ at(k)' = "second"
         \/ ClearMcip(k) /\ at(k) = "clear" /\ at(k)' = "poll"
         \/ PollMcip(k) /\ at(k) = "poll" /\ at(k)' = "second"
      /\ \A j \in Clusters : e(j)' = e(j) /\ (j # k => at(j)' = at(j))
      /\ UNCHANGED <<plan, counter, waking, mcip>>
      /\ \A j \in Clusters : j # k => clearing'[j] = clearing[j]
  BY <1>0, DmView DEF WakeDone, ClearMcip, PollMcip, TypeOK
<1>2. TypeOK' /\ Hardware'
  <2>1. TypeOK'
    BY <1>0 DEF WakeDone, ClearMcip, PollMcip, Goto, TypeOK, PCs
  <2>2. Hardware'
    BY <1>0, DmStepHardware DEF WakeDone, ClearMcip, PollMcip, Mid
  <2> QED
    BY <2>1, <2>2
<1>3. \A r \in 1..Rounds : (Done(k, r)' <=> Done(k, r)) /\ (Arrived(k, r) => Arrived(k, r)')
  BY <1>1 DEF Done, Arrived
<1>4. WakeupRight(k)'
  <2>1. WakeupRight(k) /\ mcip'[k] = mcip[k]
    BY <1>0, <1>1 DEF Software
  <2>2. CASE WakeDone(k) /\ at(k) = "wake" /\ at(k)' = "second"
    BY <2>1, <2>2 DEF WakeupRight, WakeDone
  <2>3. CASE ClearMcip(k) /\ at(k) = "clear" /\ at(k)' = "poll"
    <3>1. clearing'[k] /\ mcip[k]
      BY <1>0, <2>1, <2>3 DEF WakeupRight, ClearMcip, TypeOK
    <3> QED
      BY <2>1, <2>3, <3>1 DEF WakeupRight
  <2>4. CASE PollMcip(k) /\ at(k) = "poll" /\ at(k)' = "second"
    BY <2>1, <2>4 DEF WakeupRight, PollMcip
  <2> QED
    BY <1>1, <2>2, <2>3, <2>4
<1>5. \A j \in Clusters : j # k => SameView(j)
  BY <1>1 DEF SameView
<1>6. IsParticipant(k, Comm(k))
  BY <1>0, <1>1 DEF Software, OnlyParticipants
<1>7. Software'
  BY <1>1, <1>3, <1>4, <1>5, <1>6, Elsewhere
<1> QED
  BY <1>2, <1>7 DEF IInv

(* The posted clear lands while its core still waits for it. *)
LEMMA ClearLandsIInv ==
    ASSUME IInv, NEW k \in Clusters, ClearLands(k)
    PROVE  IInv'
<1>0. TypeOK /\ Hardware /\ Software
  BY DEF IInv
<1>1. at(k) = "poll" /\ \A j \in Clusters : e(j)' = e(j) /\ at(j)' = at(j)
  BY <1>0 DEF ClearLands, Software, WakeupRight, e, at
<1>2. TypeOK' /\ Hardware'
  <2>1. TypeOK'
    BY <1>0 DEF ClearLands, TypeOK
  <2>2. Hardware'
    BY <1>0 DEF ClearLands, Hardware, CoreInStep, ClusterInStep, at
  <2> QED
    BY <2>1, <2>2
<1>3. \A r \in 1..Rounds : (Done(k, r)' <=> Done(k, r)) /\ (Arrived(k, r) => Arrived(k, r)')
  BY <1>1 DEF Done, Arrived
<1>4. /\ ~mcip'[k] /\ ~clearing'[k]
      /\ \A j \in Clusters : j # k => mcip'[j] = mcip[j] /\ clearing'[j] = clearing[j]
      /\ UNCHANGED <<plan, counter, waking>>
  BY <1>0 DEF ClearLands, TypeOK
<1>5. WakeupRight(k)'
  BY <1>1, <1>4 DEF WakeupRight
<1>6. IsParticipant(k, Comm(k)) /\ \A j \in Clusters : j # k => SameView(j)
  BY <1>0, <1>1, <1>4 DEF Software, OnlyParticipants, SameView
<1>7. Software'
  BY <1>1, <1>3, <1>4, <1>5, <1>6, Elsewhere
<1> QED
  BY <1>2, <1>7 DEF IInv
(* The set of gathering participants: nobody in it has passed the instance that
   another of them waits for, so all of them are in the same round. *)
LEMMA GatheringFacts ==
    ASSUME IInv, NEW m \in Comms
    PROVE  /\ Gathering(m) \in SUBSET Parts(m)
           /\ \A i, j \in Gathering(m) : e(i) = e(j)
           /\ \A i \in Gathering(m) : i \in Clusters /\ e(i) \in 1..Rounds /\ plan[e(i)] = m
<1>0. TypeOK /\ Hardware /\ Software
  BY DEF IInv
<1>1. \A i \in Gathering(m) : /\ i \in Clusters /\ i \in Parts(m)
                              /\ e(i) \in 1..Rounds /\ plan[e(i)] = m /\ Comm(i) = m
  BY <1>0, RoundFacts DEF Gathering, Waiting, Parts
<1>2. ASSUME NEW i \in Gathering(m), NEW j \in Gathering(m) PROVE ~(e(j) > e(i))
  <2>1. CASE at(i) = "reset"
    <3>1. e(j) = e(i)
      BY <1>0, <1>1, <2>1 DEF Software, ResetIsLast
    <3> QED
      BY <3>1, <1>1
  <2>2. CASE Waiting(i)
    BY <1>1, <2>2 DEF Waiting, Done
  <2> QED
    BY <2>1, <2>2 DEF Gathering
<1>3. ASSUME NEW i \in Gathering(m), NEW j \in Gathering(m) PROVE e(i) = e(j)
  BY <1>1, <1>2
<1> QED
  BY <1>1, <1>3

(* A participant arrives.  Nobody has seen its barrier complete, so it gathers
   with those that are there; if the count is complete, all others wait in the
   same round. *)
LEMMA AddFetchIInv ==
    ASSUME IInv, NEW k \in Clusters, AddFetch(k)
    PROVE  IInv'
<1> USE GlobalBarrierAssumption
<1> DEFINE m == Comm(k)
           G == Gathering(m)
<1>0. TypeOK /\ Hardware /\ Software
  BY DEF IInv
<1>1. /\ at(k) = "icb" /\ at(k)' \in {"reset", "wfi"}
      /\ \A j \in Clusters : e(j)' = e(j) /\ (j # k => at(j)' = at(j))
      /\ UNCHANGED <<plan, entered, left, waking, mcip, clearing>>
  BY <1>0, DmView DEF AddFetch
<1>2. /\ m \in Comms /\ e(k) \in 1..Rounds /\ m = plan[e(k)] /\ k \in Parts(m)
  BY <1>0, <1>1, RoundFacts DEF AddFetch, Parts
<1>3. /\ k \notin G /\ G \in SUBSET Parts(m)
      /\ counter[m] = Cardinality(G) /\ counter[m] \in Nat
      /\ Cardinality(G \cup {k}) = counter[m] + 1
      /\ counter[m] + 1 <= Size(m)
      /\ (counter[m] + 1 = Size(m) => G \cup {k} = Parts(m))
  <2>1. k \notin G
    BY <1>1 DEF Gathering, Waiting
  <2>2. G \in SUBSET Parts(m) /\ counter[m] = Cardinality(G)
    BY <1>0, <1>2, GatheringFacts DEF Software, CountIsGathering
  <2>3. G \cup {k} \in SUBSET Parts(m)
    BY <1>2, <2>2
  <2>4. Cardinality(G \cup {k}) = Cardinality(G) + 1
    BY <1>2, <2>1, <2>2, CountFacts
  <2>5. Cardinality(G) \in 0..Size(m) /\ Cardinality(G \cup {k}) \in 0..Size(m)
        /\ (Cardinality(G \cup {k}) = Size(m) => G \cup {k} = Parts(m)) /\ Size(m) \in Nat
    BY <1>2, <2>2, <2>3, CountFacts, PartsFacts
  <2> HIDE DEF G, m
  <2> QED
    BY <2>1, <2>2, <2>4, <2>5
<1>4. /\ counter' = [counter EXCEPT ![m] = counter[m] + 1]
      /\ at(k)' = "reset" => counter[m] + 1 = Size(m)
      /\ at(k)' = "wfi" => counter[m] + 1 # Size(m)
  BY <1>0, <1>1, <1>2, DmView DEF AddFetch, TypeOK
<1> HIDE DEF m, G
<1>5. TypeOK' /\ Hardware'
  <2>1. counter[m] + 1 \in 0..NumClusters
    BY <1>2, <1>3, PartsFacts
  <2>2. counter' \in [Comms -> 0..NumClusters] /\ \A n \in Comms : counter'[n] <= Size(n)
    BY <1>0, <1>2, <1>3, <1>4, <2>1 DEF TypeOK
  <2>3. pc' \in [Cores -> PCs]
    BY <1>0 DEF AddFetch, Goto, TypeOK, PCs
  <2>4. TypeOK'
    BY <1>0, <1>1, <2>2, <2>3 DEF TypeOK
  <2>5. Hardware'
    BY <1>0, <1>1, DmStepHardware DEF AddFetch, Mid
  <2> QED
    BY <2>4, <2>5
<1>6. \A j \in Clusters : \A r : /\ Done(j, r)' <=> (e(j) > r \/ (e(j) = r /\ at(j)' \in {"wake", "clear", "poll", "second", "hw2", "outside"}))
                                 /\ Done(j, r)' <=> Done(j, r)
                                 /\ Arrived(j, r) => Arrived(j, r)'
  BY <1>1 DEF Done, Arrived
<1>7. \A j \in Clusters : Comm(j)' = Comm(j)
  BY <1>1 DEF Comm
<1>8. \A j \in Parts(m) : ~Done(j, e(k))
  BY <1>0, <1>1, <1>2 DEF Software, DoneAfterArrival, Arrived, Parts
<1>9. /\ \A j \in Clusters : j # k => (Waiting(j)' <=> Waiting(j))
      /\ at(k)' = "wfi" => Waiting(k)'
  <2>1. ASSUME NEW j \in Clusters PROVE \A i \in Clusters : (Done(i, e(j)))' <=> Done(i, e(j))
    BY <1>1 DEF Done
  <2>2. ASSUME NEW j \in Clusters, j # k PROVE Waiting(j)' <=> Waiting(j)
    BY <1>1, <1>7, <2>1, <2>2 DEF Waiting, Parts
  <2>3. ASSUME at(k)' = "wfi" PROVE Waiting(k)'
    BY <1>7, <1>8, <2>1, <2>3 DEF Waiting, Parts, m
  <2> QED
    BY <2>2, <2>3
<1>10. \A n \in Comms : Gathering(n)' = IF n = m THEN G \cup {k} ELSE Gathering(n)
  <2> TAKE n \in Comms
  <2>1. Comm(k)' = m /\ Comm(k) = m /\ (Waiting(k)' \/ at(k)' = "reset")
    BY <1>1, <1>7, <1>9 DEF m
  <2>2. Gathering(n)' = {j \in Parts(n) : (Waiting(j)' \/ at(j)' = "reset") /\ Comm(j)' = n}
    BY DEF Gathering, Parts
  <2>3. \A j \in Parts(n) : j # k => (j \in Gathering(n)' <=> j \in Gathering(n))
    BY <1>1, <1>7, <1>9, <2>2 DEF Gathering, Parts
  <2>4. k \in Gathering(n)' <=> n = m
    BY <1>2, <2>1, <2>2
  <2>5. k \notin Gathering(n)
    BY <1>1 DEF Gathering, Waiting
  <2> QED
    BY <1>2, <2>2, <2>3, <2>4, <2>5 DEF Gathering, G
<1>11. CountIsGathering'
  <2> SUFFICES ASSUME NEW n \in Comms PROVE counter'[n] = Cardinality(Gathering(n)')
    BY DEF CountIsGathering
  <2>1. counter'[n] = IF n = m THEN counter[m] + 1 ELSE counter[n]
    BY <1>0, <1>2, <1>4 DEF TypeOK
  <2>2. counter[n] = Cardinality(Gathering(n))
    BY <1>0 DEF Software, CountIsGathering
  <2> QED
    BY <1>3, <1>10, <2>1, <2>2
<1>12. OnlyParticipants'
  BY <1>0, <1>1, <1>2, <1>7 DEF Software, OnlyParticipants, Parts, m
<1>13. DoneAfterArrival'
  BY <1>0, <1>1, <1>6 DEF Software, DoneAfterArrival, Parts
<1>14. ResetIsLast'
  <2> SUFFICES ASSUME NEW i \in Clusters, at(i)' = "reset", NEW j \in Parts(Comm(i))
               PROVE  e(j) = e(i) /\ (j # i => Waiting(j)')
    BY <1>1, <1>7 DEF ResetIsLast, Parts
  <2>1. CASE i = k
    <3>1. G \cup {k} = Parts(m)
      BY <1>3, <1>4, <2>1
    <3>2. \A h \in G : at(h) # "reset"
      <4> SUFFICES ASSUME NEW h \in G, at(h) = "reset" PROVE FALSE
        OBVIOUS
      <4>1. h \in Clusters /\ Comm(h) = m /\ h # k
        BY <1>3 DEF G, Gathering, Parts
      <4>2. Waiting(k)
        BY <1>0, <1>2, <4>1 DEF Software, ResetIsLast
      <4> QED
        BY <1>1, <4>2 DEF Waiting
    <3>3. \A h \in G : Waiting(h) /\ h # k /\ h \in Clusters
      BY <1>3, <3>2 DEF G, Gathering, Parts
    <3>4. \A h \in G : e(h) = e(k)
      <4> TAKE h \in G
      <4>1. /\ Comm(h) = m /\ e(h) \in 1..Rounds /\ plan[e(h)] = m /\ h \in Parts(m)
        BY <1>2, GatheringFacts DEF G, Gathering
      <4>2. ~(e(k) > e(h))
        BY <1>2, <3>3, <4>1 DEF Waiting, Done
      <4>3. ~(e(h) > e(k))
        BY <1>8, <4>1 DEF Done
      <4> QED
        BY <1>2, <4>1, <4>2, <4>3
    <3> QED
      BY <1>9, <2>1, <3>1, <3>3, <3>4 DEF m
  <2>2. CASE i # k
    <3>1. at(i) = "reset" /\ e(j) = e(i) /\ (j # i => Waiting(j))
      BY <1>0, <1>1, <2>2 DEF Software, ResetIsLast
    <3>2. j # k /\ j \in Clusters
      BY <1>1, <2>2, <3>1 DEF Waiting, Parts
    <3> QED
      BY <1>9, <3>1, <3>2
  <2> QED
    BY <2>1, <2>2
<1>15. WakerIsAlone'
  <2> SUFFICES ASSUME NEW i \in Clusters, at(i)' = "wake"
               PROVE  /\ waking[i] <= Size(Comm(i))
                      /\ \A j \in Parts(Comm(i)) : j # i =>
                            /\ \/ e(j) > e(i)
                               \/ e(j) = e(i) /\ at(j)' \notin {"hw1", "icb", "reset", "wake"}
                            /\ waking[i] <= j => e(j) = e(i) /\ at(j)' = "wfi" /\ ~mcip[j]
    BY <1>1, <1>7 DEF WakerIsAlone, Parts
  <2>1. i # k /\ at(i) = "wake"
    BY <1>1
  <2>2. /\ waking[i] <= Size(Comm(i))
        /\ \A j \in Parts(Comm(i)) : j # i =>
              /\ \/ e(j) > e(i)
                 \/ e(j) = e(i) /\ at(j) \notin {"hw1", "icb", "reset", "wake"}
              /\ waking[i] <= j => e(j) = e(i) /\ at(j) = "wfi" /\ ~mcip[j]
    BY <1>0, <2>1 DEF Software, WakerIsAlone
  <2> QED
    BY <1>1, <2>1, <2>2 DEF Parts
<1>16. \A j \in Clusters : WakeupRight(j)'
  <2> TAKE j \in Clusters
  <2>1. WakeupRight(j) /\ mcip' = mcip /\ clearing' = clearing
    BY <1>0, <1>1 DEF Software
  <2>2. CASE j # k
    BY <1>1, <1>9, <2>1, <2>2 DEF WakeupRight
  <2>3. CASE j = k
    BY <1>1, <2>1, <2>3 DEF WakeupRight
  <2> QED
    BY <2>2, <2>3
<1> QED
  BY <1>5, <1>11, <1>12, <1>13, <1>14, <1>15, <1>16 DEF IInv, Software
(* The last arrival resets the counter: the instance is complete for all its
   participants at once, and none of them has an interrupt yet. *)
LEMMA ResetCounterIInv ==
    ASSUME IInv, NEW k \in Clusters, ResetCounter(k)
    PROVE  IInv'
<1> USE GlobalBarrierAssumption
<1> DEFINE m == Comm(k)
<1>0. TypeOK /\ Hardware /\ Software
  BY DEF IInv
<1>1. /\ at(k) = "reset" /\ at(k)' = "wake"
      /\ \A j \in Clusters : e(j)' = e(j) /\ (j # k => at(j)' = at(j))
      /\ UNCHANGED <<plan, entered, left, mcip, clearing>>
  BY <1>0, DmView DEF ResetCounter
<1>2. /\ m \in Comms /\ e(k) \in 1..Rounds /\ m = plan[e(k)] /\ k \in Parts(m)
  BY <1>0, <1>1, RoundFacts DEF Software, OnlyParticipants, Parts
<1>3. \A j \in Parts(m) : /\ e(j) = e(k) /\ j \in Clusters
                          /\ j # k => Waiting(j) /\ at(j) = "wfi"
  BY <1>0, <1>1 DEF Software, ResetIsLast, Parts, Waiting
<1>4. /\ counter' = [counter EXCEPT ![m] = 0]
      /\ waking' = [waking EXCEPT ![k] = 0]
  BY DEF ResetCounter
<1>5. \A j \in Clusters : Comm(j)' = Comm(j)
  BY <1>1 DEF Comm
<1> HIDE DEF m
<1>6. TypeOK' /\ Hardware'
  <2>1. 0 \in 0..NumClusters /\ \A n \in Comms : Size(n) \in Nat
    BY PartsFacts
  <2>2. counter' \in [Comms -> 0..NumClusters] /\ \A n \in Comms : counter'[n] <= Size(n)
    BY <1>0, <1>2, <1>4, <2>1 DEF TypeOK
  <2>3. pc' \in [Cores -> PCs] /\ waking' \in [Clusters -> 0..NumClusters]
    BY <1>0, <1>4, <2>1 DEF ResetCounter, Goto, TypeOK, PCs
  <2>4. TypeOK'
    BY <1>0, <1>1, <2>2, <2>3 DEF TypeOK
  <2>5. Hardware'
    BY <1>0, <1>1, DmStepHardware DEF ResetCounter, Mid
  <2> QED
    BY <2>4, <2>5
<1>7. \A j \in Clusters : \A r : /\ j # k \/ r # e(k) => (Done(j, r)' <=> Done(j, r))
                                 /\ Arrived(j, r)' <=> Arrived(j, r)
  BY <1>1 DEF Done, Arrived
<1>8. \A j \in Parts(m) : Arrived(j, e(k)) /\ (~Waiting(j))' /\ at(j)' # "reset"
  <2> TAKE j \in Parts(m)
  <2>1. Arrived(j, e(k)) /\ at(j)' # "reset"
    BY <1>1, <1>3 DEF Arrived
  <2>2. CASE j = k
    BY <1>1, <2>1, <2>2 DEF Waiting
  <2>3. CASE j # k
    <3>1. Comm(j)' = m /\ e(j)' = e(k)'
      BY <1>1, <1>3, <1>5, <2>3, <1>2 DEF Comm, e
    <3>2. k \in Parts(Comm(j)') /\ Done(k, e(j))'
      BY <1>1, <1>2, <3>1 DEF Done
    <3> QED
      BY <2>1, <3>2 DEF Waiting, Parts
  <2> QED
    BY <2>2, <2>3
<1>9. \A j \in Clusters : Comm(j) # m => (Waiting(j)' <=> Waiting(j))
  <2> SUFFICES ASSUME NEW j \in Clusters, Comm(j) # m PROVE Waiting(j)' <=> Waiting(j)
    OBVIOUS
  <2>1. j # k /\ at(j)' = at(j) /\ Comm(j)' = Comm(j) /\ e(j)' = e(j)
    BY <1>1, <1>5 DEF m
  <2>2. e(j) # e(k)
    BY <1>2 DEF Comm, e
  <2>3. \A i \in Clusters : (Done(i, e(j)))' <=> Done(i, e(j))
    BY <1>1, <2>1, <2>2 DEF Done
  <2> QED
    BY <2>1, <2>3 DEF Waiting, Parts
<1>10. \A n \in Comms : Gathering(n)' = IF n = m THEN {} ELSE Gathering(n)
  <2> TAKE n \in Comms
  <2>1. Gathering(n)' = {j \in Parts(n) : (Waiting(j)' \/ at(j)' = "reset") /\ Comm(j)' = n}
    BY DEF Gathering, Parts
  <2>2. CASE n = m
    BY <1>8, <2>1, <2>2
  <2>3. CASE n # m
    <3>1. \A j \in Parts(n) : Comm(j) = n => j # k
      BY <2>3 DEF m
    <3> QED
      BY <1>1, <1>5, <1>9, <2>1, <2>3, <3>1 DEF Gathering, Parts
  <2> QED
    BY <2>2, <2>3
<1>11. CountIsGathering'
  <2> SUFFICES ASSUME NEW n \in Comms PROVE counter'[n] = Cardinality(Gathering(n)')
    BY DEF CountIsGathering
  <2>1. counter'[n] = IF n = m THEN 0 ELSE counter[n]
    BY <1>0, <1>2, <1>4 DEF TypeOK
  <2>2. counter[n] = Cardinality(Gathering(n))
    BY <1>0 DEF Software, CountIsGathering
  <2> QED
    BY <1>10, <2>1, <2>2, FS_EmptySet
<1>12. OnlyParticipants'
  BY <1>0, <1>1, <1>5 DEF Software, OnlyParticipants
<1>13. DoneAfterArrival'
  <2> SUFFICES ASSUME NEW r \in 1..Rounds, NEW i \in Parts(plan[r]), NEW j \in Parts(plan[r]),
                      Done(i, r)'
               PROVE  Arrived(j, r)
    BY <1>1, <1>7 DEF DoneAfterArrival, Parts
  <2>1. CASE i # k \/ r # e(k)
    BY <1>0, <1>7, <2>1 DEF Software, DoneAfterArrival, Parts
  <2>2. CASE i = k /\ r = e(k)
    BY <1>2, <1>8, <2>2
  <2> QED
    BY <2>1, <2>2
<1>14. ResetIsLast'
  <2> SUFFICES ASSUME NEW i \in Clusters, at(i)' = "reset", NEW j \in Parts(Comm(i))
               PROVE  e(j) = e(i) /\ (j # i => Waiting(j)')
    BY <1>1, <1>5 DEF ResetIsLast, Parts
  <2>1. i # k /\ at(i) = "reset"
    BY <1>1
  <2>2. e(j) = e(i) /\ (j # i => Waiting(j)) /\ j \in Clusters
    BY <1>0, <2>1 DEF Software, ResetIsLast, Parts
  <2>3. Comm(i) # m
    <3>1. i \in Parts(Comm(i))
      BY <1>0, <2>1 DEF Software, OnlyParticipants, Parts
    <3> QED
      BY <1>1, <1>8, <3>1
  <2>4. Comm(j) # m
    BY <2>2, <2>3 DEF Comm, e
  <2> QED
    BY <1>9, <2>2, <2>4
<1>15. WakerIsAlone'
  <2> SUFFICES ASSUME NEW i \in Clusters, at(i)' = "wake"
               PROVE  /\ waking'[i] <= Size(Comm(i))
                      /\ \A j \in Parts(Comm(i)) : j # i =>
                            /\ \/ e(j) > e(i)
                               \/ e(j) = e(i) /\ at(j)' \notin {"hw1", "icb", "reset", "wake"}
                            /\ waking'[i] <= j => e(j) = e(i) /\ at(j)' = "wfi" /\ ~mcip[j]
    BY <1>1, <1>5 DEF WakerIsAlone, Parts
  <2>1. CASE i = k
    <3>1. waking'[i] = 0 /\ 0 <= Size(m)
      BY <1>0, <1>2, <1>4, <2>1, PartsFacts DEF TypeOK
    <3>2. \A j \in Parts(m) : j # k => e(j) = e(k) /\ at(j)' = "wfi" /\ ~mcip[j]
      BY <1>0, <1>1, <1>3 DEF Software, WakeupRight
    <3> QED
      BY <2>1, <3>1, <3>2 DEF m
  <2>2. CASE i # k
    <3>1. /\ at(i) = "wake" /\ waking[i] <= Size(Comm(i)) /\ waking'[i] = waking[i]
          /\ \A j \in Parts(Comm(i)) : j # i =>
                /\ \/ e(j) > e(i)
                   \/ e(j) = e(i) /\ at(j) \notin {"hw1", "icb", "reset", "wake"}
                /\ waking[i] <= j => e(j) = e(i) /\ at(j) = "wfi" /\ ~mcip[j]
      BY <1>0, <1>1, <1>4, <2>2 DEF Software, WakerIsAlone, TypeOK
    <3>2. k \in Parts(Comm(i)) => e(k) > e(i) /\ ~(waking[i] <= k)
      BY <1>1, <2>2, <3>1
    <3> QED
      BY <1>1, <3>1, <3>2 DEF Parts
  <2> QED
    BY <2>1, <2>2
<1>16. \A j \in Clusters : WakeupRight(j)'
  <2> TAKE j \in Clusters
  <2>1. WakeupRight(j) /\ mcip' = mcip /\ clearing' = clearing
    BY <1>0, <1>1 DEF Software
  <2>2. CASE j = k
    BY <1>1, <2>1, <2>2 DEF WakeupRight
  <2>3. CASE j # k /\ at(j) # "wfi"
    BY <1>1, <2>1, <2>3 DEF WakeupRight
  <2>4. CASE j # k /\ at(j) = "wfi" /\ Comm(j) # m
    BY <1>1, <1>9, <2>1, <2>4 DEF WakeupRight
  <2>5. CASE j # k /\ at(j) = "wfi" /\ Comm(j) = m
    <3>1. j \in Parts(m)
      BY <1>0, <2>5 DEF Software, OnlyParticipants, Parts
    <3> QED
      BY <1>1, <1>8, <2>1, <2>5, <3>1 DEF WakeupRight
  <2> QED
    BY <2>2, <2>3, <2>4, <2>5
<1> QED
  BY <1>6, <1>11, <1>12, <1>13, <1>14, <1>15, <1>16 DEF IInv, Software

(* The waker sets the interrupt of one more cluster, which sleeps in the barrier
   that is complete. *)
LEMMA WakeClusterIInv ==
    ASSUME IInv, NEW k \in Clusters, WakeCluster(k)
    PROVE  IInv'
<1> USE GlobalBarrierAssumption
<1> DEFINE t == waking[k]
<1>0. TypeOK /\ Hardware /\ Software
  BY DEF IInv
<1>1. /\ at(k) = "wake" /\ at(k)' = "wake"
      /\ \A j \in Clusters : e(j)' = e(j) /\ at(j)' = at(j)
      /\ UNCHANGED <<plan, entered, left, counter, clearing>>
  BY <1>0, DmView DEF WakeCluster
<1>2. /\ Comm(k) \in Comms /\ e(k) \in 1..Rounds /\ Comm(k) = plan[e(k)] /\ k \in Parts(Comm(k))
      /\ t \in Nat /\ t < Size(Comm(k)) /\ t \in Parts(Comm(k)) /\ t \in Clusters
      /\ t + 1 \in 0..NumClusters
  <2>1. Comm(k) \in Comms /\ e(k) \in 1..Rounds /\ Comm(k) = plan[e(k)] /\ k \in Parts(Comm(k))
    BY <1>0, <1>1, RoundFacts DEF Software, OnlyParticipants, Parts
  <2>2. t \in Nat /\ t < Size(Comm(k))
    BY <1>0 DEF WakeCluster, TypeOK
  <2> QED
    BY <2>1, <2>2, PartsFacts
<1>3. /\ \A j \in Clusters : j # k => waking'[j] = waking[j]
      /\ waking'[k] = t + 1
      /\ \A j \in Clusters : mcip'[j] = (mcip[j] \/ (j = t /\ t # k))
  <2>1. \A j \in Clusters : mcip[j] \in BOOLEAN
    BY <1>0 DEF TypeOK
  <2> QED
    BY <1>0, <1>2, <2>1 DEF WakeCluster, TypeOK
<1>4. t # k => at(t) = "wfi" /\ e(t) = e(k) /\ Comm(t) = Comm(k)
  <2>1. t # k => at(t) = "wfi" /\ e(t) = e(k)
    BY <1>0, <1>1, <1>2 DEF Software, WakerIsAlone
  <2> QED
    BY <2>1 DEF Comm, e
<1>5. TypeOK' /\ Hardware'
  <2>1. TypeOK'
    BY <1>0, <1>2 DEF WakeCluster, Goto, TypeOK, PCs
  <2>2. Hardware'
    BY <1>0, <1>1, DmStepHardware DEF WakeCluster, Mid
  <2> QED
    BY <2>1, <2>2
<1> HIDE DEF t
<1>6. \A j \in Clusters : /\ Comm(j)' = Comm(j)
                          /\ \A r : (Done(j, r)' <=> Done(j, r)) /\ (Arrived(j, r)' <=> Arrived(j, r))
  BY <1>1 DEF Comm, Done, Arrived
<1>7. \A j \in Clusters : Waiting(j)' <=> Waiting(j)
  <2> TAKE j \in Clusters
  <2>1. \A i \in Clusters : (Done(i, e(j)))' <=> Done(i, e(j))
    BY <1>1 DEF Done
  <2> QED
    BY <1>1, <1>6, <2>1 DEF Waiting, Parts
<1>8. OnlyParticipants'
  BY <1>0, <1>1, <1>6 DEF Software, OnlyParticipants
<1>9. CountIsGathering'
  <2>1. ASSUME NEW n \in Comms PROVE Gathering(n)' = Gathering(n)
    BY <1>1, <1>6, <1>7 DEF Gathering, Parts
  <2> QED
    BY <1>0, <1>1, <2>1 DEF Software, CountIsGathering
<1>10. DoneAfterArrival'
  BY <1>0, <1>1, <1>6 DEF Software, DoneAfterArrival, Parts
<1>11. ResetIsLast'
  BY <1>0, <1>1, <1>6, <1>7 DEF Software, ResetIsLast, Parts
<1>12. WakerIsAlone'
  <2> SUFFICES ASSUME NEW i \in Clusters, at(i) = "wake"
               PROVE  /\ waking'[i] <= Size(Comm(i))
                      /\ \A j \in Parts(Comm(i)) : j # i =>
                            /\ \/ e(j) > e(i)
                               \/ e(j) = e(i) /\ at(j) \notin {"hw1", "icb", "reset", "wake"}
                            /\ waking'[i] <= j => e(j) = e(i) /\ at(j) = "wfi" /\ ~mcip'[j]
    BY <1>1, <1>6 DEF WakerIsAlone, Parts
  <2>1. /\ waking[i] <= Size(Comm(i))
        /\ \A j \in Parts(Comm(i)) : j # i =>
              /\ \/ e(j) > e(i)
                 \/ e(j) = e(i) /\ at(j) \notin {"hw1", "icb", "reset", "wake"}
              /\ waking[i] <= j => e(j) = e(i) /\ at(j) = "wfi" /\ ~mcip[j]
    BY <1>0 DEF Software, WakerIsAlone
  <2>2. CASE i = k
    <3>1. waking'[k] <= Size(Comm(k)) /\ Size(Comm(k)) \in Nat
      BY <1>2, <1>3, PartsFacts
    <3>2. ASSUME NEW j \in Parts(Comm(k)), t + 1 <= j PROVE t <= j /\ j # t
      <4>1. j \in Nat
        BY <1>2, PartsFacts
      <4> QED
        BY <1>2, <3>2, <4>1
    <3> QED
      BY <1>3, <2>1, <2>2, <3>1, <3>2 DEF Parts, t
  <2>3. CASE i # k
    <3>1. waking'[i] = waking[i]
      BY <1>3, <2>3
    <3>2. ASSUME t \in Parts(Comm(i)), t # i, t # k, waking[i] <= t PROVE FALSE
      <4>1. e(t) = e(i) /\ e(i) = e(k)
        BY <1>4, <2>1, <3>2
      <4>2. Comm(i) = Comm(k) /\ i \in Parts(Comm(i))
        BY <1>0, <4>1 DEF Comm, e, Software, OnlyParticipants, Parts
      <4>3. e(i) > e(k) \/ (e(i) = e(k) /\ at(i) \notin {"hw1", "icb", "reset", "wake"})
        BY <1>0, <1>1, <2>3, <4>2 DEF Software, WakerIsAlone
      <4> QED
        BY <1>2, <4>1, <4>3
    <3> QED
      BY <1>3, <2>1, <3>1, <3>2 DEF Parts
  <2> QED
    BY <2>2, <2>3
<1>13. \A j \in Clusters : WakeupRight(j)'
  <2> TAKE j \in Clusters
  <2>1. WakeupRight(j) /\ clearing' = clearing
    BY <1>0, <1>1 DEF Software
  <2>2. CASE ~(j = t /\ t # k)
    <3>1. mcip'[j] <=> mcip[j]
      BY <1>3, <2>2
    <3> QED
      BY <1>1, <1>7, <2>1, <3>1 DEF WakeupRight
  <2>3. CASE j = t /\ t # k
    <3>1. mcip'[j] /\ at(j) = "wfi" /\ ~clearing[j]
      BY <1>3, <1>4, <2>1, <2>3 DEF WakeupRight
    <3>2. ~Waiting(j)
      <4>1. Done(k, e(j)) /\ k \in Parts(Comm(j))
        BY <1>1, <1>2, <1>4, <2>3 DEF Done
      <4> QED
        BY <4>1 DEF Waiting
    <3> QED
      BY <1>1, <1>7, <2>1, <3>1, <3>2 DEF WakeupRight
  <2> QED
    BY <2>2, <2>3
<1> QED
  BY <1>5, <1>8, <1>9, <1>10, <1>11, <1>12, <1>13 DEF IInv, Software
(* A sleeping DM core sees its interrupt: its barrier is complete, so it was not
   counted any more. *)
LEMMA WfiEndIInv ==
    ASSUME IInv, NEW k \in Clusters, WfiEnd(k)
    PROVE  IInv'
<1>0. TypeOK /\ Hardware /\ Software
  BY DEF IInv
<1>1. /\ at(k) = "wfi" /\ at(k)' = "clear" /\ mcip[k]
      /\ \A j \in Clusters : e(j)' = e(j) /\ (j # k => at(j)' = at(j))
      /\ UNCHANGED <<plan, entered, left, counter, waking, mcip, clearing>>
  BY <1>0, DmView DEF WfiEnd
<1>2. e(k) \in 1..Rounds /\ Comm(k) = plan[e(k)] /\ k \in Parts(Comm(k))
  BY <1>0, <1>1, RoundFacts DEF Software, OnlyParticipants, Parts
<1>3. PICK d \in Parts(Comm(k)) : Done(d, e(k)) /\ d \in Clusters
  <2>1. ~Waiting(k)
    BY <1>0, <1>1 DEF Software, WakeupRight
  <2> QED
    BY <1>1, <2>1 DEF Waiting, Parts
<1>4. TypeOK' /\ Hardware'
  <2>1. TypeOK'
    BY <1>0 DEF WfiEnd, Goto, TypeOK, PCs
  <2>2. Hardware'
    BY <1>0, <1>1, DmStepHardware DEF WfiEnd, Mid
  <2> QED
    BY <2>1, <2>2
<1>5. \A j \in Clusters : /\ Comm(j)' = Comm(j)
                          /\ \A r : /\ j # k \/ r # e(k) => (Done(j, r)' <=> Done(j, r))
                                    /\ Arrived(j, r)' <=> Arrived(j, r)
  BY <1>1 DEF Comm, Done, Arrived
<1>6. \A j \in Clusters : Waiting(j)' <=> Waiting(j)
  <2> TAKE j \in Clusters
  <2>1. CASE j = k
    <3>1. ~Waiting(k) /\ ~Waiting(k)'
      BY <1>1, <1>3 DEF Waiting
    <3> QED
      BY <2>1, <3>1
  <2>2. CASE j # k /\ e(j) # e(k)
    <3>1. \A i \in Clusters : (Done(i, e(j)))' <=> Done(i, e(j))
      BY <1>1, <2>2 DEF Done
    <3> QED
      BY <1>1, <1>5, <2>2, <3>1 DEF Waiting, Parts
  <2>3. CASE j # k /\ e(j) = e(k)
    <3>1. Comm(j) = Comm(k) /\ Comm(j)' = Comm(j) /\ e(j)' = e(j)
      BY <1>1, <1>5, <2>3 DEF Comm, e
    <3>2. Done(d, e(j)) /\ Done(d, e(j))'
      BY <1>1, <1>3, <2>3 DEF Done
    <3> QED
      BY <1>3, <3>1, <3>2 DEF Waiting, Parts
  <2> QED
    BY <2>1, <2>2, <2>3
<1>7. OnlyParticipants'
  BY <1>0, <1>1, <1>5 DEF Software, OnlyParticipants
<1>8. CountIsGathering'
  <2>1. ASSUME NEW n \in Comms PROVE Gathering(n)' = Gathering(n)
    BY <1>1, <1>5, <1>6 DEF Gathering, Parts
  <2> QED
    BY <1>0, <1>1, <2>1 DEF Software, CountIsGathering
<1>9. DoneAfterArrival'
  <2> SUFFICES ASSUME NEW r \in 1..Rounds, NEW i \in Parts(plan[r]), NEW j \in Parts(plan[r]),
                      Done(i, r)'
               PROVE  Arrived(j, r)
    BY <1>1, <1>5 DEF DoneAfterArrival, Parts
  <2>1. CASE i # k \/ r # e(k)
    BY <1>0, <1>5, <2>1 DEF Software, DoneAfterArrival, Parts
  <2>2. CASE i = k /\ r = e(k)
    BY <1>0, <1>2, <1>3, <2>2 DEF Software, DoneAfterArrival
  <2> QED
    BY <2>1, <2>2
<1>10. ResetIsLast'
  BY <1>0, <1>1, <1>5, <1>6 DEF Software, ResetIsLast, Parts
<1>11. WakerIsAlone'
  BY <1>0, <1>1, <1>5 DEF Software, WakerIsAlone, Parts
<1>12. \A j \in Clusters : WakeupRight(j)'
  BY <1>0, <1>1, <1>6 DEF Software, WakeupRight
<1> QED
  BY <1>4, <1>7, <1>8, <1>9, <1>10, <1>11, <1>12 DEF IInv, Software
--------------------------------------------------------------------------------
(* Every access of a core, every release of a hardware barrier and every posted
   write preserves the invariant. *)
LEMMA NextIInv == IInv /\ [Next]_vars => IInv'
<1> SUFFICES ASSUME IInv, [Next]_vars PROVE IInv'
  OBVIOUS
<1>1. ASSUME NEW c \in Cores, CoreStep(c) PROVE IInv'
  BY <1>1, CoreStepIInv
<1>2. ASSUME NEW k \in Clusters, HwRelease(k) PROVE IInv'
  BY <1>2, HwReleaseIInv
<1>3. ASSUME NEW k \in Clusters, DmStep(k) PROVE IInv'
  BY <1>3, SkipIInv, AddFetchIInv, ResetCounterIInv, WakeClusterIInv, WfiEndIInv,
     AfterBarrierIInv DEF DmStep
<1>4. ASSUME NEW k \in Clusters, ClearLands(k) PROVE IInv'
  BY <1>4, ClearLandsIInv
<1>5. CASE UNCHANGED vars
  <2>1. TypeOK' /\ Hardware'
    BY <1>5 DEF vars, IInv, TypeOK, Hardware, CoreInStep, ClusterInStep, at
  <2>2. UNCHANGED <<plan, counter, waking>> /\ \A j \in Clusters : SameView(j)
    BY <1>5 DEF vars, SameView, e, at
  <2> QED
    BY <2>1, <2>2, SoftwareSame DEF IInv
<1> QED
  BY <1>1, <1>2, <1>3, <1>4, <1>5 DEF Next

(* The invariant of snrt_global_barrier, for any machine and any program of
   barriers: the hardware barriers keep a cluster in step, each software counter
   counts the participants gathering for one instance, and every wake-up reaches
   a core that sleeps in the instance that has completed. *)
THEOREM GlobalBarrierInvariant == Spec => []IInv
BY InitIInv, NextIInv, PTL DEF Spec

(* The two hardware barriers of the function never meet each other. *)
THEOREM HardwareBarriersMatch == Spec => []HwBarriersMatch
<1>1. IInv => HwBarriersMatch
  <2> SUFFICES ASSUME IInv, NEW k \in Clusters, NEW c \in CoresOf(k), NEW d \in CoresOf(k),
                      pc[c] = "hw1", pc[d] = "hw2"
               PROVE  FALSE
    BY DEF HwBarriersMatch
  <2> QED
    BY DEF IInv, Hardware, ClusterInStep, Mid
<1> QED
  BY <1>1, GlobalBarrierInvariant, PTL

(* No interrupt of one barrier, and no clear of one, is left for the next WFI of
   a DM core (snrt_int_clr_mcip in snrt_inter_cluster_barrier). *)
THEOREM WakeupsAreConsumed == Spec => []NoStaleWakeup
<1>1. IInv => NoStaleWakeup
  <2> SUFFICES ASSUME IInv, NEW k \in Clusters, pc[DmCore(k)] \in {"outside", "hw1", "icb"}
               PROVE  ~mcip[k] /\ ~clearing[k]
    BY DEF NoStaleWakeup
  <2>1. WakeupRight(k)
    BY DEF IInv, Software
  <2> QED
    BY <2>1 DEF WakeupRight, at
<1> QED
  BY <1>1, GlobalBarrierInvariant, PTL

(* The promise of the barrier: a core returns from its r-th call only when all
   cores it synchronises with, in its cluster and in the communicator of that
   call, have made their r-th call. *)
THEOREM BarrierHolds == Spec => []NobodyPassesEarly
<1>1. IInv => NobodyPassesEarly
  <2> SUFFICES ASSUME IInv, NEW c \in Cores, left[c] > 0, NEW d \in Peers(c, left[c])
               PROVE  entered[d] >= left[c]
    BY DEF NobodyPassesEarly
  <2> DEFINE r == left[c]
             i == c[1]
             j == d[1]
  <2>0. TypeOK /\ Hardware /\ Software
    BY DEF IInv
  <2>1. /\ i \in Clusters /\ j \in Clusters /\ c \in CoresOf(i) /\ d \in CoresOf(j) /\ d \in Cores
        /\ DmCore(i) \in Cores /\ DmCore(j) \in Cores
    BY CoreFacts DEF Peers
  <2>2. r \in 1..Rounds
    BY <2>0, GlobalBarrierAssumption DEF TypeOK
  <2>3. /\ left[c] = left[DmCore(i)] /\ left[d] = left[DmCore(j)]
        /\ pc[d] \in Mid <=> at(j) \in Mid
    BY <2>0, <2>1 DEF Hardware, ClusterInStep
  <2>4. /\ entered[d] = left[d] + (IF pc[d] = "outside" THEN 0 ELSE 1)
        /\ e(i) = left[DmCore(i)] + (IF at(i) = "outside" THEN 0 ELSE 1)
        /\ e(j) = left[DmCore(j)] + (IF at(j) = "outside" THEN 0 ELSE 1)
        /\ left[d] \in Nat /\ left[DmCore(j)] \in Nat /\ left[DmCore(i)] \in Nat
    BY <2>0, <2>1 DEF Hardware, CoreInStep, TypeOK, e, at
  <2> HIDE DEF r, i, j
  <2>5. CASE i = j
    BY <2>2, <2>3, <2>4, <2>5 DEF r
  <2>6. CASE i # j
    <3>1. i \in Parts(plan[r]) /\ j \in Parts(plan[r])
      BY <2>1, <2>6 DEF Peers, Parts, r, i, j
    <3>2. Done(i, r)
      BY <2>2, <2>3, <2>4 DEF Done, r
    <3>3. Arrived(j, r)
      BY <2>0, <2>2, <3>1, <3>2 DEF Software, DoneAfterArrival
    <3>4. at(j) \in PCs
      BY <2>0, <2>1 DEF TypeOK, at
    <3>5. at(j) \in Mid => pc[d] # "outside"
      BY <2>3 DEF Mid
    <3>6. at(j) \in Mid \cup {"outside", "hw1"}
      BY <3>4 DEF PCs, Mid
    <3> QED
      BY <2>2, <2>3, <2>4, <3>3, <3>5, <3>6 DEF Arrived, r
  <2> QED
    BY <2>5, <2>6 DEF r
<1> QED
  BY <1>1, GlobalBarrierInvariant, PTL
--------------------------------------------------------------------------------
(* snrt_inter_cluster_barrier as the abstract barrier: where a cluster stands with
   respect to the software barriers over communicator m, whatever barriers over
   other communicators it calls in between. *)
Stage(k, m) ==
    IF at(k) \notin {"reset", "wake", "wfi", "clear", "poll"} \/ Comm(k) # m THEN "outside"
    ELSE IF at(k) = "reset" \/ Waiting(k) THEN "waiting" ELSE "released"

stageBar(m) == [k \in Parts(m) |-> Stage(k, m)]

World == INSTANCE AbstractBarrier
             WITH Participants <- Parts("world"), stage <- stageBar("world")
Sub   == INSTANCE AbstractBarrier
             WITH Participants <- Parts("sub"), stage <- stageBar("sub")

(* What a step does to the abstract barrier of communicator m. *)
Moves(k, m, from, to) ==
    k \in Parts(m) /\ Stage(k, m) = from /\ stageBar(m)' = [stageBar(m) EXCEPT ![k] = to]

Opens(m) ==
    /\ \A k \in Parts(m) : Stage(k, m) = "waiting"
    /\ stageBar(m)' = [k \in Parts(m) |-> "released"]

BarrierStep(m) ==
    \/ stageBar(m)' = stageBar(m)
    \/ Opens(m)
    \/ \E k \in Parts(m) : Moves(k, m, "outside", "waiting") \/ Moves(k, m, "released", "outside")

(* A step of one cluster that completes no barrier over m leaves the others where
   they stand. *)
LEMMA OthersStay ==
    ASSUME IInv, NEW m \in Comms, NEW k \in Clusters, plan' = plan,
           \A j \in Clusters : j # k => e(j)' = e(j) /\ at(j)' = at(j),
           \A r \in 1..Rounds : plan[r] = m /\ k \in Parts(m) => (Done(k, r)' <=> Done(k, r)),
           NEW j \in Parts(m), j # k
    PROVE  Stage(j, m)' = Stage(j, m)
<1>0. TypeOK /\ Hardware /\ j \in Clusters /\ Parts(m) \subseteq Clusters
  BY PartsFacts DEF IInv
<1>1. e(j)' = e(j) /\ at(j)' = at(j) /\ Comm(j)' = Comm(j)
  BY <1>0 DEF Comm, e
<1>2. CASE at(j) = "wfi" /\ Comm(j) = m
  <2>1. e(j) \in 1..Rounds /\ plan[e(j)] = m
    BY <1>0, <1>2, RoundFacts
  <2>2. PICK r \in 1..Rounds : r = e(j) /\ plan[r] = m
    BY <2>1
  <2>3. ASSUME NEW i \in Parts(m) PROVE Done(i, r)' <=> Done(i, r)
    <3>1. CASE i = k
      BY <2>2, <3>1
    <3>2. CASE i # k
      <4>1. e(i)' = e(i) /\ at(i)' = at(i)
        BY <1>0, <3>2
      <4> QED
        BY <4>1 DEF Done
    <3> QED
      BY <3>1, <3>2
  <2>4. Waiting(j) <=> \A i \in Parts(m) : ~Done(i, r)
    BY <1>2, <2>2 DEF Waiting
  <2>5. Waiting(j)' <=> \A i \in Parts(m) : ~Done(i, r)'
    <3>1. e(j)' = r /\ Comm(j)' = m /\ at(j)' = "wfi"
      BY <1>1, <1>2, <2>2
    <3>2. Parts(m)' = Parts(m)
      BY DEF Parts
    <3> QED
      BY <3>1, <3>2 DEF Waiting, Done
  <2> QED
    BY <1>1, <1>2, <2>3, <2>4, <2>5 DEF Stage
<1>3. CASE ~(at(j) = "wfi" /\ Comm(j) = m)
  <2>1. at(j) # "wfi" => ~Waiting(j) /\ ~Waiting(j)'
    BY <1>1 DEF Waiting
  <2> QED
    BY <1>1, <1>3, <2>1 DEF Stage
<1> QED
  BY <1>2, <1>3

LEMMA AllStay ==
    ASSUME IInv, NEW m \in Comms, NEW k \in Clusters, plan' = plan,
           \A j \in Clusters : j # k => e(j)' = e(j) /\ at(j)' = at(j),
           \A r \in 1..Rounds : plan[r] = m /\ k \in Parts(m) => (Done(k, r)' <=> Done(k, r)),
           k \in Parts(m) => Stage(k, m)' = Stage(k, m)
    PROVE  stageBar(m)' = stageBar(m)
<1>1. \A j \in Parts(m) : Stage(j, m)' = Stage(j, m)
  BY OthersStay
<1>2. Parts(m)' = Parts(m)
  BY DEF Parts
<1> QED
  BY <1>1, <1>2 DEF stageBar

LEMMA OneMoves ==
    ASSUME IInv, NEW m \in Comms, NEW k \in Parts(m), plan' = plan,
           \A j \in Clusters : j # k => e(j)' = e(j) /\ at(j)' = at(j),
           \A r \in 1..Rounds : plan[r] = m => (Done(k, r)' <=> Done(k, r)),
           NEW from, NEW to, Stage(k, m) = from, Stage(k, m)' = to
    PROVE  Moves(k, m, from, to)
<1>0. k \in Clusters
  BY PartsFacts
<1>1. \A j \in Parts(m) : j # k => Stage(j, m)' = Stage(j, m)
  BY <1>0, OthersStay
<1>2. Parts(m)' = Parts(m)
  BY DEF Parts
<1> QED
  BY <1>1, <1>2 DEF stageBar, Moves

(* The steps of the hardware barriers and of the callers. *)
LEMMA HardwareQuiet ==
    ASSUME IInv, NEW m \in Comms, NEW k \in Clusters, plan' = plan,
           \A j \in Clusters : j # k => e(j)' = e(j) /\ at(j)' = at(j),
           \/ e(k)' = e(k) /\ at(k)' = at(k)
           \/ at(k) = "outside" /\ at(k)' = "hw1" /\ e(k)' = e(k) + 1
           \/ at(k) = "second" /\ at(k)' = "hw2" /\ e(k)' = e(k)
           \/ at(k) = "hw1" /\ at(k)' = "icb" /\ e(k)' = e(k)
           \/ at(k) = "hw2" /\ at(k)' = "outside" /\ e(k)' = e(k)
    PROVE  stageBar(m)' = stageBar(m)
<1>0. e(k) \in Nat
  BY RoundFacts DEF IInv
<1>1. \A r \in 1..Rounds : Done(k, r)' <=> Done(k, r)
  BY <1>0 DEF Done
<1>2. CASE at(k)' \in {"hw1", "hw2", "icb", "outside"}
            /\ at(k) \notin {"reset", "wake", "wfi", "clear", "poll"}
  <2>1. Stage(k, m)' = Stage(k, m)
    BY <1>2 DEF Stage
  <2> QED
    BY <1>1, <2>1, AllStay
<1>3. CASE e(k)' = e(k) /\ at(k)' = at(k)
  <2>1. Comm(k)' = Comm(k)
    BY <1>3 DEF Comm, e
  <2>2. Waiting(k)' <=> Waiting(k)
    <3>1. CASE at(k) # "wfi"
      BY <1>3, <3>1 DEF Waiting
    <3>2. CASE at(k) = "wfi"
      <4>1. Comm(k) \in Comms
        BY <3>2, RoundFacts DEF IInv
      <4>2. \A j \in Parts(Comm(k)) : e(j)' = e(j) /\ at(j)' = at(j)
        BY <1>3, <4>1, PartsFacts
      <4>3. \A j \in Parts(Comm(k)) : Done(j, e(k))' <=> Done(j, e(k))
        BY <1>3, <4>2 DEF Done
      <4> QED
        BY <1>3, <2>1, <4>3 DEF Waiting, Parts
    <3> QED
      BY <3>1, <3>2
  <2>3. Stage(k, m)' = Stage(k, m)
    BY <1>3, <2>1, <2>2 DEF Stage
  <2> QED
    BY <1>1, <2>3, AllStay
<1> QED
  BY <1>2, <1>3

(* The arrival of a cluster. *)
LEMMA AddFetchArrives ==
    ASSUME IInv, NEW m \in Comms, NEW k \in Clusters, AddFetch(k)
    PROVE  BarrierStep(m)
<1>0. TypeOK /\ Hardware /\ Software
  BY DEF IInv
<1>1. /\ at(k) = "icb" /\ at(k)' \in {"reset", "wfi"} /\ plan' = plan
      /\ \A j \in Clusters : e(j)' = e(j) /\ (j # k => at(j)' = at(j))
  BY <1>0, DmView DEF AddFetch
<1>2. \A r \in 1..Rounds : Done(k, r)' <=> Done(k, r)
  BY <1>1 DEF Done
<1>3. Comm(k)' = Comm(k) /\ Comm(k) \in Comms /\ Comm(k) = plan[e(k)] /\ e(k) \in 1..Rounds
      /\ k \in Parts(Comm(k))
  BY <1>0, <1>1, RoundFacts DEF Comm, e, AddFetch, Parts
<1>4. Stage(k, m) = "outside"
  BY <1>1 DEF Stage
<1>5. CASE Comm(k) # m
  <2>1. Stage(k, m)' = "outside"
    BY <1>3, <1>5 DEF Stage
  <2> QED
    BY <1>1, <1>2, <1>4, <2>1, AllStay DEF BarrierStep
<1>6. CASE Comm(k) = m
  <2>1. ASSUME at(k)' = "wfi" PROVE Waiting(k)'
    <3>1. PICK r \in 1..Rounds : r = e(k) /\ plan[r] = m
      BY <1>3, <1>6
    <3>2. ~Arrived(k, r)
      BY <1>0, <1>1, <3>1, RoundFacts DEF Arrived
    <3>3. \A j \in Parts(m) : ~Done(j, r)
      BY <1>0, <1>3, <1>6, <3>1, <3>2 DEF Software, DoneAfterArrival
    <3>4. \A j \in Parts(m) : Done(j, r)' <=> Done(j, r)
      <4> TAKE j \in Parts(m)
      <4>1. CASE j = k
        BY <1>2, <4>1
      <4>2. CASE j # k
        <5>1. e(j)' = e(j) /\ at(j)' = at(j)
          BY <1>1, <4>2, PartsFacts
        <5> QED
          BY <5>1 DEF Done
      <4> QED
        BY <4>1, <4>2
    <3>5. e(k)' = r /\ Comm(k)' = m
      BY <1>1, <1>3, <1>6, <3>1
    <3>6. \A j \in Parts(m) : ~Done(j, r)'
      BY <3>3, <3>4
    <3> QED
      BY <2>1, <3>5, <3>6 DEF Waiting, Done, Parts
  <2>2. Stage(k, m)' = "waiting"
    BY <1>1, <1>3, <1>6, <2>1 DEF Stage
  <2>3. k \in Parts(m)
    BY <1>3, <1>6
  <2>4. Moves(k, m, "outside", "waiting")
    BY <1>1, <1>2, <1>4, <2>2, <2>3, OneMoves
  <2> QED
    BY <2>3, <2>4 DEF BarrierStep
<1> QED
  BY <1>5, <1>6

(* The reset of the counter is where the barrier opens. *)
LEMMA ResetOpens ==
    ASSUME IInv, NEW m \in Comms, NEW k \in Clusters, ResetCounter(k)
    PROVE  BarrierStep(m)
<1>0. TypeOK /\ Hardware /\ Software
  BY DEF IInv
<1>1. /\ at(k) = "reset" /\ at(k)' = "wake" /\ plan' = plan
      /\ \A j \in Clusters : e(j)' = e(j) /\ (j # k => at(j)' = at(j))
  BY <1>0, DmView DEF ResetCounter
<1>2. Comm(k)' = Comm(k) /\ Comm(k) \in Comms /\ Comm(k) = plan[e(k)] /\ e(k) \in 1..Rounds
      /\ k \in Parts(Comm(k))
  BY <1>0, <1>1, RoundFacts DEF Comm, e, Software, OnlyParticipants, Parts
<1>3. CASE Comm(k) # m
  <2>1. Stage(k, m)' = "outside" /\ Stage(k, m) = "outside"
    BY <1>2, <1>3 DEF Stage
  <2>2. \A r \in 1..Rounds : plan[r] = m => (Done(k, r)' <=> Done(k, r))
    BY <1>1, <1>2, <1>3 DEF Done
  <2> QED
    BY <1>1, <2>1, <2>2, AllStay DEF BarrierStep
<1>4. CASE Comm(k) = m
  <2>1. ASSUME NEW j \in Parts(m)
        PROVE  Stage(j, m) = "waiting" /\ Stage(j, m)' = "released"
    <3>0. j \in Clusters
      BY PartsFacts
    <3>1. CASE j = k
      <4>1. ~Waiting(k)'
        BY <1>1 DEF Waiting
      <4> QED
        BY <1>1, <1>2, <1>4, <3>1, <4>1 DEF Stage
    <3>2. CASE j # k
      <4>1. e(j) = e(k) /\ Waiting(j)
        BY <1>0, <1>1, <1>4, <3>2 DEF Software, ResetIsLast
      <4>2. at(j) = "wfi" /\ at(j)' = "wfi" /\ e(j)' = e(k)'
        BY <1>1, <3>0, <3>2, <4>1 DEF Waiting
      <4>3. Comm(j) = m /\ Comm(j)' = m
        BY <1>1, <1>2, <1>4, <3>0, <4>1, RoundFacts DEF Comm, e
      <4>4. Done(k, e(j))'
        BY <1>1, <4>2 DEF Done
      <4>5. ~Waiting(j)'
        <5>1. k \in Parts(Comm(j))'
          BY <1>2, <1>4, <4>3 DEF Parts
        <5> QED
          BY <4>4, <5>1 DEF Waiting
      <4> QED
        BY <4>1, <4>2, <4>3, <4>5 DEF Stage
    <3> QED
      BY <3>1, <3>2
  <2>2. Parts(m)' = Parts(m)
    BY DEF Parts
  <2>3. Opens(m)
    BY <2>1, <2>2 DEF Opens, stageBar
  <2> QED
    BY <2>3 DEF BarrierStep
<1> QED
  BY <1>3, <1>4

(* The wake-up of a cluster: the barrier has opened before. *)
LEMMA WfiEndQuiet ==
    ASSUME IInv, NEW m \in Comms, NEW k \in Clusters, WfiEnd(k)
    PROVE  stageBar(m)' = stageBar(m)
<1>0. TypeOK /\ Hardware /\ Software
  BY DEF IInv
<1>1. /\ at(k) = "wfi" /\ at(k)' = "clear" /\ plan' = plan /\ mcip[k]
      /\ \A j \in Clusters : e(j)' = e(j) /\ (j # k => at(j)' = at(j))
  BY <1>0, DmView DEF WfiEnd
<1>2. Comm(k)' = Comm(k) /\ Comm(k) \in Comms /\ Comm(k) = plan[e(k)] /\ e(k) \in 1..Rounds
  BY <1>0, <1>1, RoundFacts DEF Comm, e
<1>3. ~Waiting(k) /\ ~Waiting(k)'
  BY <1>0, <1>1 DEF Software, WakeupRight, Waiting
<1>4. Stage(k, m)' = Stage(k, m)
  BY <1>1, <1>2, <1>3 DEF Stage
<1>5. CASE Comm(k) # m
  <2>1. \A r \in 1..Rounds : plan[r] = m => (Done(k, r)' <=> Done(k, r))
    BY <1>1, <1>2, <1>5 DEF Done
  <2> QED
    BY <1>1, <1>4, <2>1, AllStay
<1>6. CASE Comm(k) = m
  <2>1. PICK q \in 1..Rounds : q = e(k) /\ plan[q] = m
    BY <1>2, <1>6
  <2>2. PICK i \in Parts(m) : Done(i, q)
    BY <1>1, <1>3, <1>6, <2>1 DEF Waiting
  <2>3. i # k /\ i \in Clusters
    BY <1>1, <2>1, <2>2, PartsFacts DEF Done
  <2>4. Done(i, q)'
    BY <1>1, <2>2, <2>3 DEF Done
  <2>5. ASSUME NEW j \in Parts(m), j # k PROVE Stage(j, m)' = Stage(j, m)
    <3>0. j \in Clusters
      BY PartsFacts
    <3>1. e(j)' = e(j) /\ at(j)' = at(j) /\ Comm(j)' = Comm(j)
      BY <1>1, <2>5, <3>0 DEF Comm, e
    <3>2. CASE at(j) = "wfi" /\ Comm(j) = m
      <4>1. PICK r \in 1..Rounds : r = e(j) /\ plan[r] = m
        BY <1>0, <3>0, <3>2, RoundFacts
      <4>2. Waiting(j) <=> \A n \in Parts(m) : ~Done(n, r)
        BY <3>2, <4>1 DEF Waiting
      <4>3. Waiting(j)' <=> \A n \in Parts(m) : ~Done(n, r)'
        <5>1. e(j)' = r /\ Comm(j)' = m /\ at(j)' = "wfi"
          BY <3>1, <3>2, <4>1
        <5>2. Parts(m)' = Parts(m)
          BY DEF Parts
        <5> QED
          BY <5>1, <5>2 DEF Waiting, Done
      <4>4. \A n \in Parts(m) : n # k => (Done(n, r)' <=> Done(n, r))
        <5> TAKE n \in Parts(m)
        <5>1. n # k => e(n)' = e(n) /\ at(n)' = at(n)
          BY <1>1, PartsFacts
        <5> QED
          BY <5>1 DEF Done
      <4>5. CASE r = q
        <5>1. ~Waiting(j)
          BY <2>2, <4>2, <4>5
        <5>2. Done(i, r)'
          BY <2>2, <2>3, <4>4, <4>5
        <5>3. ~Waiting(j)'
          BY <4>3, <5>2
        <5> QED
          BY <3>1, <5>1, <5>3 DEF Stage
      <4>6. CASE r # q
        <5>1. Done(k, r)' <=> Done(k, r)
          BY <1>1, <2>1, <4>6 DEF Done
        <5>2. Waiting(j)' <=> Waiting(j)
          BY <4>2, <4>3, <4>4, <5>1
        <5> QED
          BY <3>1, <5>2 DEF Stage
      <4> QED
        BY <4>5, <4>6
    <3>3. CASE ~(at(j) = "wfi" /\ Comm(j) = m)
      <4>1. at(j) # "wfi" => ~Waiting(j) /\ ~Waiting(j)'
        BY <3>1 DEF Waiting
      <4> QED
        BY <3>1, <3>3, <4>1 DEF Stage
    <3> QED
      BY <3>2, <3>3
  <2>6. \A j \in Parts(m) : Stage(j, m)' = Stage(j, m)
    BY <1>4, <2>5
  <2>7. Parts(m)' = Parts(m)
    BY DEF Parts
  <2> QED
    BY <2>6, <2>7 DEF stageBar
<1> QED
  BY <1>5, <1>6

(* The other steps of the software barrier: a cluster clears its interrupt, or
   leaves, or does not take part at all. *)
LEMMA LeaveStep ==
    ASSUME IInv, NEW m \in Comms, NEW k \in Clusters,
           WakeDone(k) \/ PollMcip(k) \/ ClearMcip(k) \/ SkipNonParticipant(k)
    PROVE  BarrierStep(m)
<1>0. TypeOK /\ Hardware /\ Software
  BY DEF IInv
<1>1. /\ plan' = plan /\ \A j \in Clusters : e(j)' = e(j) /\ (j # k => at(j)' = at(j))
      /\ \/ at(k) \in {"wake", "poll"} /\ at(k)' = "second"
         \/ at(k) = "clear" /\ at(k)' = "poll"
         \/ at(k) = "icb" /\ at(k)' = "second" /\ ~IsParticipant(k, Comm(k))
  BY <1>0, DmView DEF WakeDone, PollMcip, ClearMcip, SkipNonParticipant
<1>2. Comm(k)' = Comm(k) /\ Comm(k) \in Comms /\ Comm(k) = plan[e(k)] /\ e(k) \in 1..Rounds
  BY <1>0, <1>1, RoundFacts DEF Comm, e
<1>3. ~Waiting(k) /\ ~Waiting(k)'
  BY <1>1 DEF Waiting
<1>4. \A r \in 1..Rounds : plan[r] = m /\ k \in Parts(m) => (Done(k, r)' <=> Done(k, r))
  <2> TAKE r \in 1..Rounds
  <2>1. CASE at(k) # "icb"
    BY <1>1, <2>1 DEF Done
  <2>2. CASE at(k) = "icb"
    <3>1. plan[r] = m /\ k \in Parts(m) => r # e(k)
      BY <1>1, <1>2, <2>2 DEF Parts
    <3> QED
      BY <1>1, <3>1 DEF Done
  <2> QED
    BY <2>1, <2>2
<1>5. CASE at(k) \in {"wake", "poll"} /\ Comm(k) = m
  <2>1. k \in Parts(m)
    BY <1>0, <1>5 DEF Software, OnlyParticipants, Parts
  <2>2. Stage(k, m) = "released" /\ Stage(k, m)' = "outside"
    BY <1>1, <1>3, <1>5 DEF Stage
  <2>3. Moves(k, m, "released", "outside")
    BY <1>1, <1>4, <2>1, <2>2, OneMoves
  <2> QED
    BY <2>1, <2>3 DEF BarrierStep
<1>6. CASE at(k) \notin {"wake", "poll"} \/ Comm(k) # m
  <2>1. Stage(k, m)' = Stage(k, m)
    BY <1>1, <1>2, <1>3, <1>6 DEF Stage
  <2> QED
    BY <1>1, <1>4, <2>1, AllStay DEF BarrierStep
<1> QED
  BY <1>5, <1>6

LEMMA NextIsBarrierStep ==
    ASSUME IInv, [Next]_vars, NEW m \in Comms
    PROVE  BarrierStep(m)
<1>0. TypeOK /\ Hardware /\ Software
  BY DEF IInv
<1>1. ASSUME NEW c \in Cores, CoreStep(c) PROVE BarrierStep(m)
  <2>1. /\ plan' = plan /\ \A d \in Cores : d # c => pc'[d] = pc[d] /\ entered'[d] = entered[d]
        /\ \/ pc[c] = "outside" /\ pc'[c] = "hw1" /\ entered'[c] = entered[c] + 1
           \/ pc[c] = "second" /\ pc'[c] = "hw2" /\ entered'[c] = entered[c]
    BY <1>0, <1>1 DEF TypeOK, CoreStep, Enter, SecondHwBarrier
  <2>2. PICK k \in Clusters : k = c[1]
    BY CoreFacts
  <2>3. \A j \in Clusters : j # k => e(j)' = e(j) /\ at(j)' = at(j)
    BY <2>1, <2>2, CoreFacts DEF e, at
  <2>4. \/ e(k)' = e(k) /\ at(k)' = at(k)
        \/ at(k) = "outside" /\ at(k)' = "hw1" /\ e(k)' = e(k) + 1
        \/ at(k) = "second" /\ at(k)' = "hw2" /\ e(k)' = e(k)
    BY <2>1, <2>2, CoreFacts DEF e, at
  <2> QED
    BY <2>1, <2>3, <2>4, HardwareQuiet DEF BarrierStep
<1>2. ASSUME NEW k \in Clusters, HwRelease(k) PROVE BarrierStep(m)
  <2>1. /\ plan' = plan /\ \A j \in Clusters : j # k => e(j)' = e(j) /\ at(j)' = at(j)
    BY <1>0, <1>2, CoreFacts DEF HwRelease, e, at
  <2>2. \/ at(k) = "hw1" /\ at(k)' = "icb" /\ e(k)' = e(k)
        \/ at(k) = "hw2" /\ at(k)' = "outside" /\ e(k)' = e(k)
    BY <1>0, <1>2, CoreFacts DEF HwRelease, e, at
  <2> QED
    BY <2>1, <2>2, HardwareQuiet DEF BarrierStep
<1>3. ASSUME NEW k \in Clusters, DmStep(k) PROVE BarrierStep(m)
  <2>1. CASE AddFetch(k)
    BY <2>1, AddFetchArrives
  <2>2. CASE ResetCounter(k)
    BY <2>2, ResetOpens
  <2>3. CASE WfiEnd(k)
    BY <2>3, WfiEndQuiet DEF BarrierStep
  <2>4. CASE WakeDone(k) \/ PollMcip(k) \/ ClearMcip(k) \/ SkipNonParticipant(k)
    BY <2>4, LeaveStep
  <2>5. CASE WakeCluster(k)
    <3>1. plan' = plan /\ \A j \in Clusters : e(j)' = e(j) /\ at(j)' = at(j)
      BY <1>0, <2>5, CoreFacts DEF WakeCluster, Goto, TypeOK, e, at
    <3> QED
      BY <3>1, HardwareQuiet DEF BarrierStep
  <2> QED
    BY <1>3, <2>1, <2>2, <2>3, <2>4, <2>5 DEF DmStep
<1>4. ASSUME NEW k \in Clusters, ClearLands(k) \/ UNCHANGED vars PROVE BarrierStep(m)
  <2>1. plan' = plan /\ \A j \in Clusters : e(j)' = e(j) /\ at(j)' = at(j)
    BY <1>4 DEF ClearLands, vars, e, at
  <2> QED
    BY <2>1, HardwareQuiet DEF BarrierStep
<1>5. 0 \in Clusters
  BY GlobalBarrierAssumption DEF Clusters
<1> QED
  BY <1>1, <1>2, <1>3, <1>4, <1>5 DEF Next

(* Over each of the two communicators, snrt_inter_cluster_barrier implements the
   abstract barrier of its clusters: it opens, by the reset of its counter, only
   when all of them have arrived, in any program that interleaves barriers over
   both communicators. *)
THEOREM BarriersImplementAbstract == Spec => World!Spec /\ Sub!Spec
<1>1. "world" \in Comms /\ "sub" \in Comms
  BY DEF Comms
<1>2. ASSUME Init, NEW m \in Comms PROVE stageBar(m) = [k \in Parts(m) |-> "outside"]
  <2>1. \A k \in Parts(m) : at(k) = "outside"
    BY <1>2, PartsFacts, CoreFacts DEF Init, at
  <2> QED
    BY <2>1 DEF stageBar, Stage
<1>3. Init => World!Init /\ Sub!Init
  BY <1>1, <1>2 DEF World!Init, Sub!Init
<1>4. ASSUME IInv, [Next]_vars PROVE [World!Next]_(stageBar("world"))
  <2>1. BarrierStep("world")
    BY <1>1, <1>4, NextIsBarrierStep
  <2>2. \A k \in Parts("world") : stageBar("world")[k] = Stage(k, "world")
    BY DEF stageBar
  <2> QED
    BY <2>1, <2>2
    DEF BarrierStep, Opens, Moves, World!Next, World!Open, World!Arrive, World!Leave
<1>5. ASSUME IInv, [Next]_vars PROVE [Sub!Next]_(stageBar("sub"))
  <2>1. BarrierStep("sub")
    BY <1>1, <1>5, NextIsBarrierStep
  <2>2. \A k \in Parts("sub") : stageBar("sub")[k] = Stage(k, "sub")
    BY DEF stageBar
  <2> QED
    BY <2>1, <2>2
    DEF BarrierStep, Opens, Moves, Sub!Next, Sub!Open, Sub!Arrive, Sub!Leave
<1> QED
  BY <1>3, <1>4, <1>5, GlobalBarrierInvariant, PTL DEF Spec, World!Spec, Sub!Spec
================================================================================
