----------------------------- MODULE StartupProofs ------------------------------
(***************************************************************************)
(* The C runtime's start-up for every number of clusters and cores, and    *)
(* every number of reductions in main: the hardware barriers of a cluster  *)
(* match, no other cluster runs before .bss is cleared, and main finds its *)
(* memory initialised and no reset flag or clear left over.                *)
(***************************************************************************)
EXTENDS Startup, TLAPS

PCs == InBarrier \cup InMain \cup
       {"park", "clear0", "poll0", "bss", "wake", "clear", "poll", "tls", "tls_wait", "cls",
        "cls_ptr", "alloc", "alloc_l3", "libs"}

TypeOK ==
    /\ pc \in [Cores -> PCs]
    /\ mcip \in [Cores -> BOOLEAN] /\ clearing \in [Cores -> BOOLEAN]
    /\ bss \in BOOLEAN
    /\ waking \in 0..NumClusters
    /\ copies \in [Clusters -> SUBSET Cores]
    /\ tls \in [Cores -> [image : BOOLEAN, cls_ptr : BOOLEAN, libs : BOOLEAN]]
    /\ cls \in [Clusters -> [image : BOOLEAN, l1_allocator : BOOLEAN]]
    /\ DOMAIN reduction = Clusters
    /\ returned \in [Cores -> Seq(Word)]

(* The stretch between two hardware barriers that a core of cluster k is in when
   it has done n reductions. *)
StageOf(at, k, n) ==
    CASE at = "park" -> (IF k = 0 THEN "bss" ELSE "wake")
      [] at \in {"clear0", "poll0", "bss", "hw_bss"} -> "bss"
      [] at \in {"wake", "hw_wake"} -> "wake"
      [] at \in {"clear", "poll", "tls", "tls_wait", "hw_tls"} -> "tls"
      [] at \in {"cls", "cls_ptr", "hw_cls"} -> "cls"
      [] at \in {"alloc", "alloc_l3", "hw_alloc"} -> "alloc"
      [] at \in {"libs", "hw_pre"} -> "libs"
      [] at \in {"main", "l3_next", "hw_post", "return", "tohost", "end"} -> "main"
      [] at = "exit" -> "exit"
      [] at = "hw_sum" -> (IF n < MainReduces THEN "main" ELSE "exit")
      [] at \in {"global", "icb", "copy", "hw_copy"} -> "sum"

Stage(c) == StageOf(pc[c], c[1], Len(returned[c]))

(* The reductions whose result is there for the core. *)
Round(c) == Len(returned[c]) + (IF pc[c] = "return" THEN 1 ELSE 0)

(* The stages behind each barrier. *)
PastLibs  == {"main", "exit", "sum"}
PastAlloc == {"libs"} \cup PastLibs
PastCls   == {"alloc"} \cup PastAlloc
PastTls   == {"cls"} \cup PastCls
PastWake  == {"tls"} \cup PastTls
PastBss   == {"wake"} \cup PastWake

(* Who executes which part of snrt_main, and how many reductions it has done. *)
CoreRight(c) ==
    /\ pc[c] \in {"tls_wait", "cls_ptr", "alloc_l3", "global", "icb", "copy"} => IsDm(c)
    /\ pc[c] \in {"l3_next", "tohost"} => c = Core0
    /\ pc[c] \in {"clear0", "poll0", "bss", "hw_bss"} => c[1] = 0
    /\ Stage(c) \notin PastLibs => Len(returned[c]) = 0
    /\ Len(returned[c]) <= MainReduces + (IF pc[c] \in {"tohost", "end"} THEN 1 ELSE 0)
    /\ pc[c] \in {"hw_post", "exit"} => Len(returned[c]) = MainReduces

(* The hardware barriers keep the cores of a cluster together. *)
InStep(c) == Stage(c) = Stage(DmCore(c[1])) /\ Round(c) = Round(DmCore(c[1]))

(* .bss is cleared by one core, and everything else waits for it. *)
BssRight ==
    /\ pc[DmCore(0)] \notin {"park", "clear0", "poll0", "bss"} => bss
    /\ waking > 0 => bss
    /\ \A c \in Cores : c[1] # 0 /\ (mcip[c] \/ pc[c] # "park") => bss

(* The reset flag: it is set once, while the core waits in the bootrom, and seen
   to be gone; a DM core's last clear has landed when it allocates. *)
ResetRight(c) ==
    /\ c[1] # 0 /\ waking <= c[1] => pc[c] = "park" /\ ~mcip[c]
    /\ c[1] = 0 /\ mcip[c] => pc[c] \in {"park", "clear0", "poll0"}
    /\ c[1] # 0 /\ mcip[c] => pc[c] \in {"park", "wake", "hw_wake", "clear", "poll"}
    /\ IsDm(c) /\ clearing[c] => pc[c] \notin {"alloc_l3", "hw_alloc"} /\ Stage(c) \notin PastAlloc

(* The TLS of a core is written by the DMA only while the DM core waits for it,
   and by the core itself after that. *)
TlsRight(c) ==
    LET at == pc[DmCore(c[1])]
    IN  /\ c \in copies[c[1]] => at = "tls_wait"
        /\ at = "tls_wait" => c \in copies[c[1]] \/ tls[c].image
        /\ at = "hw_tls" \/ Stage(c) \in PastTls => tls[c].image
        /\ pc[c] = "hw_cls" \/ Stage(c) \in PastCls => tls[c].cls_ptr
        /\ pc[c] = "hw_pre" \/ Stage(c) \in PastLibs => tls[c].libs

(* The CLS of a cluster is written by its DM core, and the words of the reduction
   hold numbers once they are cleared. *)
ClsRight(k) ==
    LET at == pc[DmCore(k)]
        st == Stage(DmCore(k))
    IN  /\ at \in {"cls_ptr", "hw_cls"} \/ st \in PastCls => cls[k].image
        /\ at \in {"alloc_l3", "hw_alloc"} \/ st \in PastAlloc => cls[k].l1_allocator
        /\ cls[k].image => reduction[k] \in Word

IInv ==
    /\ TypeOK
    /\ \A c \in Cores : CoreRight(c) /\ InStep(c)
    /\ BssRight /\ (bss => global \in Word)
    /\ \A c \in Cores : ResetRight(c) /\ TlsRight(c)
    /\ \A k \in Clusters : ClsRight(k)
--------------------------------------------------------------------------------
LEMMA Numbers ==
    /\ NumClusters \in Nat /\ NumClusters > 0
    /\ NumCompute \in Nat /\ NumCompute > 0
    /\ MainReduces \in Nat
BY StartupAssumption

(* Cores, their clusters and the DM core of each. *)
LEMMA CoreFacts ==
    /\ 0 \in Clusters /\ Core0 \in Cores /\ Core0[1] = 0
    /\ \A k \in Clusters : /\ DmCore(k) \in Cores /\ DmCore(k) \in CoresOf(k)
                           /\ DmCore(k)[1] = k /\ IsDm(DmCore(k)) /\ DmCore(k) # Core0
                           /\ \A c \in CoresOf(k) : c \in Cores /\ c[1] = k
    /\ \A c \in Cores : /\ c[1] \in Clusters /\ c \in CoresOf(c[1]) /\ c[1] \in Int
                        /\ IsDm(c) => c = DmCore(c[1])
BY Numbers DEF Clusters, Cores, CoresOf, DmCore, IsDm, Core0

LEMMA WordType ==
    /\ Zero \in Word /\ Total \in Word
    /\ \A c \in Cores : Value(c) \in Word
    /\ \A v, w \in Word : Plus(v, w) \in Word
BY DEF Zero, Total, Value, Plus, Word

(* The stage of each place. *)
LEMMA StageTable ==
    ASSUME NEW k, NEW n
    PROVE  /\ StageOf("park", k, n) = IF k = 0 THEN "bss" ELSE "wake"
           /\ StageOf("hw_sum", k, n) = IF n < MainReduces THEN "main" ELSE "exit"
           /\ \A at \in {"clear0", "poll0", "bss", "hw_bss"} : StageOf(at, k, n) = "bss"
           /\ \A at \in {"wake", "hw_wake"} : StageOf(at, k, n) = "wake"
           /\ \A at \in {"clear", "poll", "tls", "tls_wait", "hw_tls"} : StageOf(at, k, n) = "tls"
           /\ \A at \in {"cls", "cls_ptr", "hw_cls"} : StageOf(at, k, n) = "cls"
           /\ \A at \in {"alloc", "alloc_l3", "hw_alloc"} : StageOf(at, k, n) = "alloc"
           /\ \A at \in {"libs", "hw_pre"} : StageOf(at, k, n) = "libs"
           /\ \A at \in {"main", "l3_next", "hw_post", "return", "tohost", "end"} :
                 StageOf(at, k, n) = "main"
           /\ StageOf("exit", k, n) = "exit"
           /\ \A at \in {"global", "icb", "copy", "hw_copy"} : StageOf(at, k, n) = "sum"
BY DEF StageOf

LEMMA ReleaseTable ==
    ASSUME NEW c
    PROVE  /\ pc[c] = "hw_bss"   => AfterBarrier(c) = "wake"
           /\ pc[c] = "hw_wake"  => AfterBarrier(c) = "clear"
           /\ pc[c] = "hw_tls"   => AfterBarrier(c) = "cls"
           /\ pc[c] = "hw_cls"   => AfterBarrier(c) = "alloc"
           /\ pc[c] = "hw_alloc" => AfterBarrier(c) = "libs"
           /\ pc[c] = "hw_pre"   => AfterBarrier(c) = "main"
           /\ pc[c] = "hw_post"  => AfterBarrier(c) = "exit"
           /\ pc[c] = "hw_copy"  => AfterBarrier(c) = "return"
           /\ pc[c] = "hw_sum" /\ IsDm(c)  => AfterBarrier(c) = "global"
           /\ pc[c] = "hw_sum" /\ ~IsDm(c) => AfterBarrier(c) = "hw_copy"
BY DEF AfterBarrier

(* The steps of one core. *)
Step(c) ==
    \/ CoreStep(c)
    \/ IsDm(c) /\ DmStep(c[1])
    \/ c = Core0 /\ Core0Step

LEMMA NextSplit ==
    ASSUME [Next]_vars
    PROVE  \/ \E c \in Cores : Step(c) \/ ClearLands(c) \/ CopyTls(c)
           \/ \E k \in Clusters : HwRelease(k)
           \/ MeetInReduction
           \/ UNCHANGED vars
<1>1. ASSUME NEW k \in Clusters, DmStep(k) PROVE \E c \in Cores : Step(c)
  <2>1. DmCore(k) \in Cores /\ IsDm(DmCore(k)) /\ DmCore(k)[1] = k
    BY CoreFacts
  <2> QED
    BY <1>1, <2>1 DEF Step
<1>2. Core0Step => \E c \in Cores : Step(c)
  BY CoreFacts DEF Step
<1> QED
  BY <1>1, <1>2 DEF Next, Step

LEMMA GotoFact ==
    ASSUME TypeOK, NEW c \in Cores, NEW from, NEW to, Goto(c, from, to)
    PROVE  pc[c] = from /\ pc'[c] = to /\ \A d \in Cores \ {c} : pc'[d] = pc[d]
BY DEF TypeOK, Goto

(* A step of a core moves that core only, and within its stage. *)
LEMMA StepFrame ==
    ASSUME TypeOK, NEW c \in Cores, Step(c)
    PROVE  /\ \A d \in Cores \ {c} : pc'[d] = pc[d] /\ returned'[d] = returned[d]
           /\ ReductionReturns(c) \/ returned' = returned
<1>1. IsDm(c) => c = DmCore(c[1])
  BY CoreFacts
<1>2. pc \in [Cores -> PCs] /\ returned \in [Cores -> Seq(Word)]
  BY DEF TypeOK
<1>3. CASE CoreStep(c)
  BY <1>2, <1>3
  DEF CoreStep, Resume, ClearReset, PollReset, InitBss, WakeDone, WaitTls, SetClsPtr,
      WaitAlloc, InitLibs, MainReturns, CallReduction, ReductionReturns, AddToCluster,
      ReturnResult, Goto, run, sums
<1>4. CASE IsDm(c) /\ DmStep(c[1])
  BY <1>1, <1>2, <1>4
  DEF DmStep, StartTls, TlsDone, CopyCls, InitL1Allocator, InitL3Allocator, ReductionStep,
      AddToGlobal, CopyBack, Goto, run, sums
<1>5. CASE c = Core0 /\ Core0Step
  BY <1>2, <1>5
  DEF Core0Step, WakeCluster, ReadL3Next, BumpL3Next, WriteTohost, Goto, run, sums
<1> QED
  BY <1>3, <1>4, <1>5 DEF Step

LEMMA StageKept ==
    ASSUME TypeOK, \A c \in Cores : CoreRight(c),
           \/ \E c \in Cores : Step(c) \/ ClearLands(c) \/ CopyTls(c)
           \/ MeetInReduction
           \/ UNCHANGED vars
    PROVE  \A d \in Cores : Stage(d)' = Stage(d) /\ Round(d)' = Round(d)
<1>0. /\ pc \in [Cores -> PCs] /\ returned \in [Cores -> Seq(Word)]
      /\ \A d \in Cores : Len(returned[d]) \in Nat
  BY DEF TypeOK
<1>1. ASSUME NEW c \in Cores, Step(c)
      PROVE  \A d \in Cores : Stage(d)' = Stage(d) /\ Round(d)' = Round(d)
  <2>1. \A d \in Cores \ {c} : pc'[d] = pc[d] /\ returned'[d] = returned[d]
    BY <1>1, StepFrame
  <2>2. \A d \in Cores \ {c} : Stage(d)' = Stage(d) /\ Round(d)' = Round(d)
    BY <2>1 DEF Stage, Round
  <2>3. CASE ReductionReturns(c)
    <3>1. /\ pc[c] = "return" /\ pc'[c] \in {"main", "tohost", "end"}
          /\ returned'[c] = Append(returned[c], reduction[c[1]])
      BY <1>0, <2>3 DEF ReductionReturns, ReturnResult, Goto
    <3>2. Len(returned'[c]) = Len(returned[c]) + 1
      BY <1>0, <3>1
    <3>3. Round(c)' = Round(c)
      BY <1>0, <3>1, <3>2 DEF Round
    <3>4. Stage(c)' = Stage(c)
      BY <3>1, StageTable DEF Stage
    <3> QED
      BY <2>2, <3>3, <3>4
  <2>4. CASE ~ReductionReturns(c)
    <3>1. returned' = returned
      BY <1>1, <2>4, StepFrame
    <3> DEFINE n == Len(returned[c])
    <3>2. Stage(c)' = StageOf(pc'[c], c[1], n) /\ Stage(c) = StageOf(pc[c], c[1], n)
      BY <3>1 DEF Stage
    <3> HIDE DEF n
    <3>3. CASE CoreStep(c)
      <4>1. n \in Nat /\ n = Len(returned[c])
        BY <1>0 DEF n
      <4>2. \/ pc[c] = "park" /\ c[1] = 0 /\ pc'[c] = "clear0"
            \/ pc[c] = "park" /\ c[1] # 0 /\ pc'[c] = "wake"
            \/ pc[c] = "clear0" /\ pc'[c] = "poll0"
            \/ pc[c] = "clear" /\ pc'[c] = "poll"
            \/ pc[c] = "poll0" /\ pc'[c] = "bss"
            \/ pc[c] = "poll" /\ pc'[c] = "tls"
            \/ pc[c] = "bss" /\ pc'[c] = "hw_bss"
            \/ pc[c] = "wake" /\ pc'[c] = "hw_wake"
            \/ pc[c] = "tls" /\ pc'[c] = "hw_tls"
            \/ pc[c] = "cls_ptr" /\ pc'[c] = "hw_cls"
            \/ pc[c] = "cls" /\ pc'[c] = "hw_cls"
            \/ pc[c] = "alloc" /\ pc'[c] = "hw_alloc"
            \/ pc[c] = "libs" /\ pc'[c] = "hw_pre"
            \/ pc[c] = "main" /\ pc'[c] = "hw_post"
            \/ pc[c] = "main" /\ n < MainReduces /\ pc'[c] = "hw_sum"
            \/ pc[c] = "exit" /\ ~(n < MainReduces) /\ pc'[c] = "hw_sum"
        BY <2>4, <3>3, <4>1, GotoFact
        DEF CoreStep, Resume, ClearReset, PollReset, InitBss, WakeDone, WaitTls, SetClsPtr,
            WaitAlloc, InitLibs, MainReturns, CallReduction, AddToCluster
      <4>3. StageOf(pc'[c], c[1], n) = StageOf(pc[c], c[1], n)
        BY <4>2, StageTable
      <4>4. Round(c)' = Round(c)
        BY <3>1, <4>2 DEF Round
      <4> QED
        BY <2>2, <3>2, <4>3, <4>4
    <3>4. CASE IsDm(c) /\ DmStep(c[1])
      <4>1. c = DmCore(c[1])
        BY <3>4, CoreFacts
      <4>2. \/ pc[c] = "tls" /\ pc'[c] = "tls_wait"
            \/ pc[c] = "tls_wait" /\ pc'[c] = "hw_tls"
            \/ pc[c] = "cls" /\ pc'[c] = "cls_ptr"
            \/ pc[c] = "alloc" /\ pc'[c] = "alloc_l3"
            \/ pc[c] = "alloc_l3" /\ pc'[c] = "hw_alloc"
            \/ pc[c] = "global" /\ pc'[c] = "icb"
            \/ pc[c] = "copy" /\ pc'[c] = "hw_copy"
        BY <3>4, <4>1, GotoFact
        DEF DmStep, StartTls, TlsDone, CopyCls, InitL1Allocator, InitL3Allocator, ReductionStep,
            AddToGlobal, CopyBack
      <4>3. StageOf(pc'[c], c[1], n) = StageOf(pc[c], c[1], n)
        BY <4>2, StageTable
      <4>4. Round(c)' = Round(c)
        BY <3>1, <4>2 DEF Round
      <4> QED
        BY <2>2, <3>2, <4>3, <4>4
    <3>5. CASE c = Core0 /\ Core0Step
      <4>1. \/ pc[c] = "wake" /\ pc'[c] = "wake"
            \/ pc[c] = "main" /\ pc'[c] = "l3_next"
            \/ pc[c] = "l3_next" /\ pc'[c] = "main"
            \/ pc[c] = "tohost" /\ pc'[c] = "end"
        BY <3>5, GotoFact DEF Core0Step, WakeCluster, ReadL3Next, BumpL3Next, WriteTohost
      <4>2. StageOf(pc'[c], c[1], n) = StageOf(pc[c], c[1], n)
        BY <4>1, StageTable
      <4>3. Round(c)' = Round(c)
        BY <3>1, <4>1 DEF Round
      <4> QED
        BY <2>2, <3>2, <4>2, <4>3
    <3> QED
      BY <1>1, <3>3, <3>4, <3>5 DEF Step
  <2> QED
    BY <2>3, <2>4
<1>2. ASSUME NEW c \in Cores, ClearLands(c) \/ CopyTls(c)
      PROVE  \A d \in Cores : Stage(d)' = Stage(d) /\ Round(d)' = Round(d)
  BY <1>2 DEF ClearLands, CopyTls, run, sums, Stage, Round
<1>3. CASE MeetInReduction
  <2>1. returned' = returned /\ \A d \in Cores : \/ pc'[d] = pc[d]
                                                 \/ pc[d] = "icb" /\ pc'[d] = "copy"
    BY <1>3 DEF MeetInReduction, InterClusterBarrier, sums
  <2>2. \A d \in Cores : Stage(d)' = Stage(d)
    BY <2>1, StageTable DEF Stage
  <2> QED
    BY <2>1, <2>2 DEF Round
<1>4. CASE UNCHANGED vars
  BY <1>4 DEF vars, run, sums, Stage, Round
<1> QED
  BY <1>1, <1>2, <1>3, <1>4
--------------------------------------------------------------------------------
(* Cores of a cluster that stall in the hardware barrier stall in the same call. *)
LEMMA BarriersMatch ==
    ASSUME TypeOK, \A c \in Cores : CoreRight(c) /\ InStep(c)
    PROVE  HwBarriersMatch
<1> SUFFICES ASSUME NEW k \in Clusters, NEW c \in CoresOf(k), NEW d \in CoresOf(k),
                    pc[c] \in InBarrier, pc[d] \in InBarrier
             PROVE  pc[c] = pc[d]
  BY DEF HwBarriersMatch
<1>1. c \in Cores /\ d \in Cores /\ c[1] = k /\ d[1] = k
  BY CoreFacts
<1>2. Stage(c) = Stage(d) /\ Round(c) = Round(d)
  BY <1>1 DEF InStep
<1>3. pc[c] # "return" /\ pc[d] # "return"
  BY DEF InBarrier
<1>4. Len(returned[c]) \in Nat /\ Len(returned[d]) \in Nat
  BY <1>1 DEF TypeOK
<1>5. Len(returned[c]) = Len(returned[d])
  BY <1>2, <1>3, <1>4 DEF Round
<1> DEFINE n == Len(returned[c])
<1>6. StageOf(pc[c], k, n) = StageOf(pc[d], k, n)
  BY <1>1, <1>2, <1>5 DEF Stage
<1>7. /\ pc[c] = "hw_post" => n = MainReduces
      /\ pc[d] = "hw_post" => n = MainReduces
  BY <1>1, <1>5 DEF CoreRight
<1>8. n \in Nat
  BY <1>4
<1> HIDE DEF n
<1>9. (pc[c] = "hw_post" \/ pc[d] = "hw_post") => ~(n < MainReduces)
  BY <1>7, <1>8, Numbers
<1> QED
  BY <1>6, <1>9, StageTable DEF InBarrier

(* What the barrier does to each core. *)
LEMMA Release ==
    ASSUME TypeOK, \A c \in Cores : CoreRight(c) /\ InStep(c), NEW k \in Clusters, HwRelease(k)
    PROVE  /\ \A c \in CoresOf(k) :
                 /\ pc[c] \in InBarrier /\ pc[c] = pc[DmCore(k)]
                 /\ pc[c] = "hw_bss"   => pc'[c] = "wake"   /\ Stage(c)' = "wake"
                 /\ pc[c] = "hw_wake"  => pc'[c] = "clear"  /\ Stage(c)' = "tls"
                 /\ pc[c] = "hw_tls"   => pc'[c] = "cls"    /\ Stage(c)' = "cls"
                 /\ pc[c] = "hw_cls"   => pc'[c] = "alloc"  /\ Stage(c)' = "alloc"
                 /\ pc[c] = "hw_alloc" => pc'[c] = "libs"   /\ Stage(c)' = "libs"
                 /\ pc[c] = "hw_pre"   => pc'[c] = "main"   /\ Stage(c)' = "main"
                 /\ pc[c] = "hw_post"  => pc'[c] = "exit"   /\ Stage(c)' = "exit"
                 /\ pc[c] = "hw_copy"  => pc'[c] = "return" /\ Stage(c)' = "main"
                 /\ pc[c] = "hw_sum"   => pc'[c] \in {"global", "hw_copy"} /\ Stage(c)' = "sum"
                 /\ pc'[c] = "global"  => IsDm(c)
           /\ \A c \in Cores \ CoresOf(k) :
                 pc'[c] = pc[c] /\ Stage(c)' = Stage(c) /\ Round(c)' = Round(c)
           /\ UNCHANGED <<irqs, waking, mem, run>>
<1>1. UNCHANGED <<irqs, waking, mem, run>> /\ returned' = returned
  BY DEF HwRelease, run, sums
<1>2. \A c \in Cores \ CoresOf(k) :
         pc'[c] = pc[c] /\ Stage(c)' = Stage(c) /\ Round(c)' = Round(c)
  BY <1>1 DEF HwRelease, Stage, Round
<1>3. ASSUME NEW c \in CoresOf(k) PROVE pc[c] \in InBarrier /\ pc[c] = pc[DmCore(k)]
  BY BarriersMatch, CoreFacts DEF HwBarriersMatch, HwRelease
<1>4. ASSUME NEW c \in CoresOf(k) PROVE pc'[c] = AfterBarrier(c)
  BY CoreFacts DEF HwRelease
<1>5. ASSUME NEW c \in CoresOf(k) PROVE Stage(c)' = StageOf(pc'[c], c[1], Len(returned[c]))
  BY <1>1 DEF Stage
<1>6. ASSUME NEW c \in CoresOf(k)
      PROVE  /\ pc[c] = "hw_bss"   => pc'[c] = "wake"   /\ Stage(c)' = "wake"
             /\ pc[c] = "hw_wake"  => pc'[c] = "clear"  /\ Stage(c)' = "tls"
             /\ pc[c] = "hw_tls"   => pc'[c] = "cls"    /\ Stage(c)' = "cls"
             /\ pc[c] = "hw_cls"   => pc'[c] = "alloc"  /\ Stage(c)' = "alloc"
             /\ pc[c] = "hw_alloc" => pc'[c] = "libs"   /\ Stage(c)' = "libs"
             /\ pc[c] = "hw_pre"   => pc'[c] = "main"   /\ Stage(c)' = "main"
             /\ pc[c] = "hw_post"  => pc'[c] = "exit"   /\ Stage(c)' = "exit"
             /\ pc[c] = "hw_copy"  => pc'[c] = "return" /\ Stage(c)' = "main"
             /\ pc[c] = "hw_sum"   => pc'[c] \in {"global", "hw_copy"} /\ Stage(c)' = "sum"
             /\ pc'[c] = "global"  => IsDm(c)
  BY <1>3, <1>4, <1>5, ReleaseTable, StageTable DEF InBarrier
<1> QED
  BY <1>1, <1>2, <1>3, <1>6

(* The cores of a cluster stay together. *)
LEMMA InStepStep ==
    ASSUME TypeOK, \A c \in Cores : CoreRight(c) /\ InStep(c), [Next]_vars
    PROVE  \A c \in Cores : InStep(c)'
<1>1. ASSUME NEW k \in Clusters, HwRelease(k) PROVE \A c \in Cores : InStep(c)'
  <2> SUFFICES ASSUME NEW c \in Cores PROVE InStep(c)'
    OBVIOUS
  <2>0. InStep(c) /\ c[1] \in Clusters /\ DmCore(c[1]) \in Cores /\ DmCore(c[1]) \in CoresOf(c[1])
        /\ c \in CoresOf(c[1])
    BY CoreFacts
  <2>1. CASE c[1] # k
    <3>1. c \notin CoresOf(k) /\ DmCore(c[1]) \notin CoresOf(k)
      BY <2>0, <2>1, CoreFacts
    <3>2. Stage(c)' = Stage(c) /\ Round(c)' = Round(c)
      BY <1>1, <3>1, Release
    <3>3. Stage(DmCore(c[1]))' = Stage(DmCore(c[1])) /\ Round(DmCore(c[1]))' = Round(DmCore(c[1]))
      BY <1>1, <2>0, <3>1, Release
    <3> QED
      BY <2>0, <3>2, <3>3 DEF InStep
  <2>2. CASE c[1] = k
    <3> DEFINE d == DmCore(k)
    <3>1. c \in CoresOf(k) /\ d \in CoresOf(k) /\ d \in Cores
      BY <2>0, <2>2
    <3>2. pc[c] = pc[d] /\ pc[c] \in InBarrier
      BY <1>1, <3>1, Release
    <3>3. Round(c) = Round(d) /\ returned' = returned
      BY <1>1, <2>0, <2>2, Release DEF InStep, run, sums
    <3>4. Len(returned[c]) \in Nat /\ Len(returned[d]) \in Nat
      BY <3>1 DEF TypeOK
    <3>5. Len(returned[c]) = Len(returned[d])
      <4>1. pc[c] # "return" /\ pc[d] # "return"
        BY <3>2 DEF InBarrier
      <4>2. Round(c) = Len(returned[c]) /\ Round(d) = Len(returned[d])
        BY <3>4, <4>1 DEF Round
      <4> QED
        BY <3>3, <4>2
    <3>6. pc'[c] = "return" <=> pc'[d] = "return"
      BY <1>1, <3>1, <3>2, Release DEF InBarrier
    <3>7. Round(c)' = Round(d)'
      BY <3>3, <3>5, <3>6 DEF Round
    <3>8. Stage(c)' = Stage(d)'
      BY <1>1, <3>1, <3>2, Release DEF InBarrier
    <3> QED
      BY <2>2, <3>7, <3>8 DEF InStep
  <2> QED
    BY <2>1, <2>2
<1>2. CASE ~\E k \in Clusters : HwRelease(k)
  <2>1. \A c \in Cores : Stage(c)' = Stage(c) /\ Round(c)' = Round(c)
    BY <1>2, StageKept, NextSplit
  <2>2. \A c \in Cores : DmCore(c[1]) \in Cores
    BY CoreFacts
  <2> QED
    BY <2>1, <2>2 DEF InStep
<1> QED
  BY <1>1, <1>2

(* Who executes what, and how often. *)
LEMMA CoreRightStep ==
    ASSUME TypeOK, \A c \in Cores : CoreRight(c) /\ InStep(c), [Next]_vars
    PROVE  \A c \in Cores : CoreRight(c)'
<1>0. \A c \in Cores : Len(returned[c]) \in Nat
  BY DEF TypeOK
<1>1. ASSUME NEW d \in Cores, pc'[d] = pc[d], returned'[d] = returned[d] PROVE CoreRight(d)'
  <2>1. CoreRight(d)
    OBVIOUS
  <2> QED
    BY <1>1, <2>1 DEF CoreRight, Stage
<1>2. ASSUME NEW k \in Clusters, HwRelease(k), NEW c \in Cores PROVE CoreRight(c)'
  <2>1. returned' = returned
    BY <1>2, Release DEF run, sums
  <2>2. CASE c \notin CoresOf(k)
    BY <1>1, <1>2, <2>1, <2>2, Release
  <2>3. CASE c \in CoresOf(k)
    <3>1. CoreRight(c) /\ pc[c] \in InBarrier
      BY <1>2, <2>3, Release
    <3>2. pc'[c] \in {"wake", "clear", "cls", "alloc", "libs", "main", "exit", "return",
                      "global", "hw_copy"}
      BY <1>2, <2>3, <3>1, Release DEF InBarrier
    <3>3. pc'[c] = "global" => IsDm(c)
      BY <1>2, <2>3, Release
    <3>4. pc'[c] = "exit" => pc[c] = "hw_post"
      BY <1>2, <2>3, <3>1, Release DEF InBarrier
    <3>5. Stage(c)' \notin PastLibs => Stage(c) \notin PastLibs
      <4>1. Stage(c)' \notin PastLibs => pc[c] \in {"hw_bss", "hw_wake", "hw_tls", "hw_cls", "hw_alloc"}
        BY <1>2, <2>3, <3>1, Release DEF InBarrier, PastLibs
      <4>2. pc[c] \in {"hw_bss", "hw_wake", "hw_tls", "hw_cls", "hw_alloc"} =>
                Stage(c) \in {"bss", "wake", "tls", "cls", "alloc"}
        BY StageTable DEF Stage
      <4> QED
        BY <4>1, <4>2 DEF PastLibs
    <3>6. pc[c] \notin {"tohost", "end"}
      BY <3>1 DEF InBarrier
    <3> QED
      BY <2>1, <3>1, <3>2, <3>3, <3>4, <3>5, <3>6 DEF CoreRight
  <2> QED
    BY <2>2, <2>3
<1>3. ASSUME NEW c \in Cores, Step(c) PROVE \A d \in Cores : CoreRight(d)'
  <2>1. \A d \in Cores \ {c} : pc'[d] = pc[d] /\ returned'[d] = returned[d]
    BY <1>3, StepFrame
  <2>2. CoreRight(c) /\ Stage(c)' = Stage(c)
    BY <1>3, StageKept
  <2>3. CASE ReductionReturns(c)
    <3>1. /\ pc[c] = "return" /\ returned'[c] = Append(returned[c], reduction[c[1]])
          /\ pc'[c] = (IF Len(returned[c]) < MainReduces THEN "main"
                       ELSE IF c = Core0 THEN "tohost" ELSE "end")
      BY <2>3 DEF ReductionReturns, ReturnResult, Goto, TypeOK
    <3>2. Len(returned'[c]) = Len(returned[c]) + 1
      BY <3>1 DEF TypeOK
    <3>3. Len(returned[c]) <= MainReduces
      BY <1>0, <2>2, <3>1, Numbers DEF CoreRight
    <3>4. Len(returned'[c]) <= MainReduces + (IF pc'[c] \in {"tohost", "end"} THEN 1 ELSE 0)
      BY <1>0, <3>1, <3>2, <3>3, Numbers
    <3>5. Stage(c) = "main"
      BY <3>1, StageTable DEF Stage
    <3>6. CoreRight(c)'
      BY <2>2, <3>1, <3>4, <3>5 DEF CoreRight, PastLibs
    <3> QED
      BY <1>1, <2>1, <3>6
  <2>4. CASE ~ReductionReturns(c)
    <3>1. returned' = returned
      BY <1>3, <2>4, StepFrame
    <3>2. /\ pc'[c] \in {"tls_wait", "cls_ptr", "alloc_l3", "global", "icb", "copy"} => IsDm(c)
          /\ pc'[c] \in {"l3_next", "tohost"} => c = Core0
          /\ pc'[c] \in {"clear0", "poll0", "bss", "hw_bss"} => c[1] = 0
          /\ pc'[c] = "hw_post" => Len(returned[c]) = MainReduces
          /\ pc'[c] # "exit"
          /\ pc[c] \in {"tohost", "end"} => pc'[c] = "end"
      <4>1. CASE CoreStep(c)
        BY <2>2, <2>4, <4>1, GotoFact
        DEF CoreStep, Resume, ClearReset, PollReset, InitBss, WakeDone, WaitTls, SetClsPtr,
            WaitAlloc, InitLibs, MainReturns, CallReduction, AddToCluster, CoreRight
      <4>2. CASE IsDm(c) /\ DmStep(c[1])
        <5>1. c = DmCore(c[1])
          BY <4>2, CoreFacts
        <5> QED
          BY <4>2, <5>1, GotoFact
          DEF DmStep, StartTls, TlsDone, CopyCls, InitL1Allocator, InitL3Allocator, ReductionStep,
              AddToGlobal, CopyBack
      <4>3. CASE c = Core0 /\ Core0Step
        BY <4>3, GotoFact DEF Core0Step, WakeCluster, ReadL3Next, BumpL3Next, WriteTohost
      <4> QED
        BY <1>3, <4>1, <4>2, <4>3 DEF Step
    <3>3. Len(returned[c]) <= MainReduces + (IF pc'[c] \in {"tohost", "end"} THEN 1 ELSE 0)
      BY <1>0, <2>2, <3>2, Numbers DEF CoreRight
    <3>4. CoreRight(c)'
      BY <2>2, <3>1, <3>2, <3>3 DEF CoreRight
    <3> QED
      BY <1>1, <2>1, <3>4
  <2> QED
    BY <2>3, <2>4
<1>4. ASSUME NEW c \in Cores, ClearLands(c) \/ CopyTls(c) PROVE \A d \in Cores : CoreRight(d)'
  BY <1>1, <1>4 DEF ClearLands, CopyTls, run, sums
<1>5. CASE MeetInReduction
  <2>1. returned' = returned /\ \A d \in Cores : \/ pc'[d] = pc[d]
                                                 \/ pc[d] = "icb" /\ pc'[d] = "copy"
    BY <1>5 DEF MeetInReduction, InterClusterBarrier, sums
  <2>2. ASSUME NEW d \in Cores, pc[d] = "icb", pc'[d] = "copy" PROVE CoreRight(d)'
    <3>1. CoreRight(d) /\ Stage(d)' = Stage(d)
      BY <1>5, StageKept
    <3> QED
      BY <2>1, <2>2, <3>1 DEF CoreRight
  <2> QED
    BY <1>1, <2>1, <2>2
<1>6. CASE UNCHANGED vars
  BY <1>1, <1>6 DEF vars, run, sums
<1> QED
  BY <1>2, <1>3, <1>4, <1>5, <1>6, NextSplit
--------------------------------------------------------------------------------
(* What a step of a core writes. *)
LEMMA StepWrites ==
    ASSUME NEW c \in Cores, Step(c)
    PROVE  /\ (WakeCluster /\ c = Core0) \/ (mcip' = mcip /\ waking' = waking)
           /\ ClearReset(c) \/ clearing' = clearing
           /\ InitBss(c) \/ bss' = bss
           /\ (StartTls(c[1]) /\ IsDm(c)) \/ copies' = copies
           /\ SetClsPtr(c) \/ InitLibs(c) \/ tls' = tls
           /\ ((CopyCls(c[1]) \/ InitL1Allocator(c[1])) /\ IsDm(c)) \/ cls' = cls
           /\ CopyCls(c[1]) \/ CallReduction(c) \/ ReductionStep(c[1]) \/ reduction' = reduction
           /\ InitBss(c) \/ ReductionStep(c[1]) \/ global' = global
<1>1. CASE CoreStep(c)
  BY <1>1
  DEF CoreStep, Resume, ClearReset, PollReset, InitBss, WakeDone, WaitTls, SetClsPtr,
      WaitAlloc, InitLibs, MainReturns, CallReduction, ReductionReturns, AddToCluster,
      ReturnResult, irqs, mem, run, sums
<1>2. CASE IsDm(c) /\ DmStep(c[1])
  BY <1>2
  DEF DmStep, StartTls, TlsDone, CopyCls, InitL1Allocator, InitL3Allocator, ReductionStep,
      irqs, mem, run, sums
<1>3. CASE c = Core0 /\ Core0Step
  BY <1>3 DEF Core0Step, WakeCluster, ReadL3Next, BumpL3Next, WriteTohost, irqs, mem, run, sums
<1> QED
  BY <1>1, <1>2, <1>3 DEF Step

(* Core 0 wakes the other clusters after the barrier behind the clearing of .bss. *)
LEMMA WakingAfterBss ==
    ASSUME TypeOK, \A c \in Cores : InStep(c), BssRight, pc[Core0] = "wake"
    PROVE  bss
<1>1. Stage(Core0) = "wake"
  BY StageTable DEF Stage
<1>2. Stage(DmCore(0)) = "wake" /\ DmCore(0) \in Cores /\ DmCore(0)[1] = 0
  BY <1>1, CoreFacts DEF InStep
<1>3. pc[DmCore(0)] \notin {"park", "clear0", "poll0", "bss"}
  BY <1>2, StageTable DEF Stage
<1> QED
  BY <1>3 DEF BssRight

(* A core leaves the bootrom by an interrupt. *)
LEMMA ParkedStep ==
    ASSUME NEW c \in Cores, Step(c), pc[c] = "park"
    PROVE  Resume(c)
<1>1. ~(IsDm(c) /\ DmStep(c[1]))
  <2>1. IsDm(c) => c = DmCore(c[1])
    BY CoreFacts
  <2> QED
    BY <2>1
    DEF DmStep, StartTls, TlsDone, CopyCls, InitL1Allocator, InitL3Allocator,
        ReductionStep, AddToGlobal, CopyBack, Goto
<1>2. ~(c = Core0 /\ Core0Step)
  BY DEF Core0Step, WakeCluster, ReadL3Next, BumpL3Next, WriteTohost, Goto
<1>3. CoreStep(c)
  BY <1>1, <1>2 DEF Step
<1> QED
  BY <1>3
  DEF CoreStep, ClearReset, PollReset, InitBss, WakeDone, WaitTls, SetClsPtr, WaitAlloc,
      InitLibs, MainReturns, CallReduction, ReductionReturns, AddToCluster, ReturnResult, Goto

LEMMA BssStep ==
    ASSUME TypeOK, \A c \in Cores : CoreRight(c) /\ InStep(c), BssRight, [Next]_vars
    PROVE  BssRight'
<1>0. 0 \in Clusters /\ DmCore(0) \in Cores /\ DmCore(0)[1] = 0 /\ IsDm(DmCore(0))
      /\ Core0 \in Cores /\ Core0[1] = 0
  BY CoreFacts
<1>1. ASSUME NEW k \in Clusters, HwRelease(k) PROVE BssRight'
  <2>1. UNCHANGED <<mcip, waking, bss>>
    BY <1>1, Release DEF irqs, mem
  <2>2. \A c \in Cores : pc'[c] = pc[c] \/ pc[c] \in InBarrier
    BY <1>1, Release
  <2> QED
    BY <1>0, <2>1, <2>2 DEF BssRight, InBarrier
<1>2. ASSUME NEW c \in Cores, Step(c) PROVE BssRight'
  <2>1. \A d \in Cores \ {c} : pc'[d] = pc[d]
    BY <1>2, StepFrame
  <2>2. CASE InitBss(c)
    <3>1. pc[c] = "bss" /\ pc'[c] = "hw_bss" /\ UNCHANGED <<mcip, waking>> /\ bss' = (bss \/ IsDm(c))
      BY <2>2, GotoFact DEF InitBss, irqs
    <3>2. c[1] = 0
      BY <3>1 DEF CoreRight
    <3>3. bss => bss'
      BY <3>1
    <3>4. pc'[DmCore(0)] \notin {"park", "clear0", "poll0", "bss"} => bss'
      BY <1>0, <2>1, <3>1, <3>3 DEF BssRight
    <3>5. \A d \in Cores : d[1] # 0 => pc'[d] = pc[d]
      BY <2>1, <3>2
    <3> QED
      BY <3>1, <3>3, <3>4, <3>5 DEF BssRight
  <2>3. CASE WakeCluster /\ c = Core0
    <3>1. pc[Core0] = "wake"
      BY <1>0, <2>3, GotoFact DEF WakeCluster
    <3>2. bss /\ bss' = bss
      BY <2>3, <3>1, WakingAfterBss DEF WakeCluster, mem
    <3> QED
      BY <3>2 DEF BssRight
  <2>4. CASE ~InitBss(c) /\ ~(WakeCluster /\ c = Core0)
    <3>1. UNCHANGED <<mcip, waking, bss>>
      BY <1>2, <2>4, StepWrites
    <3>2. pc'[DmCore(0)] \notin {"park", "clear0", "poll0", "bss"} => bss
      <4>1. CASE c # DmCore(0)
        BY <1>0, <2>1, <4>1 DEF BssRight
      <4>2. CASE c = DmCore(0)
        <5>1. \/ pc[c] \notin {"park", "clear0", "poll0", "bss"}
              \/ pc'[c] \in {"park", "clear0", "poll0", "bss"}
          <6>1. CASE CoreStep(c)
            BY <1>0, <2>4, <4>2, <6>1, GotoFact
            DEF CoreStep, Resume, ClearReset, PollReset, WakeDone, WaitTls, SetClsPtr,
                WaitAlloc, InitLibs, MainReturns, CallReduction, ReductionReturns, AddToCluster,
                ReturnResult
          <6>2. CASE IsDm(c) /\ DmStep(c[1])
            BY <1>0, <4>2, <6>2, GotoFact
            DEF DmStep, StartTls, TlsDone, CopyCls, InitL1Allocator, InitL3Allocator,
                ReductionStep, AddToGlobal, CopyBack
          <6>3. CASE c = Core0 /\ Core0Step
            BY <6>3, GotoFact DEF Core0Step, WakeCluster, ReadL3Next, BumpL3Next, WriteTohost
          <6> QED
            BY <1>2, <6>1, <6>2, <6>3 DEF Step
        <5> QED
          BY <4>2, <5>1 DEF BssRight
      <4> QED
        BY <4>1, <4>2
    <3>3. ASSUME NEW d \in Cores, d[1] # 0, pc'[d] # "park", pc[d] = "park" PROVE bss
      <4>1. c = d
        BY <2>1, <3>3
      <4>2. Resume(c)
        BY <1>2, <3>3, <4>1, ParkedStep
      <4>3. mcip[c]
        BY <4>2 DEF Resume
      <4> QED
        BY <3>3, <4>1, <4>3 DEF BssRight
    <3> QED
      BY <3>1, <3>2, <3>3 DEF BssRight
  <2> QED
    BY <2>2, <2>3, <2>4
<1>3. ASSUME NEW c \in Cores, ClearLands(c) PROVE BssRight'
  <2>1. UNCHANGED <<pc, waking, bss>>
    BY <1>3 DEF ClearLands, mem
  <2>2. \A d \in Cores : mcip'[d] => mcip[d]
    BY <1>3 DEF ClearLands, TypeOK
  <2> QED
    BY <2>1, <2>2 DEF BssRight
<1>4. ASSUME NEW c \in Cores, CopyTls(c) PROVE BssRight'
  BY <1>4 DEF CopyTls, irqs, BssRight
<1>5. CASE MeetInReduction
  <2>1. UNCHANGED <<mcip, waking, bss>>
    BY <1>5 DEF MeetInReduction, irqs, mem
  <2>2. \A d \in Cores : pc'[d] = pc[d] \/ pc[d] = "icb"
    BY <1>5 DEF MeetInReduction, InterClusterBarrier
  <2> QED
    BY <1>0, <2>1, <2>2 DEF BssRight
<1>6. CASE UNCHANGED vars
  BY <1>6 DEF vars, irqs, mem, BssRight
<1> QED
  BY <1>1, <1>2, <1>3, <1>4, <1>5, <1>6, NextSplit
--------------------------------------------------------------------------------
(* The reset flag and its clears. *)
LEMMA ResetStep ==
    ASSUME TypeOK, \A c \in Cores : CoreRight(c) /\ InStep(c),
           \A c \in Cores : ResetRight(c), [Next]_vars
    PROVE  \A c \in Cores : ResetRight(c)'
<1>0. \A c \in Cores : c[1] \in Int /\ waking \in Int
  BY CoreFacts, Numbers DEF TypeOK
<1>1. ASSUME NEW d \in Cores, pc'[d] = pc[d], Stage(d)' = Stage(d),
             waking' = waking, mcip'[d] => mcip[d], clearing'[d] => clearing[d]
      PROVE  ResetRight(d)'
  <2>1. ResetRight(d)
    OBVIOUS
  <2> QED
    BY <1>1, <2>1 DEF ResetRight
<1>2. ASSUME NEW k \in Clusters, HwRelease(k), NEW c \in Cores PROVE ResetRight(c)'
  <2>1. UNCHANGED <<mcip, clearing, waking>>
    BY <1>2, Release DEF irqs
  <2>2. CASE c \notin CoresOf(k)
    BY <1>1, <1>2, <2>1, <2>2, Release
  <2>3. CASE c \in CoresOf(k)
    <3>1. ResetRight(c) /\ pc[c] \in InBarrier
      BY <1>2, <2>3, Release
    <3>2. pc[c] = "hw_wake" => pc'[c] = "clear"
      BY <1>2, <2>3, Release
    <3>3. pc'[c] \notin {"alloc_l3", "hw_alloc"}
      BY <1>2, <2>3, <3>1, Release DEF InBarrier
    <3>4. Stage(c)' \in PastAlloc => pc[c] = "hw_alloc" \/ Stage(c) \in PastAlloc
      <4>1. Stage(c)' \in PastAlloc =>
                pc[c] \in {"hw_alloc", "hw_pre", "hw_post", "hw_sum", "hw_copy"}
        BY <1>2, <2>3, <3>1, Release DEF InBarrier, PastAlloc, PastLibs
      <4>2. pc[c] \in {"hw_pre", "hw_post", "hw_sum", "hw_copy"} =>
                Stage(c) \in {"libs", "main", "exit", "sum"}
        BY StageTable DEF Stage
      <4> QED
        BY <4>1, <4>2 DEF PastAlloc, PastLibs
    <3>5. pc[c] \notin {"park", "clear0", "poll0", "wake", "clear", "poll"}
      BY <3>1 DEF InBarrier
    <3> QED
      BY <2>1, <3>1, <3>2, <3>3, <3>4, <3>5 DEF ResetRight
  <2> QED
    BY <2>2, <2>3
<1>3. ASSUME NEW c \in Cores, Step(c) PROVE \A d \in Cores : ResetRight(d)'
  <2>1. \A d \in Cores \ {c} : pc'[d] = pc[d]
    BY <1>3, StepFrame
  <2>2. \A d \in Cores : Stage(d)' = Stage(d)
    BY <1>3, StageKept
  <2>3. CASE WakeCluster /\ c = Core0
    <3>1. /\ pc' = pc /\ clearing' = clearing /\ waking' = waking + 1
          /\ \A d \in Cores : mcip'[d] <=> mcip[d] \/ (d[1] = waking /\ waking # 0)
      BY <2>3 DEF WakeCluster, Goto, TypeOK
    <3>2. ASSUME NEW d \in Cores PROVE ResetRight(d)'
      <4>1. ResetRight(d)
        OBVIOUS
      <4>2. waking + 1 <= d[1] => waking <= d[1] /\ d[1] # waking
        BY <1>0
      <4>3. d[1] = waking => waking <= d[1]
        BY <1>0
      <4> QED
        BY <2>2, <3>1, <4>1, <4>2, <4>3 DEF ResetRight
    <3> QED
      BY <3>2
  <2>4. CASE ~(WakeCluster /\ c = Core0)
    <3>1. mcip' = mcip /\ waking' = waking
      BY <1>3, <2>4, StepWrites
    <3>2. \A d \in Cores \ {c} : clearing'[d] = clearing[d]
      BY <1>3, StepWrites DEF ClearReset, TypeOK
    <3>3. ResetRight(c) /\ CoreRight(c)
      OBVIOUS
    <3>4. c[1] # 0 /\ waking <= c[1] => pc'[c] = "park" /\ ~mcip[c]
      BY <1>3, <3>3, ParkedStep DEF ResetRight, Resume
    <3>5. mcip[c] => /\ pc[c] = "park" => pc'[c] = (IF c[1] = 0 THEN "clear0" ELSE "wake")
                     /\ pc[c] = "clear0" => pc'[c] = "poll0"
                     /\ pc[c] = "wake" => pc'[c] \in {"wake", "hw_wake"}
                     /\ pc[c] = "clear" => pc'[c] = "poll"
                     /\ pc[c] \notin {"poll0", "poll", "hw_wake"}
      <4>1. CASE CoreStep(c)
        BY <4>1, GotoFact
        DEF CoreStep, Resume, ClearReset, PollReset, InitBss, WakeDone, WaitTls, SetClsPtr,
            WaitAlloc, InitLibs, MainReturns, CallReduction, ReductionReturns, AddToCluster,
            ReturnResult
      <4>2. CASE IsDm(c) /\ DmStep(c[1])
        <5>1. c = DmCore(c[1])
          BY <4>2, CoreFacts
        <5> QED
          BY <4>2, <5>1, GotoFact
          DEF DmStep, StartTls, TlsDone, CopyCls, InitL1Allocator, InitL3Allocator,
              ReductionStep, AddToGlobal, CopyBack
      <4>3. CASE c = Core0 /\ Core0Step
        BY <4>3, GotoFact DEF Core0Step, WakeCluster, ReadL3Next, BumpL3Next, WriteTohost
      <4> QED
        BY <1>3, <4>1, <4>2, <4>3 DEF Step
    <3>6. /\ c[1] = 0 /\ mcip[c] => pc'[c] \in {"park", "clear0", "poll0"}
          /\ c[1] # 0 /\ mcip[c] => pc'[c] \in {"park", "wake", "hw_wake", "clear", "poll"}
      BY <3>3, <3>5 DEF ResetRight
    <3>7. IsDm(c) /\ clearing'[c] =>
              pc'[c] \notin {"alloc_l3", "hw_alloc"} /\ Stage(c)' \notin PastAlloc
      <4> SUFFICES ASSUME IsDm(c), clearing'[c]
                   PROVE  pc'[c] \notin {"alloc_l3", "hw_alloc"} /\ Stage(c)' \notin PastAlloc
        OBVIOUS
      <4>1. CASE ClearReset(c)
        <5>1. pc'[c] \in {"poll0", "poll"} /\ pc[c] \in {"clear0", "clear"}
          BY <4>1, GotoFact DEF ClearReset
        <5>2. Stage(c) \in {"bss", "tls"}
          BY <5>1, StageTable DEF Stage
        <5> QED
          BY <2>2, <5>1, <5>2 DEF PastAlloc, PastLibs
      <4>2. CASE ~ClearReset(c)
        <5>1. clearing[c] /\ c = DmCore(c[1])
          BY <1>3, <4>2, StepWrites, CoreFacts
        <5>2. pc[c] # "alloc_l3" /\ Stage(c) \notin PastAlloc
          BY <3>3, <5>1 DEF ResetRight
        <5>3. pc'[c] \notin {"alloc_l3", "hw_alloc"}
          <6>1. CASE CoreStep(c)
            BY <6>1, GotoFact
            DEF CoreStep, Resume, ClearReset, PollReset, InitBss, WakeDone, WaitTls, SetClsPtr,
                WaitAlloc, InitLibs, MainReturns, CallReduction, ReductionReturns, AddToCluster,
                ReturnResult
          <6>2. CASE IsDm(c) /\ DmStep(c[1])
            BY <5>1, <5>2, <6>2, GotoFact
            DEF DmStep, StartTls, TlsDone, CopyCls, InitL1Allocator, InitL3Allocator,
                ReductionStep, AddToGlobal, CopyBack
          <6>3. CASE c = Core0 /\ Core0Step
            BY <6>3, GotoFact DEF Core0Step, WakeCluster, ReadL3Next, BumpL3Next, WriteTohost
          <6> QED
            BY <1>3, <6>1, <6>2, <6>3 DEF Step
        <5> QED
          BY <2>2, <5>2, <5>3
      <4> QED
        BY <4>1, <4>2
    <3>8. ResetRight(c)'
      BY <3>1, <3>4, <3>6, <3>7 DEF ResetRight
    <3> QED
      BY <1>1, <2>1, <2>2, <3>1, <3>2, <3>8
  <2> QED
    BY <2>3, <2>4
<1>4. ASSUME NEW c \in Cores, ClearLands(c) PROVE \A d \in Cores : ResetRight(d)'
  <2>1. /\ pc' = pc /\ waking' = waking
        /\ \A d \in Cores : mcip'[d] => mcip[d]
        /\ \A d \in Cores : clearing'[d] => clearing[d]
    BY <1>4 DEF ClearLands, TypeOK
  <2>2. \A d \in Cores : Stage(d)' = Stage(d)
    BY <1>4, StageKept
  <2> QED
    BY <1>1, <2>1, <2>2
<1>5. ASSUME NEW c \in Cores, CopyTls(c) PROVE \A d \in Cores : ResetRight(d)'
  <2>1. \A d \in Cores : Stage(d)' = Stage(d)
    BY <1>5, StageKept
  <2> QED
    BY <1>1, <1>5, <2>1 DEF CopyTls, irqs
<1>6. CASE MeetInReduction
  <2>1. /\ UNCHANGED <<mcip, clearing, waking>>
        /\ \A d \in Cores : pc'[d] = pc[d] \/ (pc[d] = "icb" /\ pc'[d] = "copy")
    BY <1>6 DEF MeetInReduction, InterClusterBarrier, irqs
  <2>2. \A d \in Cores : Stage(d)' = Stage(d)
    BY <1>6, StageKept
  <2> QED
    BY <2>1, <2>2 DEF ResetRight
<1>7. CASE UNCHANGED vars
  BY <1>7, StageKept DEF vars, irqs, ResetRight
<1> QED
  BY <1>2, <1>3, <1>4, <1>5, <1>6, <1>7, NextSplit
--------------------------------------------------------------------------------
(* The TLS of each core. *)
LEMMA TlsStep ==
    ASSUME TypeOK, \A c \in Cores : CoreRight(c) /\ InStep(c),
           \A c \in Cores : TlsRight(c), [Next]_vars
    PROVE  \A c \in Cores : TlsRight(c)'
<1>0. \A c \in Cores : DmCore(c[1]) \in Cores /\ c[1] \in Clusters /\ c \in CoresOf(c[1])
                       /\ DmCore(c[1])[1] = c[1] /\ IsDm(DmCore(c[1]))
  BY CoreFacts
<1>1. ASSUME NEW k \in Clusters, HwRelease(k), NEW c \in Cores PROVE TlsRight(c)'
  <2>1. UNCHANGED <<tls, copies>>
    BY <1>1, Release DEF mem
  <2>2. CASE c[1] # k
    <3>1. c \notin CoresOf(k) /\ DmCore(c[1]) \notin CoresOf(k)
      BY <1>0, <2>2, CoreFacts
    <3>2. pc'[c] = pc[c] /\ Stage(c)' = Stage(c)
      BY <1>1, <3>1, Release
    <3>3. pc'[DmCore(c[1])] = pc[DmCore(c[1])]
      BY <1>0, <1>1, <3>1, Release
    <3>4. TlsRight(c)
      OBVIOUS
    <3> QED
      BY <2>1, <3>2, <3>3, <3>4 DEF TlsRight
  <2>3. CASE c[1] = k
    <3>1. c \in CoresOf(k) /\ DmCore(k) \in CoresOf(k)
      BY <1>0, <2>3
    <3>2. pc[c] \in InBarrier /\ pc[c] = pc[DmCore(k)]
      BY <1>1, <3>1, Release
    <3>3. pc'[DmCore(k)] \notin {"tls_wait", "hw_tls"} /\ pc'[c] \notin {"hw_cls", "hw_pre"}
      BY <1>1, <3>1, <3>2, Release DEF InBarrier
    <3>4. Stage(c)' \in PastTls => pc[c] = "hw_tls" \/ Stage(c) \in PastTls
      <4>1. Stage(c)' \in PastTls => pc[c] \in {"hw_tls", "hw_cls", "hw_alloc", "hw_pre",
                                                "hw_post", "hw_sum", "hw_copy"}
        BY <1>1, <3>1, <3>2, Release DEF InBarrier, PastTls, PastCls, PastAlloc, PastLibs
      <4>2. pc[c] \in {"hw_cls", "hw_alloc", "hw_pre", "hw_post", "hw_sum", "hw_copy"} =>
                Stage(c) \in {"cls", "alloc", "libs", "main", "exit", "sum"}
        BY StageTable DEF Stage
      <4> QED
        BY <4>1, <4>2 DEF PastTls, PastCls, PastAlloc, PastLibs
    <3>5. Stage(c)' \in PastCls => pc[c] = "hw_cls" \/ Stage(c) \in PastCls
      <4>1. Stage(c)' \in PastCls => pc[c] \in {"hw_cls", "hw_alloc", "hw_pre",
                                                "hw_post", "hw_sum", "hw_copy"}
        BY <1>1, <3>1, <3>2, Release DEF InBarrier, PastCls, PastAlloc, PastLibs
      <4>2. pc[c] \in {"hw_alloc", "hw_pre", "hw_post", "hw_sum", "hw_copy"} =>
                Stage(c) \in {"alloc", "libs", "main", "exit", "sum"}
        BY StageTable DEF Stage
      <4> QED
        BY <4>1, <4>2 DEF PastCls, PastAlloc, PastLibs
    <3>6. Stage(c)' \in PastLibs => pc[c] = "hw_pre" \/ Stage(c) \in PastLibs
      <4>1. Stage(c)' \in PastLibs => pc[c] \in {"hw_pre", "hw_post", "hw_sum", "hw_copy"}
        BY <1>1, <3>1, <3>2, Release DEF InBarrier, PastLibs
      <4>2. pc[c] \in {"hw_post", "hw_sum", "hw_copy"} => Stage(c) \in {"main", "exit", "sum"}
        BY StageTable DEF Stage
      <4> QED
        BY <4>1, <4>2 DEF PastLibs
    <3>7. pc[DmCore(k)] # "tls_wait"
      BY <3>2 DEF InBarrier
    <3>8. TlsRight(c)
      OBVIOUS
    <3> QED
      BY <2>1, <2>3, <3>2, <3>3, <3>4, <3>5, <3>6, <3>7, <3>8 DEF TlsRight
  <2> QED
    BY <2>2, <2>3
<1>2. ASSUME NEW x \in Cores, Step(x), NEW c \in Cores PROVE TlsRight(c)'
  <2>0. /\ TlsRight(c) /\ Stage(c)' = Stage(c)
        /\ \A d \in Cores \ {x} : pc'[d] = pc[d]
    BY <1>2, StepFrame, StageKept
  <2>1. CASE StartTls(x[1]) /\ IsDm(x)
    <3>1. x = DmCore(x[1]) /\ x[1] \in Clusters
      BY <2>1, CoreFacts
    <3>2. /\ pc[x] = "tls" /\ pc'[x] = "tls_wait" /\ tls' = tls
          /\ copies' = [copies EXCEPT ![x[1]] = CoresOf(x[1])]
      BY <2>1, <3>1, GotoFact DEF StartTls
    <3>3. CASE c[1] = x[1]
      <4>1. Stage(x) = "tls"
        BY <3>2, StageTable DEF Stage
      <4>2. Stage(c) = "tls"
        BY <3>1, <3>3, <4>1 DEF InStep
      <4>3. pc[c] \notin {"hw_cls", "hw_pre"}
        BY <4>2, StageTable DEF Stage
      <4>4. pc'[c] \notin {"hw_cls", "hw_pre"}
        BY <2>0, <3>2, <4>3
      <4>5. c \in copies'[c[1]]
        BY <1>0, <3>1, <3>2, <3>3 DEF TypeOK
      <4> QED
        BY <2>0, <3>1, <3>2, <3>3, <4>2, <4>4, <4>5
        DEF TlsRight, PastTls, PastCls, PastAlloc, PastLibs
    <3>4. CASE c[1] # x[1]
      <4>1. c # x /\ DmCore(c[1]) # x /\ copies'[c[1]] = copies[c[1]]
        BY <1>0, <3>2, <3>4 DEF TypeOK
      <4> QED
        BY <1>0, <2>0, <3>2, <4>1 DEF TlsRight
    <3> QED
      BY <3>3, <3>4
  <2>2. CASE ~(StartTls(x[1]) /\ IsDm(x))
    <3>1. copies' = copies
      BY <1>2, <2>2, StepWrites
    <3>2. /\ tls[c].image => tls'[c].image
          /\ tls[c].cls_ptr => tls'[c].cls_ptr
          /\ tls[c].libs => tls'[c].libs
      <4>1. CASE SetClsPtr(x)
        BY <4>1 DEF SetClsPtr, TypeOK
      <4>2. CASE InitLibs(x)
        BY <4>2 DEF InitLibs, TypeOK
      <4>3. CASE ~(SetClsPtr(x) \/ InitLibs(x))
        BY <1>2, <4>3, StepWrites
      <4> QED
        BY <4>1, <4>2, <4>3
    <3>3. /\ pc'[x] = "hw_cls" => SetClsPtr(x)
          /\ pc'[x] = "hw_pre" => InitLibs(x)
          /\ pc'[x] = "hw_tls" /\ IsDm(x) => pc[x] = "tls_wait" /\ copies[x[1]] = {}
          /\ pc'[x] # "tls_wait" /\ pc[x] # "hw_tls"
          /\ pc[x] = "tls_wait" => pc'[x] = "hw_tls"
      <4>1. CASE CoreStep(x)
        BY <2>0, <4>1, GotoFact
        DEF CoreStep, Resume, ClearReset, PollReset, InitBss, WakeDone, WaitTls, SetClsPtr,
            WaitAlloc, InitLibs, MainReturns, CallReduction, ReductionReturns, AddToCluster,
            ReturnResult
      <4>2. CASE IsDm(x) /\ DmStep(x[1])
        <5>1. x = DmCore(x[1])
          BY <4>2, CoreFacts
        <5> QED
          BY <2>2, <4>2, <5>1, GotoFact
          DEF DmStep, TlsDone, CopyCls, InitL1Allocator, InitL3Allocator,
              ReductionStep, AddToGlobal, CopyBack
      <4>3. CASE x = Core0 /\ Core0Step
        BY <4>3, GotoFact DEF Core0Step, WakeCluster, ReadL3Next, BumpL3Next, WriteTohost
      <4> QED
        BY <1>2, <4>1, <4>2, <4>3 DEF Step
    <3>4. /\ pc'[c] = "hw_cls" => tls'[c].cls_ptr
          /\ pc'[c] = "hw_pre" => tls'[c].libs
      <4>1. CASE c # x
        BY <2>0, <3>2, <4>1 DEF TlsRight
      <4>2. CASE c = x
        <5>1. SetClsPtr(c) => tls'[c].cls_ptr
          BY DEF SetClsPtr, TypeOK
        <5>2. InitLibs(c) => tls'[c].libs
          BY DEF InitLibs, TypeOK
        <5> QED
          BY <3>3, <4>2, <5>1, <5>2
      <4> QED
        BY <4>1, <4>2
    <3>5. /\ c \in copies[c[1]] => pc'[DmCore(c[1])] = "tls_wait"
          /\ pc'[DmCore(c[1])] = "tls_wait" => c \in copies[c[1]] \/ tls'[c].image
          /\ pc'[DmCore(c[1])] = "hw_tls" => tls'[c].image
      <4>1. CASE x # DmCore(c[1])
        BY <1>0, <2>0, <3>2, <4>1 DEF TlsRight
      <4>2. CASE x = DmCore(c[1])
        <5>1. x[1] = c[1] /\ IsDm(x)
          BY <1>0, <4>2
        <5>2. pc[x] = "tls_wait" => copies[c[1]] = {}
          BY <3>3, <5>1
        <5> QED
          BY <2>0, <3>2, <3>3, <4>2, <5>1, <5>2 DEF TlsRight
      <4> QED
        BY <4>1, <4>2
    <3> QED
      BY <2>0, <3>1, <3>2, <3>4, <3>5 DEF TlsRight
  <2> QED
    BY <2>1, <2>2
<1>3. ASSUME NEW x \in Cores, CopyTls(x), NEW c \in Cores PROVE TlsRight(c)'
  <2>0. TlsRight(c) /\ Stage(c)' = Stage(c)
    BY <1>3, StageKept
  <2>1. /\ x \in copies[x[1]] /\ pc' = pc
        /\ copies' = [copies EXCEPT ![x[1]] = @ \ {x}]
        /\ tls' = [tls EXCEPT ![x] = [image |-> TRUE, cls_ptr |-> FALSE, libs |-> FALSE]]
    BY <1>3 DEF CopyTls
  <2>2. c \in copies'[c[1]] <=> c # x /\ c \in copies[c[1]]
    BY <1>0, <2>1 DEF TypeOK
  <2>3. CASE c = x
    <3>1. tls'[c].image
      BY <2>1, <2>3 DEF TypeOK
    <3>2. pc[DmCore(c[1])] = "tls_wait"
      BY <2>0, <2>1, <2>3 DEF TlsRight
    <3>3. Stage(DmCore(c[1])) = "tls"
      BY <3>2, StageTable DEF Stage
    <3>4. Stage(c) = "tls"
      BY <3>3 DEF InStep
    <3>5. pc[c] \notin {"hw_cls", "hw_pre"}
      BY <3>4, StageTable DEF Stage
    <3> QED
      BY <2>0, <2>1, <2>2, <2>3, <3>1, <3>2, <3>4, <3>5
      DEF TlsRight, PastTls, PastCls, PastAlloc, PastLibs
  <2>4. CASE c # x
    <3>1. tls'[c] = tls[c]
      BY <2>1, <2>4 DEF TypeOK
    <3> QED
      BY <2>0, <2>1, <2>2, <2>4, <3>1 DEF TlsRight
  <2> QED
    BY <2>3, <2>4
<1>4. ASSUME NEW x \in Cores, ClearLands(x), NEW c \in Cores PROVE TlsRight(c)'
  <2>1. Stage(c)' = Stage(c) /\ TlsRight(c)
    BY <1>4, StageKept
  <2> QED
    BY <1>4, <2>1 DEF ClearLands, mem, TlsRight
<1>5. ASSUME MeetInReduction, NEW c \in Cores PROVE TlsRight(c)'
  <2>1. /\ UNCHANGED <<tls, copies>>
        /\ \A d \in Cores : pc'[d] = pc[d] \/ (pc[d] = "icb" /\ pc'[d] = "copy")
    BY <1>5 DEF MeetInReduction, InterClusterBarrier, mem
  <2>2. Stage(c)' = Stage(c) /\ TlsRight(c)
    BY <1>5, StageKept
  <2> QED
    BY <1>0, <2>1, <2>2 DEF TlsRight
<1>6. CASE UNCHANGED vars
  BY <1>6, StageKept DEF vars, mem, TlsRight
<1> QED
  BY <1>1, <1>2, <1>3, <1>4, <1>5, <1>6, NextSplit
--------------------------------------------------------------------------------
(* In the reduction the words are cleared. *)
LEMMA WordsCleared ==
    ASSUME TypeOK, \A c \in Cores : InStep(c), BssRight, bss => global \in Word,
           \A k \in Clusters : ClsRight(k),
           NEW c \in Cores, Stage(c) \in PastCls
    PROVE  reduction[c[1]] \in Word /\ (IsDm(c) => bss /\ global \in Word)
<1>1. c[1] \in Clusters /\ DmCore(c[1]) \in Cores
  BY CoreFacts
<1>2. Stage(DmCore(c[1])) \in PastCls
  BY DEF InStep
<1>3. reduction[c[1]] \in Word
  BY <1>1, <1>2 DEF ClsRight
<1>4. pc[c] \notin {"park", "clear0", "poll0", "bss"}
  <2>1. Stage(c) \notin {"bss", "wake"}
    BY DEF PastCls, PastAlloc, PastLibs
  <2> QED
    BY <2>1, StageTable DEF Stage
<1>5. IsDm(c) => bss
  BY <1>4, CoreFacts DEF BssRight
<1> QED
  BY <1>3, <1>5

LEMMA GlobalStep ==
    ASSUME TypeOK, \A c \in Cores : CoreRight(c) /\ InStep(c), BssRight, bss => global \in Word,
           \A k \in Clusters : ClsRight(k), [Next]_vars
    PROVE  (bss => global \in Word)'
<1>1. ASSUME NEW c \in Cores, Step(c) PROVE (bss => global \in Word)'
  <2>1. CASE InitBss(c)
    BY <2>1, WordType DEF InitBss
  <2>2. CASE ReductionStep(c[1]) /\ IsDm(c)
    <3>1. c = DmCore(c[1])
      BY <2>2, CoreFacts
    <3>2. CASE AddToGlobal(c[1])
      <4>1. pc[c] = "global" /\ global' = Plus(global, reduction[c[1]])
        BY <3>1, <3>2, GotoFact DEF AddToGlobal
      <4>2. Stage(c) \in PastCls
        BY <4>1, StageTable DEF Stage, PastCls, PastAlloc, PastLibs
      <4>3. global \in Word /\ reduction[c[1]] \in Word
        BY <2>2, <4>2, WordsCleared
      <4> QED
        BY <4>1, <4>3, WordType
    <3>3. CASE CopyBack(c[1])
      BY <2>2, <3>3 DEF CopyBack, ReductionStep, mem
    <3> QED
      BY <2>2, <3>2, <3>3 DEF ReductionStep
  <2>3. CASE ~InitBss(c) /\ ~(ReductionStep(c[1]) /\ IsDm(c))
    <3>1. bss' = bss /\ global' = global
      <4>1. CASE CoreStep(c)
        BY <2>3, <4>1
        DEF CoreStep, Resume, ClearReset, PollReset, WakeDone, WaitTls, SetClsPtr, WaitAlloc,
            InitLibs, MainReturns, CallReduction, ReductionReturns, AddToCluster,
            ReturnResult, mem, run, sums
      <4>2. CASE IsDm(c) /\ DmStep(c[1])
        BY <2>3, <4>2
        DEF DmStep, StartTls, TlsDone, CopyCls, InitL1Allocator, InitL3Allocator, mem, run, sums
      <4>3. CASE c = Core0 /\ Core0Step
        BY <4>3 DEF Core0Step, WakeCluster, ReadL3Next, BumpL3Next, WriteTohost, mem, run, sums
      <4> QED
        BY <1>1, <4>1, <4>2, <4>3 DEF Step
    <3> QED
      BY <3>1
  <2> QED
    BY <2>1, <2>2, <2>3
<1>2. ASSUME ~\E c \in Cores : Step(c) PROVE bss' = bss /\ global' = global
  BY <1>2, NextSplit
  DEF ClearLands, CopyTls, HwRelease, MeetInReduction, InterClusterBarrier, vars, mem, run, sums
<1> QED
  BY <1>1, <1>2

(* The CLS of each cluster. *)
LEMMA ClsStep ==
    ASSUME TypeOK, \A c \in Cores : CoreRight(c) /\ InStep(c), BssRight, bss => global \in Word,
           \A k \in Clusters : ClsRight(k), [Next]_vars
    PROVE  \A k \in Clusters : ClsRight(k)'
<1> SUFFICES ASSUME NEW k \in Clusters PROVE ClsRight(k)'
  OBVIOUS
<1> DEFINE d == DmCore(k)
<1>0. d \in Cores /\ d[1] = k /\ d \in CoresOf(k) /\ IsDm(d) /\ ClsRight(k)
  BY CoreFacts
<1>1. ASSUME NEW j \in Clusters, HwRelease(j) PROVE ClsRight(k)'
  <2>1. UNCHANGED <<cls, reduction>>
    BY <1>1, Release DEF mem, run, sums
  <2>2. CASE j # k
    <3>1. d \notin CoresOf(j)
      BY <1>0, <2>2, CoreFacts
    <3>2. pc'[d] = pc[d] /\ Stage(d)' = Stage(d)
      BY <1>0, <1>1, <3>1, Release
    <3> QED
      BY <1>0, <2>1, <3>2 DEF ClsRight
  <2>3. CASE j = k
    <3>1. pc[d] \in InBarrier
      BY <1>0, <1>1, <2>3, Release
    <3>2. pc'[d] \notin {"cls_ptr", "hw_cls", "alloc_l3", "hw_alloc"}
      BY <1>0, <1>1, <2>3, <3>1, Release DEF InBarrier
    <3>3. Stage(d)' \in PastCls => pc[d] = "hw_cls" \/ Stage(d) \in PastCls
      <4>1. Stage(d)' \in PastCls => pc[d] \in {"hw_cls", "hw_alloc", "hw_pre",
                                                "hw_post", "hw_sum", "hw_copy"}
        BY <1>0, <1>1, <2>3, <3>1, Release DEF InBarrier, PastCls, PastAlloc, PastLibs
      <4>2. pc[d] \in {"hw_alloc", "hw_pre", "hw_post", "hw_sum", "hw_copy"} =>
                Stage(d) \in {"alloc", "libs", "main", "exit", "sum"}
        BY StageTable DEF Stage
      <4> QED
        BY <4>1, <4>2 DEF PastCls, PastAlloc, PastLibs
    <3>4. Stage(d)' \in PastAlloc => pc[d] = "hw_alloc" \/ Stage(d) \in PastAlloc
      <4>1. Stage(d)' \in PastAlloc => pc[d] \in {"hw_alloc", "hw_pre",
                                                  "hw_post", "hw_sum", "hw_copy"}
        BY <1>0, <1>1, <2>3, <3>1, Release DEF InBarrier, PastAlloc, PastLibs
      <4>2. pc[d] \in {"hw_pre", "hw_post", "hw_sum", "hw_copy"} =>
                Stage(d) \in {"libs", "main", "exit", "sum"}
        BY StageTable DEF Stage
      <4> QED
        BY <4>1, <4>2 DEF PastAlloc, PastLibs
    <3> QED
      BY <1>0, <2>1, <3>2, <3>3, <3>4 DEF ClsRight
  <2> QED
    BY <2>2, <2>3
<1>2. ASSUME NEW x \in Cores, Step(x) PROVE ClsRight(k)'
  <2>0. /\ Stage(d)' = Stage(d)
        /\ \A c \in Cores \ {x} : pc'[c] = pc[c]
    BY <1>0, <1>2, StepFrame, StageKept
  <2>1. CASE x # d
    <3>1. pc'[d] = pc[d]
      BY <1>0, <2>0, <2>1
    <3>2. cls'[k] = cls[k]
      <4>1. CASE IsDm(x)
        <5>1. x[1] # k /\ x[1] \in Clusters
          BY <2>1, <4>1, CoreFacts
        <5> QED
          BY <1>2, <5>1, StepWrites DEF CopyCls, InitL1Allocator, TypeOK
      <4>2. CASE ~IsDm(x)
        BY <1>2, <4>2, StepWrites
      <4> QED
        BY <4>1, <4>2
    <3>3. reduction[k] \in Word => reduction'[k] \in Word
      <4>1. CASE CallReduction(x)
        <5>1. reduction' = [reduction EXCEPT ![x[1]] = Plus(@, Value(x))] /\ Value(x) \in Word
          BY <4>1, WordType DEF CallReduction, AddToCluster
        <5>2. reduction'[k] = reduction[k] \/ reduction'[k] = Plus(reduction[k], Value(x))
          BY <5>1 DEF TypeOK
        <5> QED
          BY <5>1, <5>2, WordType
      <4>2. CASE ~CallReduction(x)
        <5>1. CASE IsDm(x) /\ DmStep(x[1])
          <6>1. x[1] # k /\ x[1] \in Clusters
            BY <2>1, <5>1, CoreFacts
          <6> QED
            BY <5>1, <6>1
            DEF DmStep, StartTls, TlsDone, CopyCls, InitL1Allocator, InitL3Allocator,
                ReductionStep, AddToGlobal, CopyBack, run, sums, TypeOK
        <5>2. CASE CoreStep(x)
          BY <4>2, <5>2
          DEF CoreStep, Resume, ClearReset, PollReset, InitBss, WakeDone, WaitTls, SetClsPtr,
              WaitAlloc, InitLibs, MainReturns, ReductionReturns, ReturnResult, run, sums
        <5>3. CASE x = Core0 /\ Core0Step
          BY <5>3 DEF Core0Step, WakeCluster, ReadL3Next, BumpL3Next, WriteTohost, run, sums
        <5> QED
          BY <1>2, <5>1, <5>2, <5>3 DEF Step
      <4> QED
        BY <4>1, <4>2
    <3> QED
      BY <1>0, <2>0, <3>1, <3>2, <3>3 DEF ClsRight
  <2>2. CASE x = d
    <3>1. x[1] = k /\ x = DmCore(k) /\ x # Core0
      BY <1>0, <2>2, CoreFacts
    <3>2. CASE CopyCls(k)
      <4>1. /\ pc[d] = "cls" /\ pc'[d] = "cls_ptr"
            /\ cls' = [cls EXCEPT ![k] = [image |-> TRUE, l1_allocator |-> FALSE]]
            /\ reduction' = [reduction EXCEPT ![k] = Zero]
        BY <1>0, <3>2, GotoFact DEF CopyCls
      <4>2. cls'[k].image /\ reduction'[k] = Zero
        BY <4>1 DEF TypeOK
      <4>3. Stage(d) = "cls"
        BY <4>1, StageTable DEF Stage
      <4> QED
        BY <2>0, <4>1, <4>2, <4>3, WordType DEF ClsRight, PastCls, PastAlloc, PastLibs
    <3>3. CASE InitL1Allocator(k)
      <4>1. /\ pc[d] = "alloc" /\ pc'[d] = "alloc_l3" /\ reduction' = reduction
            /\ cls' = [cls EXCEPT ![k].l1_allocator = TRUE]
        BY <1>0, <3>3, GotoFact DEF InitL1Allocator, run, sums
      <4>2. cls'[k].l1_allocator /\ cls'[k].image = cls[k].image
        BY <4>1 DEF TypeOK
      <4>3. Stage(d) = "alloc"
        BY <4>1, StageTable DEF Stage
      <4> QED
        BY <1>0, <2>0, <4>1, <4>2, <4>3 DEF ClsRight, PastCls, PastAlloc, PastLibs
    <3>4. CASE ~(CopyCls(k) \/ InitL1Allocator(k))
      <4>1. cls' = cls
        BY <1>2, <3>1, <3>4, StepWrites
      <4>2. /\ pc'[d] \in {"cls_ptr", "hw_cls"} => pc[d] \in {"cls_ptr", "hw_cls"}
            /\ pc'[d] \in {"alloc_l3", "hw_alloc"} => pc[d] \in {"alloc_l3", "hw_alloc"}
        <5>1. CASE CoreStep(x)
          BY <1>0, <2>2, <5>1, GotoFact
          DEF CoreStep, Resume, ClearReset, PollReset, InitBss, WakeDone, WaitTls, SetClsPtr,
              WaitAlloc, InitLibs, MainReturns, CallReduction, ReductionReturns, AddToCluster,
              ReturnResult
        <5>2. CASE DmStep(k)
          BY <1>0, <3>4, <5>2, GotoFact
          DEF DmStep, StartTls, TlsDone, InitL3Allocator, ReductionStep, AddToGlobal, CopyBack
        <5> QED
          BY <1>2, <3>1, <5>1, <5>2 DEF Step
      <4>3. cls[k].image => reduction'[k] \in Word
        <5>1. CASE CallReduction(x)
          <6>1. reduction' = [reduction EXCEPT ![k] = Plus(@, Value(x))] /\ Value(x) \in Word
            BY <3>1, <5>1, WordType DEF CallReduction, AddToCluster
          <6>2. reduction'[k] = Plus(reduction[k], Value(x))
            BY <6>1 DEF TypeOK
          <6> QED
            BY <1>0, <6>1, <6>2, WordType DEF ClsRight
        <5>2. CASE CopyBack(k)
          <6>1. pc[d] = "copy" /\ reduction' = [reduction EXCEPT ![k] = global]
            BY <1>0, <5>2, GotoFact DEF CopyBack
          <6>2. Stage(d) \in PastCls
            BY <6>1, StageTable DEF Stage, PastCls, PastAlloc, PastLibs
          <6>3. global \in Word
            BY <1>0, <6>2, WordsCleared
          <6> QED
            BY <6>1, <6>3 DEF TypeOK
        <5>3. CASE ~CallReduction(x) /\ ~CopyBack(k)
          <6>1. reduction' = reduction
            <7>1. CASE CoreStep(x)
              BY <5>3, <7>1
              DEF CoreStep, Resume, ClearReset, PollReset, InitBss, WakeDone, WaitTls,
                  SetClsPtr, WaitAlloc, InitLibs, MainReturns, ReductionReturns, ReturnResult,
                  run, sums
            <7>2. CASE DmStep(k)
              BY <3>4, <5>3, <7>2
              DEF DmStep, StartTls, TlsDone, InitL3Allocator, ReductionStep, AddToGlobal,
                  run, sums
            <7> QED
              BY <1>2, <3>1, <7>1, <7>2 DEF Step
          <6> QED
            BY <1>0, <6>1 DEF ClsRight
        <5> QED
          BY <5>1, <5>2, <5>3
      <4> QED
        BY <1>0, <2>0, <4>1, <4>2, <4>3 DEF ClsRight
    <3> QED
      BY <3>2, <3>3, <3>4
  <2> QED
    BY <2>1, <2>2
<1>3. ASSUME NEW x \in Cores, ClearLands(x) \/ CopyTls(x) PROVE ClsRight(k)'
  <2>1. Stage(d)' = Stage(d)
    BY <1>0, <1>3, StageKept
  <2>2. UNCHANGED <<pc, cls, reduction>>
    BY <1>3 DEF ClearLands, CopyTls, mem, run, sums
  <2> QED
    BY <1>0, <2>1, <2>2 DEF ClsRight
<1>4. CASE MeetInReduction
  <2>1. /\ UNCHANGED <<cls, reduction>>
        /\ pc'[d] = pc[d] \/ (pc[d] = "icb" /\ pc'[d] = "copy")
    BY <1>0, <1>4 DEF MeetInReduction, InterClusterBarrier, mem, sums
  <2>2. Stage(d)' = Stage(d)
    BY <1>0, <1>4, StageKept
  <2> QED
    BY <1>0, <2>1, <2>2 DEF ClsRight
<1>5. CASE UNCHANGED vars
  <2>1. Stage(d)' = Stage(d)
    BY <1>0, <1>5, StageKept
  <2> QED
    BY <1>0, <1>5, <2>1 DEF vars, mem, run, sums, ClsRight
<1> QED
  BY <1>1, <1>2, <1>3, <1>4, <1>5, NextSplit
--------------------------------------------------------------------------------
(* Types. *)
LEMMA GotoType ==
    ASSUME TypeOK, NEW c \in Cores, NEW from, NEW to \in PCs, Goto(c, from, to)
    PROVE  pc' \in [Cores -> PCs]
BY DEF TypeOK, Goto

LEMMA PcType ==
    ASSUME TypeOK, \A c \in Cores : CoreRight(c) /\ InStep(c), [Next]_vars
    PROVE  pc' \in [Cores -> PCs]
<1>0. pc \in [Cores -> PCs]
  BY DEF TypeOK
<1>1. ASSUME NEW c \in Cores, Step(c) PROVE pc' \in [Cores -> PCs]
  <2>1. CASE CoreStep(c)
    <3>1. \E from : \E to \in {"clear0", "wake", "poll0", "poll", "bss", "tls", "hw_bss", "hw_wake",
                              "hw_tls", "hw_cls", "hw_alloc", "hw_pre", "hw_post", "hw_sum",
                              "main", "tohost", "end"} : Goto(c, from, to)
      BY <2>1
      DEF CoreStep, Resume, ClearReset, PollReset, InitBss, WakeDone, WaitTls, SetClsPtr,
          WaitAlloc, InitLibs, MainReturns, CallReduction, ReductionReturns, AddToCluster,
          ReturnResult
    <3>2. \E from : \E to \in PCs : Goto(c, from, to)
      BY <3>1 DEF PCs, InBarrier, InMain
    <3> QED
      BY <3>2, GotoType
  <2>2. CASE IsDm(c) /\ DmStep(c[1])
    <3>1. c = DmCore(c[1])
      BY <2>2, CoreFacts
    <3>2. \E from : \E to \in {"tls_wait", "hw_tls", "cls_ptr", "alloc_l3", "hw_alloc", "icb",
                              "hw_copy"} : Goto(c, from, to)
      BY <2>2, <3>1
      DEF DmStep, StartTls, TlsDone, CopyCls, InitL1Allocator, InitL3Allocator, ReductionStep,
          AddToGlobal, CopyBack
    <3>3. \E from : \E to \in PCs : Goto(c, from, to)
      BY <3>2 DEF PCs, InBarrier, InMain
    <3> QED
      BY <3>3, GotoType
  <2>3. CASE c = Core0 /\ Core0Step
    <3>1. \E from : \E to \in {"wake", "l3_next", "main", "end"} : Goto(c, from, to)
      BY <2>3 DEF Core0Step, WakeCluster, ReadL3Next, BumpL3Next, WriteTohost
    <3>2. \E from : \E to \in PCs : Goto(c, from, to)
      BY <3>1 DEF PCs, InMain
    <3> QED
      BY <3>2, GotoType
  <2> QED
    BY <1>1, <2>1, <2>2, <2>3 DEF Step
<1>2. ASSUME NEW k \in Clusters, HwRelease(k) PROVE pc' \in [Cores -> PCs]
  <2>1. \A c \in CoresOf(k) : pc[c] \in InBarrier
    BY <1>2 DEF HwRelease
  <2>2. \A c \in CoresOf(k) :
           AfterBarrier(c) \in {"wake", "clear", "cls", "alloc", "libs", "main", "exit", "return",
                               "global", "hw_copy"}
    BY <2>1, ReleaseTable DEF InBarrier
  <2>3. \A c \in CoresOf(k) : AfterBarrier(c) \in PCs
    BY <2>2 DEF PCs, InBarrier, InMain
  <2>4. pc' = [c \in Cores |-> IF c \in CoresOf(k) THEN AfterBarrier(c) ELSE pc[c]]
    BY <1>2 DEF HwRelease
  <2> QED
    BY <1>0, <2>3, <2>4
<1>3. CASE MeetInReduction
  <2>1. "copy" \in PCs
    BY DEF PCs, InMain
  <2> QED
    BY <1>0, <1>3, <2>1 DEF MeetInReduction, InterClusterBarrier
<1>4. ASSUME NEW c \in Cores, ClearLands(c) \/ CopyTls(c) PROVE pc' \in [Cores -> PCs]
  BY <1>0, <1>4 DEF ClearLands, CopyTls
<1>5. CASE UNCHANGED vars
  BY <1>0, <1>5 DEF vars
<1> QED
  BY <1>1, <1>2, <1>3, <1>4, <1>5, NextSplit

LEMMA MemoryType ==
    ASSUME TypeOK, [Next]_vars
    PROVE  /\ mcip' \in [Cores -> BOOLEAN] /\ clearing' \in [Cores -> BOOLEAN]
           /\ bss' \in BOOLEAN
           /\ waking' \in 0..NumClusters
           /\ copies' \in [Clusters -> SUBSET Cores]
           /\ tls' \in [Cores -> [image : BOOLEAN, cls_ptr : BOOLEAN, libs : BOOLEAN]]
           /\ cls' \in [Clusters -> [image : BOOLEAN, l1_allocator : BOOLEAN]]
<1>0. /\ mcip \in [Cores -> BOOLEAN] /\ clearing \in [Cores -> BOOLEAN]
      /\ bss \in BOOLEAN
      /\ waking \in 0..NumClusters
      /\ copies \in [Clusters -> SUBSET Cores]
      /\ tls \in [Cores -> [image : BOOLEAN, cls_ptr : BOOLEAN, libs : BOOLEAN]]
      /\ cls \in [Clusters -> [image : BOOLEAN, l1_allocator : BOOLEAN]]
  BY DEF TypeOK
<1>1. /\ mcip' \in [Cores -> BOOLEAN] /\ clearing' \in [Cores -> BOOLEAN]
      /\ waking' \in 0..NumClusters
  <2>1. ASSUME NEW c \in Cores, Step(c) PROVE mcip' \in [Cores -> BOOLEAN] /\ waking' \in 0..NumClusters
    <3>1. CASE WakeCluster
      <4>1. mcip' \in [Cores -> BOOLEAN]
        BY <3>1, Zenon DEF WakeCluster
      <4>2. waking' \in 0..NumClusters
        BY <1>0, <3>1, Numbers DEF WakeCluster
      <4> QED
        BY <4>1, <4>2
    <3> QED
      BY <1>0, <2>1, <3>1, StepWrites
  <2>2. ASSUME NEW c \in Cores, Step(c) PROVE clearing' \in [Cores -> BOOLEAN]
    BY <1>0, <2>2, StepWrites DEF ClearReset
  <2>3. ASSUME NEW c \in Cores, ClearLands(c)
        PROVE  mcip' \in [Cores -> BOOLEAN] /\ clearing' \in [Cores -> BOOLEAN]
    BY <1>0, <2>3 DEF ClearLands
  <2> QED
    BY <1>0, <2>1, <2>2, <2>3, NextSplit
    DEF ClearLands, CopyTls, HwRelease, MeetInReduction, irqs, vars
<1>2. bss' \in BOOLEAN
  <2>1. ASSUME NEW c \in Cores, Step(c) PROVE bss' \in BOOLEAN
    <3>1. InitBss(c) => bss' \in BOOLEAN
      BY Zenon DEF InitBss
    <3> QED
      BY <1>0, <2>1, <3>1, StepWrites
  <2> QED
    BY <1>0, <2>1, NextSplit DEF ClearLands, CopyTls, HwRelease, MeetInReduction, mem, vars
<1>3. copies' \in [Clusters -> SUBSET Cores]
  <2>1. ASSUME NEW c \in Cores, Step(c) PROVE copies' \in [Clusters -> SUBSET Cores]
    <3>1. CASE StartTls(c[1])
      <4>1. CoresOf(c[1]) \in SUBSET Cores
        BY CoreFacts
      <4> QED
        BY <1>0, <3>1, <4>1 DEF StartTls
    <3> QED
      BY <1>0, <2>1, <3>1, StepWrites
  <2>2. ASSUME NEW c \in Cores, CopyTls(c) PROVE copies' \in [Clusters -> SUBSET Cores]
    BY <1>0, <2>2 DEF CopyTls
  <2> QED
    BY <1>0, <2>1, <2>2, NextSplit DEF ClearLands, HwRelease, MeetInReduction, mem, vars
<1>4. tls' \in [Cores -> [image : BOOLEAN, cls_ptr : BOOLEAN, libs : BOOLEAN]]
  <2>1. ASSUME NEW c \in Cores, Step(c)
        PROVE  tls' \in [Cores -> [image : BOOLEAN, cls_ptr : BOOLEAN, libs : BOOLEAN]]
    <3>1. tls[c] \in [image : BOOLEAN, cls_ptr : BOOLEAN, libs : BOOLEAN]
      BY <1>0
    <3>2. SetClsPtr(c) => tls' = [tls EXCEPT ![c] = [tls[c] EXCEPT !.cls_ptr = TRUE]]
      BY DEF SetClsPtr
    <3>3. InitLibs(c) => tls' = [tls EXCEPT ![c] = [tls[c] EXCEPT !.libs = TRUE]]
      BY DEF InitLibs
    <3>4. \/ tls' = tls
          \/ \E r \in [image : BOOLEAN, cls_ptr : BOOLEAN, libs : BOOLEAN] :
                 tls' = [tls EXCEPT ![c] = r]
      BY <2>1, <3>1, <3>2, <3>3, StepWrites
    <3> QED
      BY <1>0, <3>4
  <2>2. ASSUME NEW c \in Cores, CopyTls(c)
        PROVE  tls' \in [Cores -> [image : BOOLEAN, cls_ptr : BOOLEAN, libs : BOOLEAN]]
    BY <1>0, <2>2 DEF CopyTls
  <2> QED
    BY <1>0, <2>1, <2>2, NextSplit DEF ClearLands, HwRelease, MeetInReduction, mem, vars
<1>5. cls' \in [Clusters -> [image : BOOLEAN, l1_allocator : BOOLEAN]]
  <2>1. ASSUME NEW c \in Cores, Step(c)
        PROVE  cls' \in [Clusters -> [image : BOOLEAN, l1_allocator : BOOLEAN]]
    <3>1. c[1] \in Clusters /\ cls[c[1]] \in [image : BOOLEAN, l1_allocator : BOOLEAN]
      BY <1>0, CoreFacts
    <3>2. CopyCls(c[1]) => cls' = [cls EXCEPT ![c[1]] = [image |-> TRUE, l1_allocator |-> FALSE]]
      BY DEF CopyCls
    <3>3. InitL1Allocator(c[1]) =>
              cls' = [cls EXCEPT ![c[1]] = [cls[c[1]] EXCEPT !.l1_allocator = TRUE]]
      BY DEF InitL1Allocator
    <3>4. \/ cls' = cls
          \/ \E r \in [image : BOOLEAN, l1_allocator : BOOLEAN] :
                 cls' = [cls EXCEPT ![c[1]] = r]
      BY <2>1, <3>1, <3>2, <3>3, StepWrites
    <3> QED
      BY <1>0, <3>1, <3>4
  <2> QED
    BY <1>0, <2>1, NextSplit DEF ClearLands, CopyTls, HwRelease, MeetInReduction, mem, vars
<1> QED
  BY <1>1, <1>2, <1>3, <1>4, <1>5

LEMMA SumsType ==
    ASSUME TypeOK, \A c \in Cores : CoreRight(c) /\ InStep(c), BssRight, bss => global \in Word,
           \A k \in Clusters : ClsRight(k), [Next]_vars
    PROVE  DOMAIN reduction' = Clusters /\ returned' \in [Cores -> Seq(Word)]
<1>0. DOMAIN reduction = Clusters /\ returned \in [Cores -> Seq(Word)]
  BY DEF TypeOK
<1>1. ASSUME NEW c \in Cores, Step(c)
      PROVE  DOMAIN reduction' = Clusters /\ returned' \in [Cores -> Seq(Word)]
  <2>1. DOMAIN reduction' = Clusters
    BY <1>0, <1>1, StepWrites
    DEF CopyCls, CallReduction, AddToCluster, ReductionStep, AddToGlobal, CopyBack
  <2>2. CASE ReductionReturns(c)
    <3>1. pc[c] = "return" /\ returned' = [returned EXCEPT ![c] = Append(@, reduction[c[1]])]
      BY <2>2 DEF ReductionReturns, ReturnResult, Goto
    <3>2. Stage(c) \in PastCls
      BY <3>1, StageTable DEF Stage, PastCls, PastAlloc, PastLibs
    <3>3. reduction[c[1]] \in Word
      BY <3>2, WordsCleared
    <3> QED
      BY <1>0, <2>1, <3>1, <3>3
  <2>3. CASE ~ReductionReturns(c)
    BY <1>0, <1>1, <2>1, <2>3, StepFrame
  <2> QED
    BY <2>2, <2>3
<1> QED
  BY <1>0, <1>1, NextSplit
  DEF ClearLands, CopyTls, HwRelease, MeetInReduction, InterClusterBarrier, vars, run, sums

LEMMA TypeStep ==
    ASSUME TypeOK, \A c \in Cores : CoreRight(c) /\ InStep(c), BssRight, bss => global \in Word,
           \A k \in Clusters : ClsRight(k), [Next]_vars
    PROVE  TypeOK'
BY PcType, MemoryType, SumsType DEF TypeOK
--------------------------------------------------------------------------------
(* The start-up is always as IInv describes it, for every number of clusters,
   of cores, of chunks allocated and of reductions in main. *)
THEOREM StartupInvariant == Spec => []IInv
<1>1. Init => IInv
  <2> SUFFICES ASSUME Init PROVE IInv
    OBVIOUS
  <2>1. \A c \in Cores : /\ pc[c] = "park" /\ returned[c] = <<>> /\ ~clearing[c]
                         /\ mcip[c] <=> c[1] = 0
    BY Zenon DEF Init
  <2>2. waking = 0 /\ ~bss /\ \A k \in Clusters : copies[k] = {} /\ ~cls[k].image
    BY DEF Init
  <2>3. \A c \in Cores : Len(returned[c]) = 0
    BY <2>1
  <2>4. \A c \in Cores : Stage(c) = IF c[1] = 0 THEN "bss" ELSE "wake"
    BY <2>1, StageTable DEF Stage
  <2>5. TypeOK
    <3>1. pc \in [Cores -> PCs] /\ returned \in [Cores -> Seq(Word)]
      BY DEF Init, PCs
    <3>2. mcip \in [Cores -> BOOLEAN] /\ clearing \in [Cores -> BOOLEAN] /\ bss \in BOOLEAN
      BY Zenon DEF Init
    <3>3. waking \in 0..NumClusters /\ copies \in [Clusters -> SUBSET Cores]
          /\ DOMAIN reduction = Clusters
      BY Numbers DEF Init
    <3>4. /\ tls \in [Cores -> [image : BOOLEAN, cls_ptr : BOOLEAN, libs : BOOLEAN]]
          /\ cls \in [Clusters -> [image : BOOLEAN, l1_allocator : BOOLEAN]]
      BY DEF Init
    <3> QED
      BY <3>1, <3>2, <3>3, <3>4 DEF TypeOK
  <2>6. \A c \in Cores : CoreRight(c)
    BY <2>1, <2>3, Numbers DEF CoreRight
  <2>7. \A c \in Cores : InStep(c)
    <3> SUFFICES ASSUME NEW c \in Cores PROVE InStep(c)
      OBVIOUS
    <3> DEFINE d == DmCore(c[1])
    <3>1. d \in Cores /\ d[1] = c[1]
      BY CoreFacts
    <3>2. Stage(c) = Stage(d)
      BY <2>4, <3>1
    <3>3. pc[c] = "park" /\ pc[d] = "park" /\ Len(returned[c]) = 0 /\ Len(returned[d]) = 0
      BY <2>1, <2>3, <3>1
    <3>4. Round(c) = Round(d)
      BY <3>3 DEF Round
    <3> QED
      BY <3>2, <3>4 DEF InStep
  <2>8. BssRight
    BY <2>1, <2>2, CoreFacts DEF BssRight
  <2>9. \A c \in Cores : ResetRight(c)
    BY <2>1, <2>2, CoreFacts DEF ResetRight
  <2>10. \A c \in Cores : TlsRight(c)
    BY <2>1, <2>2, <2>4, CoreFacts DEF TlsRight, PastTls, PastCls, PastAlloc, PastLibs
  <2>11. \A k \in Clusters : ClsRight(k)
    <3> SUFFICES ASSUME NEW k \in Clusters PROVE ClsRight(k)
      OBVIOUS
    <3>1. pc[DmCore(k)] = "park" /\ Stage(DmCore(k)) \in {"bss", "wake"}
      BY <2>1, <2>4, CoreFacts
    <3> QED
      BY <2>2, <3>1 DEF ClsRight, PastCls, PastAlloc, PastLibs
  <2> QED
    BY <2>2, <2>5, <2>6, <2>7, <2>8, <2>9, <2>10, <2>11 DEF IInv
<1>2. IInv /\ [Next]_vars => IInv'
  <2> SUFFICES ASSUME IInv, [Next]_vars PROVE IInv'
    OBVIOUS
  <2>0. /\ TypeOK /\ \A c \in Cores : CoreRight(c) /\ InStep(c)
        /\ BssRight /\ (bss => global \in Word)
        /\ \A c \in Cores : ResetRight(c) /\ TlsRight(c)
        /\ \A k \in Clusters : ClsRight(k)
    BY DEF IInv
  <2>1. TypeOK'
    BY <2>0, TypeStep
  <2>2. \A c \in Cores : CoreRight(c)'
    BY <2>0, CoreRightStep
  <2>3. \A c \in Cores : InStep(c)'
    BY <2>0, InStepStep
  <2>4. BssRight'
    BY <2>0, BssStep
  <2>5. (bss => global \in Word)'
    BY <2>0, GlobalStep
  <2>6. \A c \in Cores : ResetRight(c)'
    BY <2>0, ResetStep
  <2>7. \A c \in Cores : TlsRight(c)'
    BY <2>0, TlsStep
  <2>8. \A k \in Clusters : ClsRight(k)'
    BY <2>0, ClsStep
  <2> QED
    BY <2>1, <2>2, <2>3, <2>4, <2>5, <2>6, <2>7, <2>8 DEF IInv
<1> QED
  BY <1>1, <1>2, PTL DEF Spec

(* Cores of a cluster that stall in the hardware barrier stall in the same call
   of snrt_cluster_hw_barrier, although cluster 0 executes one call more and the
   barrier cannot tell calls apart. *)
THEOREM StartupBarriersMatch == Spec => []HwBarriersMatch
<1>1. IInv => HwBarriersMatch
  BY BarriersMatch DEF IInv
<1> QED
  BY <1>1, StartupInvariant, PTL

(* No core of another cluster leaves the bootrom before .bss is cleared. *)
THEOREM OthersWokenAfterBss == Spec => []WokenAfterBss
<1>1. IInv => WokenAfterBss
  BY DEF IInv, BssRight, WokenAfterBss
<1> QED
  BY <1>1, StartupInvariant, PTL

LEMMA MainIsPastLibs ==
    ASSUME NEW c \in Cores, pc[c] \in InMain
    PROVE  Stage(c) \in PastLibs
BY StageTable DEF InMain, Stage, PastLibs

LEMMA InMainReady == IInv => InitialisedBeforeMain
<1> SUFFICES ASSUME IInv, NEW c \in Cores, pc[c] \in InMain
             PROVE  /\ bss
                    /\ tls[c] = [image |-> TRUE, cls_ptr |-> TRUE, libs |-> TRUE]
                    /\ cls[c[1]] = [image |-> TRUE, l1_allocator |-> TRUE]
  BY DEF InitialisedBeforeMain
<1>0. TypeOK /\ InStep(c) /\ BssRight /\ TlsRight(c) /\ ClsRight(c[1]) /\ c[1] \in Clusters
  BY CoreFacts DEF IInv
<1>1. Stage(c) \in PastLibs
  BY MainIsPastLibs
<1>2. Stage(DmCore(c[1])) \in PastLibs
  BY <1>0, <1>1 DEF InStep
<1>3. bss
  <2>1. CASE c[1] # 0
    <3>1. pc[c] # "park"
      BY DEF InMain
    <3> QED
      BY <1>0, <2>1, <3>1 DEF BssRight
  <2>2. CASE c[1] = 0
    <3>1. Stage(DmCore(0)) \in PastLibs /\ DmCore(0) \in Cores /\ DmCore(0)[1] = 0
      BY <1>2, <2>2, CoreFacts
    <3>2. pc[DmCore(0)] \notin {"park", "clear0", "poll0", "bss"}
      BY <3>1, StageTable DEF Stage, PastLibs
    <3> QED
      BY <1>0, <3>2 DEF BssRight
  <2> QED
    BY <2>1, <2>2
<1>4. tls[c].image /\ tls[c].cls_ptr /\ tls[c].libs
  BY <1>0, <1>1 DEF TlsRight, PastTls, PastCls, PastAlloc, PastLibs
<1>5. tls[c] \in [image : BOOLEAN, cls_ptr : BOOLEAN, libs : BOOLEAN]
  BY <1>0 DEF TypeOK
<1>6. cls[c[1]].image /\ cls[c[1]].l1_allocator
  BY <1>0, <1>2 DEF ClsRight, PastCls, PastAlloc, PastLibs
<1>7. cls[c[1]] \in [image : BOOLEAN, l1_allocator : BOOLEAN]
  BY <1>0 DEF TypeOK
<1> QED
  BY <1>3, <1>4, <1>5, <1>6, <1>7

(* A core in main finds .bss cleared, its TLS and the CLS of its cluster
   initialised: the hardware barriers of snrt_main order the DM core's writes
   before every use of them. *)
THEOREM MemoryInitialised == Spec => []InitialisedBeforeMain
<1> QED
  BY InMainReady, StartupInvariant, PTL

(* A core in main has no reset flag pending, and a DM core no clear on its way. *)
THEOREM ResetIsGone == Spec => []NoStaleReset
<1>1. IInv => NoStaleReset
  <2> SUFFICES ASSUME IInv, NEW c \in Cores, pc[c] \in InMain
               PROVE  ~mcip[c] /\ (IsDm(c) => ~clearing[c])
    BY DEF NoStaleReset
  <2>1. ResetRight(c) /\ Stage(c) \in PastAlloc
    BY MainIsPastLibs DEF IInv, PastAlloc
  <2>2. pc[c] \notin {"park", "clear0", "poll0", "wake", "hw_wake", "clear", "poll"}
    BY DEF InMain
  <2> QED
    BY <2>1, <2>2 DEF ResetRight
<1> QED
  BY <1>1, StartupInvariant, PTL
--------------------------------------------------------------------------------
(* The reduction of the exit codes, in a program whose main calls none.  The places
   of a core that has added its value, of a DM core that has added its cluster's sum
   to the global one, that has met the others, and that has copied the total back. *)
HasAdded    == {"hw_sum", "global", "icb", "copy", "hw_copy", "return", "tohost", "end"}
InGlobal    == {"icb", "copy", "hw_copy", "return", "tohost", "end"}
PastMeeting == {"copy", "hw_copy", "return", "tohost", "end"}
CopiedBack  == {"hw_copy", "return", "tohost", "end"}
BeforeBss   == {"park", "clear0", "poll0", "bss"}

(* The values of the cores of cluster k that have added theirs, and those of the
   clusters whose sum is in the global one. *)
Part(k)   == [d \in Cores |-> IF d[1] = k /\ pc[d] \in HasAdded THEN 1 ELSE 0]
Collected == [d \in Cores |-> IF pc[DmCore(d[1])] \in InGlobal THEN 1 ELSE 0]

GlobalRight    == bss => pc[DmCore(0)] \notin BeforeBss /\ global = Collected
ReductionRight == \A k \in Clusters : cls[k].image =>
                     reduction[k] = IF pc[DmCore(k)] \in CopiedBack THEN Total ELSE Part(k)
AllMet         == \A k, m \in Clusters :
                     pc[DmCore(k)] \in PastMeeting => pc[DmCore(m)] \in InGlobal
ResultRight    == /\ ReturnsTheSum /\ ExitCodeIsTheSum
                  /\ \A c \in Cores : pc[c] = "tohost" => Len(returned[c]) > 0

SumsRight == GlobalRight /\ ReductionRight /\ AllMet /\ ResultRight

LEMMA InitSums == Init => SumsRight
<1> SUFFICES ASSUME Init PROVE SumsRight
  OBVIOUS
<1>1. GlobalRight
  BY DEF Init, GlobalRight
<1>2. ReductionRight
  BY DEF Init, ReductionRight
<1>3. AllMet
  BY CoreFacts DEF Init, AllMet, PastMeeting
<1>4. ReturnsTheSum
  BY DEF Init, ReturnsTheSum
<1>5. ExitCodeIsTheSum
  BY DEF Init, ExitCodeIsTheSum
<1>6. ResultRight
  BY <1>4, <1>5 DEF Init, ResultRight
<1> QED BY <1>1, <1>2, <1>3, <1>6 DEF SumsRight

(* A step that adds nothing and moves no core between those places. *)
LEMMA SumsFrame ==
    ASSUME SumsRight,
           UNCHANGED <<sums, tohost, bss>>, \A k \in Clusters : cls'[k].image => cls[k].image,
           \A d \in Cores : /\ pc'[d] \in HasAdded <=> pc[d] \in HasAdded
                            /\ pc'[d] = "tohost" => pc[d] = "tohost",
           \A k \in Clusters : /\ pc'[DmCore(k)] \in InGlobal <=> pc[DmCore(k)] \in InGlobal
                               /\ pc'[DmCore(k)] \in PastMeeting => pc[DmCore(k)] \in PastMeeting
                               /\ pc'[DmCore(k)] \in CopiedBack <=> pc[DmCore(k)] \in CopiedBack
                               /\ pc'[DmCore(k)] \in BeforeBss => pc[DmCore(k)] \in BeforeBss
    PROVE  SumsRight'
<1>0. global' = global /\ reduction' = reduction /\ returned' = returned /\ tohost' = tohost
  BY DEF sums
<1>1. GlobalRight'
  <2>1. Collected' = Collected
    BY CoreFacts DEF Collected
  <2> QED BY <1>0, <2>1, CoreFacts DEF SumsRight, GlobalRight
<1>2. ReductionRight'
  <2>1. \A k \in Clusters : Part(k)' = Part(k)
    BY DEF Part
  <2> QED BY <1>0, <2>1 DEF SumsRight, ReductionRight
<1>3. AllMet'
  BY DEF SumsRight, AllMet
<1>4. ReturnsTheSum' /\ ExitCodeIsTheSum'
  BY <1>0 DEF SumsRight, ResultRight, ReturnsTheSum, ExitCodeIsTheSum
<1>5. ResultRight'
  BY <1>0, <1>4 DEF SumsRight, ResultRight
<1> QED BY <1>1, <1>2, <1>3, <1>5 DEF SumsRight

(* The steps of the start-up and of main. *)
Quiet(c) ==
    \/ Resume(c) \/ ClearReset(c) \/ PollReset(c) \/ WakeDone(c) \/ WaitTls(c) \/ SetClsPtr(c)
    \/ WaitAlloc(c) \/ InitLibs(c) \/ MainReturns(c)
    \/ c = Core0 /\ (WakeCluster \/ ReadL3Next \/ BumpL3Next)

QuietDm(k) == StartTls(k) \/ TlsDone(k) \/ InitL1Allocator(k) \/ InitL3Allocator(k)

LEMMA QuietMoves ==
    ASSUME TypeOK, NEW c \in Cores, Quiet(c) \/ (IsDm(c) /\ QuietDm(c[1]))
    PROVE  /\ pc[c] \notin HasAdded /\ pc'[c] \notin HasAdded
           /\ pc'[c] \in BeforeBss => pc[c] \in BeforeBss
           /\ \A d \in Cores \ {c} : pc'[d] = pc[d]
<1>1. CASE Quiet(c)
  BY <1>1, GotoFact
  DEF Quiet, Resume, ClearReset, PollReset, WakeDone, WaitTls, SetClsPtr, WaitAlloc, InitLibs,
      MainReturns, WakeCluster, ReadL3Next, BumpL3Next, HasAdded, BeforeBss
<1>2. CASE IsDm(c) /\ QuietDm(c[1])
  <2>1. c = DmCore(c[1])
    BY <1>2, CoreFacts
  <2> QED BY <1>2, <2>1, GotoFact
    DEF QuietDm, StartTls, TlsDone, InitL1Allocator, InitL3Allocator, HasAdded, BeforeBss
<1> QED BY <1>1, <1>2

LEMMA QuietKeeps ==
    ASSUME TypeOK, NEW c \in Cores, Quiet(c) \/ QuietDm(c[1])
    PROVE  /\ UNCHANGED <<sums, tohost, bss>>
           /\ \A k \in Clusters : cls'[k].image => cls[k].image
<1>1. CASE Quiet(c)
  BY <1>1
  DEF Quiet, Resume, ClearReset, PollReset, WakeDone, WaitTls, SetClsPtr, WaitAlloc, InitLibs,
      MainReturns, WakeCluster, ReadL3Next, BumpL3Next, run, mem
<1>2. CASE InitL1Allocator(c[1])
  BY <1>2 DEF InitL1Allocator, run, TypeOK
<1>3. CASE StartTls(c[1]) \/ TlsDone(c[1]) \/ InitL3Allocator(c[1])
  BY <1>3 DEF StartTls, TlsDone, InitL3Allocator, run, mem
<1> QED BY <1>1, <1>2, <1>3 DEF QuietDm

LEMMA QuietSums ==
    ASSUME TypeOK, SumsRight, NEW c \in Cores, Quiet(c) \/ (IsDm(c) /\ QuietDm(c[1]))
    PROVE  SumsRight'
<1>1. /\ pc[c] \notin HasAdded /\ pc'[c] \notin HasAdded
      /\ pc'[c] \in BeforeBss => pc[c] \in BeforeBss
      /\ \A d \in Cores \ {c} : pc'[d] = pc[d]
  BY QuietMoves
<1>2. /\ UNCHANGED <<sums, tohost, bss>>
      /\ \A k \in Clusters : cls'[k].image => cls[k].image
  BY QuietKeeps
<1>3. ASSUME NEW d \in Cores
      PROVE  /\ pc'[d] \in HasAdded <=> pc[d] \in HasAdded
             /\ pc'[d] = "tohost" => pc[d] = "tohost"
             /\ pc'[d] \in InGlobal <=> pc[d] \in InGlobal
             /\ pc'[d] \in PastMeeting => pc[d] \in PastMeeting
             /\ pc'[d] \in CopiedBack <=> pc[d] \in CopiedBack
             /\ pc'[d] \in BeforeBss => pc[d] \in BeforeBss
  BY <1>1 DEF HasAdded, InGlobal, PastMeeting, CopiedBack
<1>4. \A k \in Clusters : DmCore(k) \in Cores
  BY CoreFacts
<1> QED BY <1>2, <1>3, <1>4, SumsFrame

(* The hardware barrier moves DM cores from their value to the global sum, and
   from the total to the return. *)
LEMMA ReleaseSums ==
    ASSUME IInv, SumsRight, NEW k \in Clusters, HwRelease(k)
    PROVE  SumsRight'
<1>0. TypeOK /\ \A c \in Cores : CoreRight(c) /\ InStep(c)
  BY DEF IInv
<1>1. UNCHANGED <<sums, tohost, bss, cls>>
  BY <1>0, Release DEF run, mem
<1>2. ASSUME NEW d \in Cores
      PROVE  /\ pc'[d] \in HasAdded <=> pc[d] \in HasAdded
             /\ pc'[d] = "tohost" => pc[d] = "tohost"
             /\ pc'[d] \in BeforeBss => pc[d] \in BeforeBss
  <2>1. CASE d \in CoresOf(k)
    <3>1. pc[d] \in InBarrier /\ pc'[d] = AfterBarrier(d)
      BY <2>1 DEF HwRelease
    <3> QED BY <3>1, ReleaseTable DEF InBarrier, HasAdded, BeforeBss
  <2>2. CASE d \notin CoresOf(k)
    BY <2>2 DEF HwRelease
  <2> QED BY <2>1, <2>2
<1>3. ASSUME NEW m \in Clusters
      PROVE  /\ pc'[DmCore(m)] \in InGlobal <=> pc[DmCore(m)] \in InGlobal
             /\ pc'[DmCore(m)] \in PastMeeting => pc[DmCore(m)] \in PastMeeting
             /\ pc'[DmCore(m)] \in CopiedBack <=> pc[DmCore(m)] \in CopiedBack
  <2> DEFINE d == DmCore(m)
  <2>0. d \in Cores /\ IsDm(d)
    BY CoreFacts
  <2> HIDE DEF d
  <2>1. CASE d \in CoresOf(k)
    <3>1. pc[d] \in InBarrier /\ pc'[d] = AfterBarrier(d)
      BY <2>0, <2>1 DEF HwRelease
    <3>2. /\ pc'[d] \in InGlobal <=> pc[d] \in InGlobal
          /\ pc'[d] \in PastMeeting => pc[d] \in PastMeeting
          /\ pc'[d] \in CopiedBack <=> pc[d] \in CopiedBack
      BY <2>0, <3>1, ReleaseTable DEF InBarrier, InGlobal, PastMeeting, CopiedBack
    <3> QED BY <3>2 DEF d
  <2>2. CASE d \notin CoresOf(k)
    <3>1. pc'[d] = pc[d]
      BY <2>0, <2>2 DEF HwRelease
    <3> QED BY <3>1 DEF d
  <2> QED BY <2>1, <2>2
<1>4. \A m \in Clusters : DmCore(m) \in Cores
  BY CoreFacts
<1> QED BY <1>1, <1>2, <1>3, <1>4, SumsFrame

(* .bss, with the global sum in it, is cleared before anybody can have added. *)
LEMMA InitBssSums ==
    ASSUME IInv, SumsRight, NEW c \in Cores, InitBss(c)
    PROVE  SumsRight'
<1>0. TypeOK /\ CoreRight(c) /\ BssRight
  BY DEF IInv
<1>1. /\ pc[c] = "bss" /\ pc'[c] = "hw_bss" /\ \A d \in Cores \ {c} : pc'[d] = pc[d]
      /\ bss' = (bss \/ IsDm(c)) /\ global' = IF IsDm(c) THEN Zero ELSE global
      /\ UNCHANGED <<cls, reduction, returned, tohost>>
  BY <1>0, GotoFact DEF InitBss
<1>2. ASSUME NEW d \in Cores
      PROVE  /\ pc'[d] \in HasAdded <=> pc[d] \in HasAdded
             /\ pc'[d] = "tohost" => pc[d] = "tohost"
             /\ pc'[d] \in InGlobal <=> pc[d] \in InGlobal
             /\ pc'[d] \in PastMeeting => pc[d] \in PastMeeting
             /\ pc'[d] \in CopiedBack <=> pc[d] \in CopiedBack
             /\ pc'[d] \in BeforeBss => pc[d] \in BeforeBss
  BY <1>1 DEF HasAdded, InGlobal, PastMeeting, CopiedBack, BeforeBss
<1>3. \A k \in Clusters : DmCore(k) \in Cores
  BY CoreFacts
<1>4. CASE ~IsDm(c)
  <2>1. UNCHANGED <<sums, tohost, bss, cls>>
    BY <1>0, <1>1, <1>4 DEF sums, TypeOK
  <2> QED BY <1>2, <1>3, <2>1, SumsFrame
<1>5. CASE IsDm(c)
  <2>1. c = DmCore(0)
    BY <1>0, <1>1, <1>5, CoreFacts DEF CoreRight
  <2>2. ~bss
    BY <1>1, <2>1 DEF SumsRight, GlobalRight, BeforeBss
  <2>3. ASSUME NEW d \in Cores PROVE pc'[DmCore(d[1])] \notin InGlobal
    <3>1. CASE d[1] = 0
      BY <1>1, <2>1, <3>1 DEF InGlobal
    <3>2. CASE d[1] # 0
      <4>1. d[1] \in Clusters /\ DmCore(d[1]) \in Cores /\ DmCore(d[1])[1] = d[1]
        BY CoreFacts
      <4>2. pc[DmCore(d[1])] = "park"
        BY <1>0, <2>2, <3>2, <4>1 DEF BssRight
      <4> QED BY <1>2, <4>1, <4>2 DEF InGlobal
    <3> QED BY <3>1, <3>2
  <2>4. Collected' = Zero
    BY <2>3 DEF Collected, Zero
  <2>5. GlobalRight'
    BY <1>1, <1>5, <2>1, <2>4 DEF GlobalRight, BeforeBss
  <2>6. ReductionRight'
    <3>1. \A k \in Clusters : Part(k)' = Part(k)
      BY <1>2 DEF Part
    <3> QED BY <1>1, <1>2, <1>3, <3>1 DEF SumsRight, ReductionRight
  <2>7. AllMet'
    BY <1>2, <1>3 DEF SumsRight, AllMet
  <2>8. ReturnsTheSum' /\ ExitCodeIsTheSum'
    BY <1>1 DEF SumsRight, ResultRight, ReturnsTheSum, ExitCodeIsTheSum
  <2>9. ResultRight'
    BY <1>1, <1>2, <2>8 DEF SumsRight, ResultRight
  <2> QED BY <2>5, <2>6, <2>7, <2>9 DEF SumsRight
<1> QED BY <1>4, <1>5

(* The word of a cluster is cleared while all its cores are before main. *)
LEMMA CopyClsSums ==
    ASSUME IInv, SumsRight, NEW k \in Clusters, CopyCls(k)
    PROVE  SumsRight'
<1> DEFINE c == DmCore(k)
<1>0. TypeOK /\ c \in Cores /\ c[1] = k /\ \A d \in Cores : InStep(d)
  BY CoreFacts DEF IInv
<1>1. /\ pc[c] = "cls" /\ pc'[c] = "cls_ptr" /\ \A d \in Cores \ {c} : pc'[d] = pc[d]
      /\ cls' = [cls EXCEPT ![k] = [image |-> TRUE, l1_allocator |-> FALSE]]
      /\ reduction' = [reduction EXCEPT ![k] = Zero]
      /\ UNCHANGED <<bss, global, returned, tohost>>
  BY <1>0, GotoFact DEF CopyCls
<1>2. ASSUME NEW d \in Cores
      PROVE  /\ pc'[d] \in HasAdded <=> pc[d] \in HasAdded
             /\ pc'[d] = "tohost" => pc[d] = "tohost"
             /\ pc'[d] \in InGlobal <=> pc[d] \in InGlobal
             /\ pc'[d] \in PastMeeting => pc[d] \in PastMeeting
             /\ pc'[d] \in CopiedBack <=> pc[d] \in CopiedBack
             /\ pc'[d] \in BeforeBss => pc[d] \in BeforeBss
  BY <1>1 DEF HasAdded, InGlobal, PastMeeting, CopiedBack, BeforeBss
<1>3. \A m \in Clusters : DmCore(m) \in Cores
  BY CoreFacts
<1>4. GlobalRight'
  <2>1. Collected' = Collected
    BY <1>2, CoreFacts DEF Collected
  <2> QED BY <1>1, <1>2, <1>3, <2>1, CoreFacts DEF SumsRight, GlobalRight
<1>5. ReductionRight'
  <2>1. ASSUME NEW m \in Clusters PROVE Part(m)' = Part(m)
    BY <1>2 DEF Part
  <2>2. Part(k) = Zero /\ pc'[c] \notin CopiedBack
    <3>1. Stage(c) = "cls"
      BY <1>1, StageTable DEF Stage
    <3>2. ASSUME NEW d \in Cores, d[1] = k PROVE pc[d] \notin HasAdded
      <4>1. Stage(d) = "cls"
        BY <1>0, <3>1, <3>2 DEF InStep
      <4> QED BY <4>1, StageTable DEF Stage, HasAdded
    <3>3. pc'[c] \notin CopiedBack
      BY <1>1 DEF CopiedBack
    <3> QED BY <3>2, <3>3 DEF Part, Zero
  <2>3. ASSUME NEW m \in Clusters, cls'[m].image
        PROVE  reduction'[m] = IF pc'[DmCore(m)] \in CopiedBack THEN Total ELSE Part(m)'
    <3>1. CASE m = k
      BY <1>0, <1>1, <2>1, <2>2, <3>1 DEF TypeOK
    <3>2. CASE m # k
      <4>1. cls'[m] = cls[m] /\ reduction'[m] = reduction[m]
        BY <1>0, <1>1, <3>2 DEF TypeOK
      <4> QED BY <1>2, <1>3, <2>1, <2>3, <4>1 DEF SumsRight, ReductionRight
    <3> QED BY <3>1, <3>2
  <2> QED BY <2>3 DEF ReductionRight
<1>6. AllMet'
  BY <1>2, <1>3 DEF SumsRight, AllMet
<1>7. ReturnsTheSum' /\ ExitCodeIsTheSum'
  BY <1>1 DEF SumsRight, ResultRight, ReturnsTheSum, ExitCodeIsTheSum
<1>8. ResultRight'
  BY <1>1, <1>2, <1>7 DEF SumsRight, ResultRight
<1> QED BY <1>4, <1>5, <1>6, <1>8 DEF SumsRight

LEMMA MainReady ==
    ASSUME IInv, NEW c \in Cores, pc[c] \in InMain
    PROVE  bss /\ cls[c[1]].image
BY InMainReady DEF InitialisedBeforeMain

(* A core adds its value, once, before its DM core goes on. *)
LEMMA CallSums ==
    ASSUME MainReduces = 0, IInv, SumsRight, NEW c \in Cores, CallReduction(c)
    PROVE  SumsRight'
<1> DEFINE k == c[1]
<1>0. TypeOK /\ InStep(c) /\ k \in Clusters /\ Len(returned[c]) \in Nat
  BY CoreFacts DEF IInv, TypeOK
<1>1. /\ pc[c] = "exit" /\ pc'[c] = "hw_sum" /\ \A d \in Cores \ {c} : pc'[d] = pc[d]
      /\ reduction' = [reduction EXCEPT ![k] = Plus(@, Value(c))]
      /\ UNCHANGED <<bss, cls, global, returned, tohost>>
  <2>1. ~(Len(returned[c]) < MainReduces)
    BY <1>0
  <2>2. AddToCluster(c, "exit") /\ UNCHANGED <<bss, cls, tohost>>
    BY <2>1 DEF CallReduction, mem
  <2> QED BY <1>0, <2>2, GotoFact DEF AddToCluster
<1>2. ASSUME NEW d \in Cores
      PROVE  /\ pc'[d] = "tohost" => pc[d] = "tohost"
             /\ pc'[d] \in HasAdded <=> pc[d] \in HasAdded \/ d = c
             /\ pc'[d] \in InGlobal <=> pc[d] \in InGlobal
             /\ pc'[d] \in PastMeeting => pc[d] \in PastMeeting
             /\ pc'[d] \in CopiedBack <=> pc[d] \in CopiedBack
             /\ pc'[d] \in BeforeBss => pc[d] \in BeforeBss
  BY <1>1 DEF HasAdded, InGlobal, PastMeeting, CopiedBack, BeforeBss
<1>3. \A m \in Clusters : DmCore(m) \in Cores
  BY CoreFacts
<1>4. GlobalRight'
  <2>1. Collected' = Collected
    BY <1>2, CoreFacts DEF Collected
  <2> QED BY <1>1, <1>2, <1>3, <2>1, CoreFacts DEF SumsRight, GlobalRight
<1>5. ReductionRight'
  <2>1. pc[DmCore(k)] \notin CopiedBack
    <3>1. Stage(c) = "exit"
      BY <1>1, StageTable DEF Stage
    <3>2. Stage(DmCore(k)) = "exit"
      BY <1>0, <3>1 DEF InStep
    <3> QED BY <3>2, StageTable DEF Stage, CopiedBack
  <2>2. reduction[k] = Part(k)
    <3>1. cls[k].image
      BY <1>1, MainReady DEF InMain
    <3> QED BY <1>0, <2>1, <3>1 DEF SumsRight, ReductionRight
  <2>3. pc[c] \notin HasAdded
    BY <1>1 DEF HasAdded
  <2>4. Part(k)' = Plus(Part(k), Value(c))
    BY <1>2, <2>3 DEF Part, Plus, Value
  <2>5. ASSUME NEW m \in Clusters, m # k PROVE Part(m)' = Part(m)
    BY <1>2, <2>5 DEF Part
  <2>6. ASSUME NEW m \in Clusters, cls'[m].image
        PROVE  reduction'[m] = IF pc'[DmCore(m)] \in CopiedBack THEN Total ELSE Part(m)'
    <3>1. CASE m = k
      <4>1. reduction'[k] = Part(k)'
        BY <1>0, <1>1, <2>2, <2>4 DEF TypeOK
      <4>2. pc'[DmCore(k)] \notin CopiedBack
        BY <1>0, <1>2, <1>3, <2>1
      <4> QED BY <3>1, <4>1, <4>2
    <3>2. CASE m # k
      <4>1. reduction'[m] = reduction[m] /\ cls[m].image
        BY <1>0, <1>1, <2>6, <3>2 DEF TypeOK
      <4> QED BY <1>2, <1>3, <2>5, <3>2, <4>1 DEF SumsRight, ReductionRight
    <3> QED BY <3>1, <3>2
  <2> QED BY <2>6 DEF ReductionRight
<1>6. AllMet'
  BY <1>2, <1>3 DEF SumsRight, AllMet
<1>7. ReturnsTheSum' /\ ExitCodeIsTheSum'
  BY <1>1 DEF SumsRight, ResultRight, ReturnsTheSum, ExitCodeIsTheSum
<1>8. ResultRight'
  BY <1>1, <1>2, <1>7 DEF SumsRight, ResultRight
<1> QED BY <1>4, <1>5, <1>6, <1>8 DEF SumsRight

(* A DM core adds the sum of its cluster when all its cores have added theirs. *)
LEMMA GlobalSums ==
    ASSUME IInv, SumsRight, NEW k \in Clusters, AddToGlobal(k),
           UNCHANGED <<bss, cls, tohost>>
    PROVE  SumsRight'
<1> DEFINE c == DmCore(k)
<1>0. TypeOK /\ c \in Cores /\ c[1] = k /\ \A d \in Cores : InStep(d)
  BY CoreFacts DEF IInv
<1>1. /\ pc[c] = "global" /\ pc'[c] = "icb" /\ \A d \in Cores \ {c} : pc'[d] = pc[d]
      /\ global' = Plus(global, reduction[k])
      /\ UNCHANGED <<bss, cls, reduction, returned, tohost>>
  BY <1>0, GotoFact DEF AddToGlobal
<1>2. ASSUME NEW d \in Cores
      PROVE  /\ pc'[d] = "tohost" => pc[d] = "tohost"
             /\ pc'[d] \in HasAdded <=> pc[d] \in HasAdded
             /\ pc'[d] \in InGlobal <=> pc[d] \in InGlobal \/ d = c
             /\ pc'[d] \in PastMeeting => pc[d] \in PastMeeting
             /\ pc'[d] \in CopiedBack <=> pc[d] \in CopiedBack
             /\ pc'[d] \in BeforeBss => pc[d] \in BeforeBss
  BY <1>1 DEF HasAdded, InGlobal, PastMeeting, CopiedBack, BeforeBss
<1>3. \A m \in Clusters : DmCore(m) \in Cores /\ DmCore(m)[1] = m
  BY CoreFacts
<1>4. GlobalRight'
  <2>1. bss /\ cls[k].image
    <3>1. pc[c] \in InMain
      BY <1>1 DEF InMain
    <3> QED BY <1>0, <3>1, MainReady
  <2>2. reduction[k] = Part(k)
    <3>1. pc[c] \notin CopiedBack
      BY <1>1 DEF CopiedBack
    <3> QED BY <2>1, <3>1 DEF SumsRight, ReductionRight
  <2>3. ASSUME NEW d \in Cores, d[1] = k PROVE pc[d] \in HasAdded
    <3>1. Stage(c) = "sum"
      BY <1>1, StageTable DEF Stage
    <3>2. Stage(d) = "sum"
      BY <1>0, <2>3, <3>1 DEF InStep
    <3>3. pc[d] \in PCs
      BY <1>0 DEF TypeOK
    <3> QED BY <3>2, <3>3, StageTable, Numbers DEF Stage, HasAdded, PCs, InBarrier, InMain
  <2>4. pc[c] \notin InGlobal
    BY <1>1 DEF InGlobal
  <2>5. ASSUME NEW d \in Cores
        PROVE  Collected'[d] = Plus(global, reduction[k])[d]
    <3>1. global[d] = IF pc[DmCore(d[1])] \in InGlobal THEN 1 ELSE 0
      BY <2>1 DEF SumsRight, GlobalRight, Collected
    <3>2. reduction[k][d] = IF d[1] = k THEN 1 ELSE 0
      BY <2>2, <2>3 DEF Part
    <3>3. DmCore(d[1]) \in Cores /\ (DmCore(d[1]) = c <=> d[1] = k)
      BY <1>3, CoreFacts
    <3>4. Collected'[d] = IF pc'[DmCore(d[1])] \in InGlobal THEN 1 ELSE 0
      BY DEF Collected
    <3>5. Plus(global, reduction[k])[d] = global[d] + reduction[k][d]
      BY DEF Plus
    <3> QED BY <1>2, <2>4, <3>1, <3>2, <3>3, <3>4, <3>5
  <2>6. Collected' = global'
    <3>1. Collected' = [d \in Cores |-> Collected'[d]]
      BY DEF Collected
    <3>2. global' = [d \in Cores |-> global'[d]]
      BY <1>1 DEF Plus
    <3> QED BY <1>1, <2>5, <3>1, <3>2
  <2>7. pc'[DmCore(0)] \notin BeforeBss
    BY <1>2, <1>3, <2>1, CoreFacts DEF SumsRight, GlobalRight
  <2> QED BY <2>6, <2>7 DEF GlobalRight
<1>5. ReductionRight'
  <2>1. \A m \in Clusters : Part(m)' = Part(m)
    BY <1>2 DEF Part
  <2> QED BY <1>1, <1>2, <1>3, <2>1 DEF SumsRight, ReductionRight
<1>6. AllMet'
  BY <1>2, <1>3 DEF SumsRight, AllMet
<1>7. ReturnsTheSum' /\ ExitCodeIsTheSum'
  BY <1>1 DEF SumsRight, ResultRight, ReturnsTheSum, ExitCodeIsTheSum
<1>8. ResultRight'
  BY <1>1, <1>2, <1>7 DEF SumsRight, ResultRight
<1> QED BY <1>4, <1>5, <1>6, <1>8 DEF SumsRight

(* A DM core copies the global sum back after the meeting, when it is complete. *)
LEMMA CopySums ==
    ASSUME IInv, SumsRight, NEW k \in Clusters, CopyBack(k),
           UNCHANGED <<bss, cls, tohost>>
    PROVE  SumsRight'
<1> DEFINE c == DmCore(k)
<1>0. TypeOK /\ c \in Cores /\ c[1] = k
  BY CoreFacts DEF IInv
<1>1. /\ pc[c] = "copy" /\ pc'[c] = "hw_copy" /\ \A d \in Cores \ {c} : pc'[d] = pc[d]
      /\ reduction' = [reduction EXCEPT ![k] = global]
      /\ UNCHANGED <<bss, cls, global, returned, tohost>>
  BY <1>0, GotoFact DEF CopyBack
<1>2. ASSUME NEW d \in Cores
      PROVE  /\ pc'[d] = "tohost" => pc[d] = "tohost"
             /\ pc'[d] \in HasAdded <=> pc[d] \in HasAdded
             /\ pc'[d] \in InGlobal <=> pc[d] \in InGlobal
             /\ pc'[d] \in PastMeeting => pc[d] \in PastMeeting
             /\ d # c => (pc'[d] \in CopiedBack <=> pc[d] \in CopiedBack)
             /\ pc'[d] \in BeforeBss => pc[d] \in BeforeBss
  BY <1>1 DEF HasAdded, InGlobal, PastMeeting, CopiedBack, BeforeBss
<1>3. \A m \in Clusters : DmCore(m) \in Cores /\ DmCore(m)[1] = m
  BY CoreFacts
<1>4. GlobalRight'
  <2>1. Collected' = Collected
    BY <1>2, CoreFacts DEF Collected
  <2> QED BY <1>1, <1>2, <1>3, <2>1, CoreFacts DEF SumsRight, GlobalRight
<1>5. ReductionRight'
  <2>1. global = Total
    <3>1. \A d \in Cores : pc[DmCore(d[1])] \in InGlobal
      BY <1>1, CoreFacts DEF SumsRight, AllMet, PastMeeting
    <3>2. bss
      <4>1. pc[c] \in InMain
        BY <1>1 DEF InMain
      <4> QED BY <1>0, <4>1, MainReady
    <3> QED BY <3>1, <3>2 DEF SumsRight, GlobalRight, Collected, Total
  <2>2. \A m \in Clusters : Part(m)' = Part(m)
    BY <1>2 DEF Part
  <2>3. ASSUME NEW m \in Clusters, cls'[m].image
        PROVE  reduction'[m] = IF pc'[DmCore(m)] \in CopiedBack THEN Total ELSE Part(m)'
    <3>1. CASE m = k
      <4>1. reduction'[k] = Total
        BY <1>0, <1>1, <2>1 DEF TypeOK
      <4>2. pc'[DmCore(k)] \in CopiedBack
        BY <1>1 DEF CopiedBack
      <4> QED BY <3>1, <4>1, <4>2
    <3>2. CASE m # k
      <4>1. reduction'[m] = reduction[m] /\ cls[m].image /\ DmCore(m) # c
        BY <1>0, <1>1, <1>3, <2>3, <3>2 DEF TypeOK
      <4>2. pc'[DmCore(m)] \in CopiedBack <=> pc[DmCore(m)] \in CopiedBack
        BY <1>2, <1>3, <4>1
      <4> QED BY <2>2, <4>1, <4>2 DEF SumsRight, ReductionRight
    <3> QED BY <3>1, <3>2
  <2> QED BY <2>3 DEF ReductionRight
<1>6. AllMet'
  BY <1>2, <1>3 DEF SumsRight, AllMet
<1>7. ReturnsTheSum' /\ ExitCodeIsTheSum'
  BY <1>1 DEF SumsRight, ResultRight, ReturnsTheSum, ExitCodeIsTheSum
<1>8. ResultRight'
  BY <1>1, <1>2, <1>7 DEF SumsRight, ResultRight
<1> QED BY <1>4, <1>5, <1>6, <1>8 DEF SumsRight

(* The DM cores meet when the sums of all clusters are in the global one. *)
LEMMA MeetSums ==
    ASSUME IInv, SumsRight, MeetInReduction
    PROVE  SumsRight'
<1>1. /\ \A m \in Clusters : pc[DmCore(m)] = "icb"
      /\ \A d \in Cores : pc'[d] = pc[d] \/ (pc[d] = "icb" /\ pc'[d] = "copy")
      /\ UNCHANGED <<bss, cls, global, reduction, returned, tohost>>
  BY DEF MeetInReduction, InterClusterBarrier, sums, mem
<1>2. ASSUME NEW d \in Cores
      PROVE  /\ pc'[d] = "tohost" => pc[d] = "tohost"
             /\ pc'[d] \in HasAdded <=> pc[d] \in HasAdded
             /\ pc'[d] \in InGlobal <=> pc[d] \in InGlobal
             /\ pc'[d] \in CopiedBack <=> pc[d] \in CopiedBack
             /\ pc'[d] \in BeforeBss => pc[d] \in BeforeBss
  BY <1>1 DEF HasAdded, InGlobal, CopiedBack, BeforeBss
<1>3. \A m \in Clusters : DmCore(m) \in Cores
  BY CoreFacts
<1>4. GlobalRight'
  <2>1. Collected' = Collected
    BY <1>2, CoreFacts DEF Collected
  <2> QED BY <1>1, <1>2, <1>3, <2>1, CoreFacts DEF SumsRight, GlobalRight
<1>5. ReductionRight'
  <2>1. \A m \in Clusters : Part(m)' = Part(m)
    BY <1>2 DEF Part
  <2> QED BY <1>1, <1>2, <1>3, <2>1 DEF SumsRight, ReductionRight
<1>6. AllMet'
  BY <1>1, <1>2, <1>3 DEF AllMet, InGlobal
<1>7. ReturnsTheSum' /\ ExitCodeIsTheSum'
  BY <1>1 DEF SumsRight, ResultRight, ReturnsTheSum, ExitCodeIsTheSum
<1>8. ResultRight'
  BY <1>1, <1>2, <1>7 DEF SumsRight, ResultRight
<1> QED BY <1>4, <1>5, <1>6, <1>8 DEF SumsRight

(* A core that returns finds the total, for its DM core has copied it back and
   nobody adds again. *)
LEMMA ReturnSums ==
    ASSUME MainReduces = 0, IInv, SumsRight, NEW c \in Cores, ReductionReturns(c)
    PROVE  SumsRight'
<1> DEFINE k == c[1]
           m == DmCore(k)
<1>0. /\ TypeOK /\ InStep(c) /\ CoreRight(c) /\ CoreRight(m)
      /\ k \in Clusters /\ m \in Cores /\ m[1] = k
      /\ Len(returned[c]) \in Nat /\ Len(returned[m]) \in Nat
  BY CoreFacts DEF IInv, TypeOK
<1>1. /\ pc[c] = "return" /\ pc'[c] \in {"tohost", "end"}
      /\ \A d \in Cores \ {c} : pc'[d] = pc[d]
      /\ returned' = [returned EXCEPT ![c] = Append(@, reduction[k])]
      /\ UNCHANGED <<bss, cls, global, reduction, tohost>>
  <2>1. ~(Len(returned[c]) < MainReduces)
    BY <1>0
  <2>2. ReturnResult(c, IF c = Core0 THEN "tohost" ELSE "end") /\ UNCHANGED <<bss, cls, tohost>>
    BY <2>1 DEF ReductionReturns, mem
  <2> QED BY <1>0, <2>2, GotoFact DEF ReturnResult
<1>2. ASSUME NEW d \in Cores
      PROVE  /\ d # c => pc'[d] = pc[d]
             /\ pc'[d] \in HasAdded <=> pc[d] \in HasAdded
             /\ pc'[d] \in InGlobal <=> pc[d] \in InGlobal
             /\ pc'[d] \in PastMeeting => pc[d] \in PastMeeting
             /\ pc'[d] \in CopiedBack <=> pc[d] \in CopiedBack
             /\ pc'[d] \in BeforeBss => pc[d] \in BeforeBss
  BY <1>1 DEF HasAdded, InGlobal, PastMeeting, CopiedBack, BeforeBss
<1>3. \A j \in Clusters : DmCore(j) \in Cores
  BY CoreFacts
<1>4. GlobalRight'
  <2>1. Collected' = Collected
    BY <1>2, CoreFacts DEF Collected
  <2> QED BY <1>1, <1>2, <1>3, <2>1, CoreFacts DEF SumsRight, GlobalRight
<1>5. ReductionRight'
  <2>1. \A j \in Clusters : Part(j)' = Part(j)
    BY <1>2 DEF Part
  <2> QED BY <1>1, <1>2, <1>3, <2>1 DEF SumsRight, ReductionRight
<1>6. AllMet'
  BY <1>2, <1>3 DEF SumsRight, AllMet
<1>7. reduction[k] = Total
  <2>1. Round(c) = Len(returned[c]) + 1
    BY <1>1 DEF Round
  <2>2. Round(m) > 0
    BY <1>0, <2>1 DEF InStep
  <2>3. pc[m] = "return" \/ Len(returned[m]) > 0
    <3>1. CASE pc[m] # "return"
      <4>1. Round(m) = Len(returned[m]) + 0
        BY <3>1 DEF Round
      <4> QED BY <1>0, <2>2, <4>1
    <3> QED BY <3>1
  <2>4. pc[m] \in CopiedBack
    <3>1. Len(returned[m]) > 0 => pc[m] \in {"tohost", "end"}
      BY <1>0 DEF CoreRight
    <3> QED BY <2>3, <3>1 DEF CopiedBack
  <2>5. cls[k].image
    BY <1>1, MainReady DEF InMain
  <2> QED BY <1>0, <2>4, <2>5 DEF SumsRight, ReductionRight
<1>8. ReturnsTheSum' /\ Len(returned'[c]) > 0
  <2>1. returned[c] \in Seq(Word) /\ returned'[c] = Append(returned[c], Total)
        /\ \A d \in Cores \ {c} : returned'[d] = returned[d]
    BY <1>0, <1>1, <1>7 DEF TypeOK
  <2>2. ReturnsTheSum
    BY DEF SumsRight, ResultRight
  <2>3. Len(returned'[c]) = Len(returned[c]) + 1
    BY <2>1, WordType
  <2>4. \A i \in 1..Len(returned'[c]) : returned'[c][i] = Total
    BY <1>0, <2>1, <2>2, <2>3, WordType DEF ReturnsTheSum
  <2>5. ASSUME NEW d \in Cores PROVE \A i \in 1..Len(returned'[d]) : returned'[d][i] = Total
    <3>1. CASE d # c
      BY <2>1, <2>2, <3>1 DEF ReturnsTheSum
    <3> QED BY <2>4, <3>1
  <2>6. ReturnsTheSum'
    <3>1. Total' = Total
      BY DEF Total
    <3> QED BY <2>5, <3>1 DEF ReturnsTheSum
  <2>7. Len(returned'[c]) > 0
    BY <1>0, <2>3
  <2> QED BY <2>6, <2>7
<1>9. ResultRight'
  <2>1. ExitCodeIsTheSum'
    BY <1>1 DEF SumsRight, ResultRight, ExitCodeIsTheSum
  <2>2. \A d \in Cores \ {c} : returned'[d] = returned[d]
    BY <1>0, <1>1 DEF TypeOK
  <2> QED BY <1>2, <1>8, <2>1, <2>2 DEF SumsRight, ResultRight
<1> QED BY <1>4, <1>5, <1>6, <1>9 DEF SumsRight

(* Core 0 gives the host what it got. *)
LEMMA WriteSums ==
    ASSUME IInv, SumsRight, WriteTohost
    PROVE  SumsRight'
<1>0. TypeOK /\ Core0 \in Cores /\ Len(returned[Core0]) \in Nat
  BY CoreFacts DEF IInv, TypeOK
<1>1. /\ pc[Core0] = "tohost" /\ pc'[Core0] = "end"
      /\ \A d \in Cores \ {Core0} : pc'[d] = pc[d]
      /\ tohost' = [code |-> returned[Core0][Len(returned[Core0])], lsb |-> 1]
      /\ UNCHANGED <<bss, cls, global, reduction, returned>>
  BY <1>0, GotoFact DEF WriteTohost, mem, sums
<1>2. ASSUME NEW d \in Cores
      PROVE  /\ pc'[d] = "tohost" => pc[d] = "tohost"
             /\ pc'[d] \in HasAdded <=> pc[d] \in HasAdded
             /\ pc'[d] \in InGlobal <=> pc[d] \in InGlobal
             /\ pc'[d] \in PastMeeting => pc[d] \in PastMeeting
             /\ pc'[d] \in CopiedBack <=> pc[d] \in CopiedBack
             /\ pc'[d] \in BeforeBss => pc[d] \in BeforeBss
  BY <1>1 DEF HasAdded, InGlobal, PastMeeting, CopiedBack, BeforeBss
<1>3. \A j \in Clusters : DmCore(j) \in Cores
  BY CoreFacts
<1>4. GlobalRight'
  <2>1. Collected' = Collected
    BY <1>2, CoreFacts DEF Collected
  <2> QED BY <1>1, <1>2, <1>3, <2>1, CoreFacts DEF SumsRight, GlobalRight
<1>5. ReductionRight'
  <2>1. \A j \in Clusters : Part(j)' = Part(j)
    BY <1>2 DEF Part
  <2> QED BY <1>1, <1>2, <1>3, <2>1 DEF SumsRight, ReductionRight
<1>6. AllMet'
  BY <1>2, <1>3 DEF SumsRight, AllMet
<1>7. returned[Core0][Len(returned[Core0])] = Total
  <2>1. Len(returned[Core0]) > 0
    BY <1>0, <1>1 DEF SumsRight, ResultRight
  <2>2. Len(returned[Core0]) \in 1..Len(returned[Core0])
    BY <1>0, <2>1
  <2> QED BY <1>0, <2>2 DEF SumsRight, ResultRight, ReturnsTheSum
<1>8. ReturnsTheSum' /\ ExitCodeIsTheSum'
  BY <1>1, <1>7 DEF SumsRight, ResultRight, ReturnsTheSum, ExitCodeIsTheSum
<1>9. ResultRight'
  BY <1>1, <1>2, <1>8 DEF SumsRight, ResultRight
<1> QED BY <1>4, <1>5, <1>6, <1>9 DEF SumsRight
--------------------------------------------------------------------------------
LEMMA NextSums ==
    ASSUME MainReduces = 0, IInv, SumsRight, [Next]_vars
    PROVE  SumsRight'
<1>0. TypeOK
  BY DEF IInv
<1>1. ASSUME NEW c \in Cores, Step(c) PROVE SumsRight'
  <2>1. CASE CoreStep(c)
    <3>1. Quiet(c) \/ InitBss(c) \/ CallReduction(c) \/ ReductionReturns(c)
      BY <2>1 DEF CoreStep, Quiet
    <3> QED BY <1>0, <3>1, QuietSums, InitBssSums, CallSums, ReturnSums
  <2>2. CASE IsDm(c) /\ DmStep(c[1])
    <3>1. c[1] \in Clusters
      BY CoreFacts
    <3>2. CASE QuietDm(c[1])
      BY <1>0, <2>2, <3>2, QuietSums
    <3>3. CASE CopyCls(c[1])
      BY <3>1, <3>3, CopyClsSums
    <3>4. CASE ReductionStep(c[1])
      <4>1. UNCHANGED <<bss, cls, tohost>> /\ (AddToGlobal(c[1]) \/ CopyBack(c[1]))
        BY <3>4 DEF ReductionStep, mem
      <4> QED BY <3>1, <4>1, GlobalSums, CopySums
    <3> QED BY <2>2, <3>2, <3>3, <3>4 DEF DmStep, QuietDm
  <2>3. CASE c = Core0 /\ Core0Step
    <3>1. Quiet(c) \/ WriteTohost
      BY <2>3 DEF Core0Step, Quiet
    <3> QED BY <1>0, <3>1, QuietSums, WriteSums
  <2> QED BY <1>1, <2>1, <2>2, <2>3 DEF Step
<1>2. ASSUME NEW c \in Cores, ClearLands(c) \/ CopyTls(c) PROVE SumsRight'
  <2>1. UNCHANGED <<pc, sums, tohost, bss, cls>>
    BY <1>2 DEF ClearLands, CopyTls, run, mem
  <2> QED BY <2>1, SumsFrame
<1>3. ASSUME NEW k \in Clusters, HwRelease(k) PROVE SumsRight'
  BY <1>3, ReleaseSums
<1>4. CASE MeetInReduction
  BY <1>4, MeetSums
<1>5. CASE UNCHANGED vars
  <2>1. UNCHANGED <<pc, sums, tohost, bss, cls>>
    BY <1>5 DEF vars, run, mem
  <2> QED BY <2>1, SumsFrame
<1> QED BY <1>1, <1>2, <1>3, <1>4, <1>5, NextSplit

(* The invariant of the reduction of the exit codes, for a main that does not
   reduce itself: the word of a cluster has the values of the cores that have added
   theirs and then the total, the global one those of the clusters that have. *)
THEOREM ReductionInvariant == ASSUME MainReduces = 0 PROVE Spec => []SumsRight
<1>1. Init => SumsRight
  BY InitSums
<1>2. IInv /\ SumsRight /\ [Next]_vars => SumsRight'
  BY NextSums
<1> QED BY <1>1, <1>2, StartupInvariant, PTL DEF Spec

(* The host reads the sum of the exit codes of all cores: snrt_exit's reduction
   starts from cleared words and nobody reads it before everybody has added. *)
THEOREM ExitCode == ASSUME MainReduces = 0 PROVE Spec => []ExitCodeIsTheSum
<1>1. SumsRight => ExitCodeIsTheSum
  BY DEF SumsRight, ResultRight
<1> QED BY <1>1, ReductionInvariant, PTL

(* Every core gets the sum of all values from snrt_global_all_to_all_reduction if
   it is called once. *)
THEOREM EveryoneGetsTheSum == ASSUME MainReduces = 0 PROVE Spec => []ReturnsTheSum
<1>1. SumsRight => ReturnsTheSum
  BY DEF SumsRight, ResultRight
<1> QED BY <1>1, ReductionInvariant, PTL
================================================================================
