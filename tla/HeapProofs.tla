------------------------------- MODULE HeapProofs -------------------------------
(***************************************************************************)
(* The heap of a cluster for every number of cores, every heap and every   *)
(* program: cores that never communicate agree on the chunks, chunks lie   *)
(* within the heap, and no two of them overlap if the program uses one     *)
(* kind of L1 allocator.                                                   *)
(***************************************************************************)
EXTENDS Heap, TLAPS

TypeOK ==
    /\ prog \in [1..MaxCalls -> Calls]
    /\ v1_next \in Nat
    /\ ret \in [Cores -> Nat \cup {NoRet}]
    /\ l1 \in [Cores -> Nat] /\ l3 \in [Cores -> Nat]
    /\ ptr \in [Cores -> Seq(Nat)]
    /\ trapped \in [Cores -> BOOLEAN]
    /\ \A c \in Cores : Len(ptr[c]) <= MaxCalls

(* What a call does to the next pointers. *)
L1After(call, next) ==
    IF call.kind = "cluster" THEN AlignUp(next, call.align) + call.size
    ELSE IF call.kind = "core" THEN AlignUp(next, call.align) + call.size * NumCompute
    ELSE next

L3After(call, next) ==
    IF call.kind = "l3" THEN AlignUp(next, call.align) + call.size ELSE next

(* f1 and f3 are the next pointers after each of the first n calls. *)
Trace(n, f1, f3) ==
    /\ f1[0] = Base /\ f3[0] = L3Base
    /\ \A i \in 1..n : /\ f1[i] = L1After(prog[i], f1[i - 1])
                       /\ f3[i] = L3After(prog[i], f3[i - 1])
    /\ \A i, j \in 0..n : i <= j => f1[i] <= f1[j] /\ f3[i] <= f3[j]

(* Call number i of core c returned what the program alone determines. *)
Returned(c, i, f1, f3) ==
    /\ prog[i].kind = "cluster" => ptr[c][i] = AlignUp(f1[i - 1], prog[i].align)
    /\ prog[i].kind = "core" =>
           ptr[c][i] = AlignUp(f1[i - 1], prog[i].align) + prog[i].size * c
    /\ prog[i].kind = "l3" => ptr[c][i] = AlignUp(f3[i - 1], prog[i].align)

(* Call number i was within the bounds. *)
InBounds(i, f1, f3) ==
    /\ prog[i].kind \in {"cluster", "core"} => f1[i] <= End
    /\ prog[i].kind = "l3" => f3[i] < L3End

(* Core c, however far it is, follows the trace. *)
Follows(c, n, f1, f3) ==
    /\ Len(ptr[c]) <= n
    /\ l1[c] = f1[Len(ptr[c])] /\ l3[c] = f3[Len(ptr[c])]
    /\ \A i \in 1..Len(ptr[c]) : Returned(c, i, f1, f3)
    /\ \A i \in Done(c) : InBounds(i, f1, f3)

Agreed(n, f1, f3) == Trace(n, f1, f3) /\ \A c \in Cores : Follows(c, n, f1, f3)

(* There is one trace for all cores: the calls of the core furthest ahead. *)
OneTrace ==
    \E n \in 0..MaxCalls : \E f1, f3 \in [0..n -> Nat] : Agreed(n, f1, f3)

(* What a core has got from snrt_l1_alloc, its caller has got before. *)
Published ==
    \A c \in Cores : \A i \in 1..Len(ptr[c]) : prog[i].kind \in V1 =>
        /\ i <= Len(ptr[Caller(prog[i])])
        /\ ptr[c][i] = ptr[Caller(prog[i])][i]

(* What a core has read inside snrt_l1_alloc is still what next is. *)
Reading ==
    \A c \in Cores : ret[c] # NoRet =>
        /\ ret[c] = v1_next /\ Len(ptr[c]) < MaxCalls
        /\ Call(c).kind \in V1 /\ c = Caller(Call(c))

(* The allocator in the CLS hands out one chunk after the other. *)
V1Right ==
    \A c, d \in Cores : \A i \in 1..Len(ptr[c]), j \in 1..Len(ptr[d]) :
        prog[i].kind \in V1 /\ prog[j].kind \in V1 =>
            /\ ptr[c][i] + prog[i].size <= v1_next
            /\ i < j => ptr[c][i] + prog[i].size <= ptr[d][j]

(* A program that is not Mixed uses one kind of L1 allocator. *)
OneKind ==
    \/ Mixed
    \/ \A i \in DOMAIN prog : prog[i].kind \in V1
    \/ \A i \in DOMAIN prog : prog[i].kind \notin V1

IInv == TypeOK /\ OneTrace /\ Published /\ Reading /\ V1Right /\ OneKind
--------------------------------------------------------------------------------
LEMMA Numbers ==
    /\ NumCompute \in Nat /\ NumCompute > 0 /\ MinChunk \in Nat \ {0}
    /\ Base \in Nat /\ End \in Nat /\ L3Base \in Nat /\ L3End \in Nat
    /\ AddrMod \in Nat /\ End < AddrMod
    /\ MaxCalls \in Nat /\ 0 \in Cores /\ Cores \subseteq Nat
BY HeapAssumption DEF Cores

(* snrt_align_up rounds up. *)
LEMMA AlignUpFact ==
    ASSUME NEW a \in Nat, NEW s \in Nat \ {0}
    PROVE  AlignUp(a, s) \in Nat /\ a <= AlignUp(a, s)
<1>1. a <= ((a + s - 1) \div s) * s
  OBVIOUS
<1>2. (a + s - 1) \div s \in Nat
  OBVIOUS
<1>3. ((a + s - 1) \div s) * s \in Nat
  BY <1>2
<1> QED
  BY <1>1, <1>3 DEF AlignUp

LEMMA CallFact ==
    ASSUME NEW call \in Calls
    PROVE  call.size \in Nat \ {0} /\ call.align \in Nat \ {0} /\ call.kind \in Kinds
BY HeapAssumption DEF Calls

LEMMA AfterFact ==
    ASSUME NEW call \in Calls, NEW x \in Nat
    PROVE  /\ L1After(call, x) \in Nat /\ x <= L1After(call, x)
           /\ L3After(call, x) \in Nat /\ x <= L3After(call, x)
<1>1. call.size \in Nat /\ AlignUp(x, call.align) \in Nat /\ x <= AlignUp(x, call.align)
  BY CallFact, AlignUpFact
<1>2. call.size * NumCompute \in Nat
  BY <1>1, Numbers
<1> QED
  BY <1>1, <1>2 DEF L1After, L3After

(* Every step is one call of one core. *)
Step(c, p, b) ==
    /\ Len(ptr[c]) < MaxCalls /\ ~trapped[c]
    /\ ptr' = [ptr EXCEPT ![c] = Append(@, p)]
    /\ l1' = [l1 EXCEPT ![c] = L1After(Call(c), l1[c])]
    /\ l3' = [l3 EXCEPT ![c] = L3After(Call(c), l3[c])]
    /\ trapped' = [trapped EXCEPT ![c] = b]
    /\ Call(c).kind = "cluster" => p = AlignUp(l1[c], Call(c).align)
    /\ Call(c).kind = "core" => p = AlignUp(l1[c], Call(c).align) + Call(c).size * c
    /\ Call(c).kind = "l3" => p = AlignUp(l3[c], Call(c).align)
    /\ ~b /\ Call(c).kind \in {"cluster", "core"} => L1After(Call(c), l1[c]) <= End
    /\ ~b /\ Call(c).kind = "l3" => L3After(Call(c), l3[c]) < L3End

LEMMA CallType ==
    ASSUME TypeOK, NEW c \in Cores, Len(ptr[c]) < MaxCalls
    PROVE  Call(c) \in Calls /\ Pc(c) \in 1..MaxCalls /\ Len(ptr[c]) \in Nat
<1>1. Len(ptr[c]) \in Nat
  BY DEF TypeOK
<1> QED
  BY <1>1, Numbers DEF TypeOK, Call, Pc

LEMMA CallerCore == ASSUME NEW call PROVE Caller(call) \in Cores
BY Numbers DEF Caller, Cores

(* The first half of snrt_l1_alloc. *)
Reads(c) ==
    /\ Len(ptr[c]) < MaxCalls /\ Call(c).kind \in V1 /\ c = Caller(Call(c))
    /\ ret' = [ret EXCEPT ![c] = v1_next]

Quiet ==
    /\ UNCHANGED <<prog, v1_next, l1, l3, ptr, trapped>>
    /\ ret' = ret \/ \E c \in Cores : Reads(c)

(* What a call of core c that returns p does to the allocator in the CLS: not
   called, called by the core the pointer comes from, or called by c. *)
NoV1(c) == Call(c).kind \notin V1 /\ v1_next' = v1_next /\ ret' = ret

Copies(c, p) ==
    /\ Call(c).kind \in V1 /\ c # Caller(Call(c))
    /\ Pc(c) <= Len(ptr[Caller(Call(c))]) /\ p = ptr[Caller(Call(c))][Pc(c)]
    /\ v1_next' = v1_next /\ ret' = ret

Writes(c, p) ==
    /\ Call(c).kind \in V1 /\ ret[c] # NoRet /\ p = ret[c]
    /\ v1_next' = ret[c] + AlignUp(Call(c).size, MinChunk)
    /\ ret' = [ret EXCEPT ![c] = NoRet]

LEMMA Steps ==
    ASSUME TypeOK, [Next]_vars
    PROVE  /\ prog' = prog
           /\ \/ Quiet
              \/ \E c \in Cores : \E p \in Nat : \E b \in BOOLEAN :
                    Step(c, p, b) /\ (NoV1(c) \/ Copies(c, p) \/ Writes(c, p))
<1>0. /\ l1 \in [Cores -> Nat] /\ l3 \in [Cores -> Nat] /\ v1_next \in Nat
      /\ trapped \in [Cores -> BOOLEAN] /\ 0 \in Cores
  BY Numbers DEF TypeOK
<1> DEFINE Goal == \E c \in Cores : \E p \in Nat : \E b \in BOOLEAN :
                      Step(c, p, b) /\ (NoV1(c) \/ Copies(c, p) \/ Writes(c, p))
<1>1a. ASSUME NEW c \in Cores, L1AllocRead(c) PROVE Quiet
  <2>1. Len(ptr[c]) < MaxCalls
    BY <1>1a, Numbers DEF L1AllocRead, Runs, Pc, TypeOK
  <2> QED
    BY <1>1a, <2>1 DEF L1AllocRead, Runs, Quiet, Reads
<1>1. ASSUME NEW c \in Cores, L1AllocWrite(c) PROVE Goal
  <2>1. /\ Len(ptr[c]) < MaxCalls /\ ~trapped[c] /\ Call(c).kind \in V1
    BY <1>1, Numbers DEF L1AllocWrite, Runs, Pc, TypeOK
  <2>2. /\ l1' = [l1 EXCEPT ![c] = L1After(Call(c), l1[c])]
        /\ l3' = [l3 EXCEPT ![c] = L3After(Call(c), l3[c])]
        /\ trapped' = [trapped EXCEPT ![c] = FALSE]
    BY <1>0, <1>1, <2>1 DEF L1AllocWrite, L1After, L3After, V1
  <2>3. Step(c, ret[c], FALSE)
    BY <1>1, <2>1, <2>2 DEF L1AllocWrite, Returns, Step, V1
  <2>4. Writes(c, ret[c])
    BY <1>1, <2>1 DEF L1AllocWrite, Writes
  <2>5. ret[c] \in Nat
    BY <2>4 DEF Writes, TypeOK
  <2> QED
    BY <2>3, <2>4, <2>5
<1>2. ASSUME NEW c \in Cores, SkipL1Alloc(c) PROVE Goal
  <2> DEFINE k == Caller(Call(c))
  <2>1. /\ Len(ptr[c]) < MaxCalls /\ ~trapped[c] /\ Call(c).kind \in V1
    BY <1>2, Numbers DEF SkipL1Alloc, Runs, Pc, TypeOK
  <2>2. /\ l1' = [l1 EXCEPT ![c] = L1After(Call(c), l1[c])]
        /\ l3' = [l3 EXCEPT ![c] = L3After(Call(c), l3[c])]
        /\ trapped' = [trapped EXCEPT ![c] = FALSE]
    BY <1>0, <1>2, <2>1 DEF SkipL1Alloc, L1After, L3After, V1
  <2>3. Step(c, ptr[k][Pc(c)], FALSE)
    BY <1>2, <2>1, <2>2 DEF SkipL1Alloc, Returns, Step, V1
  <2>4. Copies(c, ptr[k][Pc(c)])
    BY <1>2, <2>1 DEF SkipL1Alloc, Copies
  <2>5. ptr[k][Pc(c)] \in Nat
    <3>1. k \in Cores /\ Pc(c) \in 1..MaxCalls /\ Pc(c) <= Len(ptr[k])
      BY <2>1, <2>4, CallerCore, CallType DEF Copies
    <3> HIDE DEF k
    <3>2. ptr[k] \in Seq(Nat) /\ Pc(c) \in 1..Len(ptr[k])
      BY <3>1, Numbers DEF TypeOK
    <3> QED
      BY <3>2
  <2> QED
    BY <2>3, <2>4, <2>5
<1>3. ASSUME NEW c \in Cores, L1AllocClusterLocal(c) PROVE Goal
  <2> DEFINE p == AlignUp(l1[c], Call(c).align)
             b == p + Call(c).size > End
  <2>1. /\ Len(ptr[c]) < MaxCalls /\ ~trapped[c] /\ Call(c).kind = "cluster"
    BY <1>3, Numbers DEF L1AllocClusterLocal, Runs, Pc, TypeOK
  <2>2. p \in Nat /\ Call(c).size \in Nat
    BY <1>0, <2>1, CallType, CallFact, AlignUpFact
  <2>3. /\ l1' = [l1 EXCEPT ![c] = L1After(Call(c), l1[c])]
        /\ l3' = [l3 EXCEPT ![c] = L3After(Call(c), l3[c])]
        /\ trapped' = [trapped EXCEPT ![c] = b]
    BY <1>0, <1>3, <2>1 DEF L1AllocClusterLocal, L1After, L3After
  <2>4. ~b => L1After(Call(c), l1[c]) <= End
    BY <2>1, <2>2, Numbers DEF L1After
  <2>5. ptr' = [ptr EXCEPT ![c] = Append(@, p)]
    BY <1>3 DEF L1AllocClusterLocal, Returns
  <2> HIDE DEF b
  <2>6. Step(c, p, b)
    BY <2>1, <2>3, <2>4, <2>5 DEF Step
  <2>7. b \in BOOLEAN
    BY DEF b
  <2> QED
    BY <1>3, <2>1, <2>2, <2>6, <2>7 DEF L1AllocClusterLocal, NoV1, V1
<1>4. ASSUME NEW c \in Cores, L1AllocCoreLocal(c) PROVE Goal
  <2> DEFINE p == AlignUp(l1[c], Call(c).align)
             b == p + Call(c).size * NumCompute > End
  <2>1. /\ Len(ptr[c]) < MaxCalls /\ ~trapped[c] /\ Call(c).kind = "core"
    BY <1>4, Numbers DEF L1AllocCoreLocal, Runs, Pc, TypeOK
  <2>2. p \in Nat /\ Call(c).size \in Nat /\ c \in Nat
    BY <1>0, <2>1, CallType, CallFact, AlignUpFact, Numbers
  <2>3. /\ l1' = [l1 EXCEPT ![c] = L1After(Call(c), l1[c])]
        /\ l3' = [l3 EXCEPT ![c] = L3After(Call(c), l3[c])]
        /\ trapped' = [trapped EXCEPT ![c] = b]
    BY <1>0, <1>4, <2>1 DEF L1AllocCoreLocal, L1After, L3After
  <2>4. ~b => L1After(Call(c), l1[c]) <= End
    <3>1. Call(c).size * NumCompute \in Nat
      BY <2>2, Numbers
    <3> QED
      BY <2>1, <2>2, <3>1, Numbers DEF L1After
  <2>5. ptr' = [ptr EXCEPT ![c] = Append(@, p + Call(c).size * c)]
    BY <1>4 DEF L1AllocCoreLocal, Returns
  <2> HIDE DEF b
  <2>6. Step(c, p + Call(c).size * c, b)
    BY <2>1, <2>3, <2>4, <2>5 DEF Step
  <2>7. b \in BOOLEAN
    BY DEF b
  <2>8. p + Call(c).size * c \in Nat
    BY <2>2
  <2> QED
    BY <1>4, <2>1, <2>6, <2>7, <2>8 DEF L1AllocCoreLocal, NoV1, V1
<1>5. ASSUME NEW c \in Cores, L3Alloc(c) PROVE Goal
  <2> DEFINE p == AlignUp(l3[c], Call(c).align)
             b == p + Call(c).size >= L3End
  <2>1. /\ Len(ptr[c]) < MaxCalls /\ ~trapped[c] /\ Call(c).kind = "l3"
    BY <1>5, Numbers DEF L3Alloc, Runs, Pc, TypeOK
  <2>2. p \in Nat /\ Call(c).size \in Nat
    BY <1>0, <2>1, CallType, CallFact, AlignUpFact
  <2>3. /\ l1' = [l1 EXCEPT ![c] = L1After(Call(c), l1[c])]
        /\ l3' = [l3 EXCEPT ![c] = L3After(Call(c), l3[c])]
        /\ trapped' = [trapped EXCEPT ![c] = b]
    BY <1>0, <1>5, <2>1 DEF L3Alloc, L1After, L3After
  <2>4. ~b => L3After(Call(c), l3[c]) < L3End
    BY <2>1, <2>2, Numbers DEF L3After
  <2>5. ptr' = [ptr EXCEPT ![c] = Append(@, p)]
    BY <1>5 DEF L3Alloc, Returns
  <2> HIDE DEF b
  <2>6. Step(c, p, b)
    BY <2>1, <2>3, <2>4, <2>5 DEF Step
  <2>7. b \in BOOLEAN
    BY DEF b
  <2> QED
    BY <1>5, <2>1, <2>2, <2>6, <2>7 DEF L3Alloc, NoV1, V1
<1>6. UNCHANGED vars => prog' = prog /\ Quiet
  BY DEF vars, Quiet
<1>7. prog' = prog
  BY <1>6 DEF Next, L1AllocRead, L1AllocWrite, SkipL1Alloc, L1AllocClusterLocal,
              L1AllocCoreLocal, L3Alloc
<1> HIDE DEF Goal
<1>8. Goal \/ Quiet
  BY <1>1a, <1>1, <1>2, <1>3, <1>4, <1>5, <1>6 DEF Next
<1> QED
  BY <1>7, <1>8 DEF Goal

LEMMA StepFrame ==
    ASSUME TypeOK, NEW c \in Cores, NEW p \in Nat, NEW b \in BOOLEAN, Step(c, p, b)
    PROVE  /\ l1' \in [Cores -> Nat] /\ l3' \in [Cores -> Nat]
           /\ ptr' \in [Cores -> Seq(Nat)] /\ trapped' \in [Cores -> BOOLEAN]
           /\ \A d \in Cores \ {c} : /\ l1'[d] = l1[d] /\ l3'[d] = l3[d]
                                     /\ ptr'[d] = ptr[d] /\ trapped'[d] = trapped[d]
           /\ Len(ptr'[c]) = Len(ptr[c]) + 1 /\ ptr'[c][Len(ptr[c]) + 1] = p
           /\ \A i \in 1..Len(ptr[c]) : ptr'[c][i] = ptr[c][i]
           /\ l1'[c] = L1After(Call(c), l1[c]) /\ l3'[c] = L3After(Call(c), l3[c])
           /\ trapped'[c] = b
<1>1. L1After(Call(c), l1[c]) \in Nat /\ L3After(Call(c), l3[c]) \in Nat
  <2>1. Call(c) \in Calls /\ l1[c] \in Nat /\ l3[c] \in Nat
    BY CallType DEF Step, TypeOK
  <2> QED
    BY <2>1, AfterFact
<1>2. l1' \in [Cores -> Nat] /\ l3' \in [Cores -> Nat]
  BY <1>1 DEF TypeOK, Step
<1>3. ptr' \in [Cores -> Seq(Nat)]
  BY DEF TypeOK, Step
<1>4. trapped' \in [Cores -> BOOLEAN] /\ trapped'[c] = b
  BY DEF TypeOK, Step
<1>5. \A d \in Cores \ {c} : /\ l1'[d] = l1[d] /\ l3'[d] = l3[d]
                             /\ ptr'[d] = ptr[d] /\ trapped'[d] = trapped[d]
  BY DEF TypeOK, Step
<1>6. ptr'[c] = Append(ptr[c], p) /\ ptr[c] \in Seq(Nat)
  BY DEF TypeOK, Step
<1>7. l1'[c] = L1After(Call(c), l1[c]) /\ l3'[c] = L3After(Call(c), l3[c])
  BY DEF TypeOK, Step
<1>8. /\ Len(ptr'[c]) = Len(ptr[c]) + 1 /\ ptr'[c][Len(ptr[c]) + 1] = p
      /\ \A i \in 1..Len(ptr[c]) : ptr'[c][i] = ptr[c][i]
  BY <1>6
<1> QED
  BY <1>2, <1>3, <1>4, <1>5, <1>7, <1>8

(* A step adds one call, of one core. *)
LEMMA Grows ==
    ASSUME TypeOK, NEW c \in Cores, NEW p \in Nat, NEW b \in BOOLEAN, Step(c, p, b)
    PROVE  /\ \A e \in Cores : \A i \in 1..Len(ptr'[e]) :
                 \/ i \in 1..Len(ptr[e]) /\ ptr'[e][i] = ptr[e][i]
                 \/ e = c /\ i = Pc(c) /\ ptr'[e][i] = p
           /\ \A e \in Cores : \A i \in 1..Len(ptr[e]) :
                 i \in 1..Len(ptr'[e]) /\ ptr'[e][i] = ptr[e][i]
           /\ Pc(c) \in 1..Len(ptr'[c]) /\ ptr'[c][Pc(c)] = p
<1>1. PICK m \in Nat : m = Len(ptr[c])
  BY DEF TypeOK
<1>2. /\ Len(ptr'[c]) = m + 1 /\ ptr'[c][m + 1] = p
      /\ \A i \in 1..m : ptr'[c][i] = ptr[c][i]
      /\ \A e \in Cores \ {c} : ptr'[e] = ptr[e]
  BY <1>1, StepFrame
<1>3. Pc(c) = m + 1
  BY <1>1 DEF Pc
<1>4. \A i \in 1..(m + 1) : i \in 1..m \/ i = m + 1
  BY <1>1
<1>5. m + 1 \in 1..(m + 1) /\ \A i \in 1..m : i \in 1..(m + 1)
  BY <1>1
<1> QED
  BY <1>1, <1>2, <1>3, <1>4, <1>5

LEMMA TypeStep ==
    ASSUME TypeOK, [Next]_vars
    PROVE  TypeOK'
<1>1. CASE Quiet
  <2>1. ret' \in [Cores -> Nat \cup {NoRet}]
    BY <1>1 DEF Quiet, Reads, TypeOK
  <2> QED
    BY <1>1, <2>1 DEF Quiet, TypeOK
<1>2. CASE ~Quiet
  <2>1. PICK c \in Cores, p \in Nat, b \in BOOLEAN :
           Step(c, p, b) /\ (NoV1(c) \/ Copies(c, p) \/ Writes(c, p))
    BY <1>2, Steps
  <2>2. v1_next' \in Nat /\ ret' \in [Cores -> Nat \cup {NoRet}]
    <3>1. Call(c).size \in Nat
      BY <2>1, CallType, CallFact DEF Step
    <3>2. AlignUp(Call(c).size, MinChunk) \in Nat
      BY <3>1, AlignUpFact, Numbers
    <3>3. v1_next' \in Nat
      BY <2>1, <3>2 DEF TypeOK, NoV1, Copies, Writes
    <3>4. ret' \in [Cores -> Nat \cup {NoRet}]
      BY <2>1 DEF TypeOK, NoV1, Copies, Writes
    <3> QED
      BY <3>3, <3>4
  <2>3. \A d \in Cores : Len(ptr'[d]) <= MaxCalls
    <3>1. Len(ptr[c]) \in Nat /\ Len(ptr[c]) < MaxCalls
      BY <2>1 DEF Step, TypeOK
    <3>2. Len(ptr'[c]) <= MaxCalls
      BY <2>1, <3>1, StepFrame, Numbers
    <3>3. \A d \in Cores \ {c} : Len(ptr'[d]) <= MaxCalls
      BY <2>1, StepFrame DEF TypeOK
    <3> QED
      BY <3>2, <3>3
  <2> QED
    BY <2>1, <2>2, <2>3, StepFrame, Steps DEF TypeOK
<1> QED
  BY <1>1, <1>2
--------------------------------------------------------------------------------
(* The trace can be extended by the next call of the core furthest ahead. *)
LEMMA Extend ==
    ASSUME TypeOK, OneTrace, NEW c \in Cores, Len(ptr[c]) < MaxCalls
    PROVE  \E n \in 0..MaxCalls : \E f1, f3 \in [0..n -> Nat] :
              Agreed(n, f1, f3) /\ Len(ptr[c]) < n
<1>0a. PICK n \in 0..MaxCalls : \E f1, f3 \in [0..n -> Nat] : Agreed(n, f1, f3)
  BY DEF OneTrace
<1>0. PICK f1 \in [0..n -> Nat], f3 \in [0..n -> Nat] : Agreed(n, f1, f3)
  BY <1>0a
<1>1. /\ n \in Nat /\ MaxCalls \in Nat /\ \A d \in Cores : Len(ptr[d]) \in Nat /\ Len(ptr[d]) <= n
      /\ Trace(n, f1, f3) /\ \A d \in Cores : Follows(d, n, f1, f3)
  <2>1. Trace(n, f1, f3) /\ \A d \in Cores : Follows(d, n, f1, f3)
    BY <1>0 DEF Agreed
  <2>2. \A d \in Cores : Len(ptr[d]) \in Nat
    BY DEF TypeOK
  <2>3. \A d \in Cores : Len(ptr[d]) <= n
    BY <2>1 DEF Follows
  <2> QED
    BY <2>1, <2>2, <2>3, Numbers
<1>2. CASE Len(ptr[c]) < n
  BY <1>0, <1>2
<1>3. CASE ~(Len(ptr[c]) < n)
  <2>1. Len(ptr[c]) = n /\ n + 1 \in 1..MaxCalls /\ n + 1 \in 0..MaxCalls
    BY <1>1, <1>3
  <2> DEFINE call == prog[n + 1]
             g1 == [i \in 0..(n + 1) |-> IF i <= n THEN f1[i] ELSE L1After(call, f1[n])]
             g3 == [i \in 0..(n + 1) |-> IF i <= n THEN f3[i] ELSE L3After(call, f3[n])]
  <2>2. /\ L1After(call, f1[n]) \in Nat /\ f1[n] <= L1After(call, f1[n])
        /\ L3After(call, f3[n]) \in Nat /\ f3[n] <= L3After(call, f3[n])
    <3>1. call \in Calls /\ f1[n] \in Nat /\ f3[n] \in Nat
      BY <1>1, <2>1 DEF TypeOK
    <3> QED
      BY <3>1, AfterFact
  <2>3. /\ g1 \in [0..(n + 1) -> Nat] /\ g3 \in [0..(n + 1) -> Nat]
        /\ \A i \in 0..n : g1[i] = f1[i] /\ g3[i] = f3[i]
        /\ g1[n + 1] = L1After(call, f1[n]) /\ g3[n + 1] = L3After(call, f3[n])
    BY <1>1, <2>2
  <2> HIDE DEF g1, g3
  <2>4. Trace(n + 1, g1, g3)
    <3>1. g1[0] = Base /\ g3[0] = L3Base
      BY <1>1, <2>3 DEF Trace
    <3>2. ASSUME NEW i \in 1..(n + 1)
          PROVE  g1[i] = L1After(prog[i], g1[i - 1]) /\ g3[i] = L3After(prog[i], g3[i - 1])
      <4>1. CASE i = n + 1
        <5>1. i - 1 = n /\ n \in 0..n
          BY <1>1, <4>1
        <5> QED
          BY <2>3, <4>1, <5>1
      <4>2. CASE i # n + 1
        <5>1. i \in 1..n /\ i \in 0..n /\ i - 1 \in 0..n
          BY <1>1, <4>2
        <5> QED
          BY <1>1, <2>3, <5>1 DEF Trace
      <4> QED
        BY <4>1, <4>2
    <3>3. ASSUME NEW i \in 0..(n + 1), NEW j \in 0..(n + 1), i <= j
          PROVE  g1[i] <= g1[j] /\ g3[i] <= g3[j]
      <4>1. CASE j \in 0..n
        <5>1. i \in 0..n
          BY <1>1, <3>3, <4>1
        <5> QED
          BY <1>1, <2>3, <3>3, <4>1, <5>1 DEF Trace
      <4>2. CASE i \in 0..n /\ j = n + 1
        <5>1. n \in 0..n /\ i <= n
          BY <1>1, <4>2
        <5>2. f1[i] <= f1[n] /\ f3[i] <= f3[n]
          BY <1>1, <4>2, <5>1 DEF Trace
        <5>3. f1[i] \in Nat /\ f1[n] \in Nat /\ f3[i] \in Nat /\ f3[n] \in Nat
          BY <4>2, <5>1
        <5> QED
          BY <2>2, <2>3, <4>2, <5>2, <5>3
      <4>3. CASE i = n + 1 /\ j = n + 1
        BY <2>2, <2>3, <4>3
      <4> QED
        BY <1>1, <3>3, <4>1, <4>2, <4>3
    <3> QED
      BY <3>1, <3>2, <3>3 DEF Trace
  <2>5. ASSUME NEW d \in Cores PROVE Follows(d, n + 1, g1, g3)
    <3>1. /\ Follows(d, n, f1, f3) /\ Len(ptr[d]) \in 0..n /\ Len(ptr[d]) <= n + 1
      BY <1>1
    <3>2. \A i \in 1..Len(ptr[d]) : i \in 0..n /\ i - 1 \in 0..n
      BY <1>1, <3>1
    <3>3. \A i \in 1..Len(ptr[d]) : Returned(d, i, g1, g3)
      BY <2>3, <3>1, <3>2 DEF Follows, Returned
    <3>4. \A i \in Done(d) : i \in 1..Len(ptr[d])
      BY <3>1 DEF Done
    <3>5. \A i \in Done(d) : InBounds(i, g1, g3)
      BY <2>3, <3>1, <3>2, <3>4 DEF Follows, InBounds
    <3> QED
      BY <2>3, <3>1, <3>3, <3>5 DEF Follows
  <2>6. Agreed(n + 1, g1, g3) /\ Len(ptr[c]) < n + 1
    BY <1>1, <2>1, <2>4, <2>5 DEF Agreed
  <2> QED
    BY <2>1, <2>3, <2>6
<1> QED
  BY <1>2, <1>3

LEMMA TraceStep ==
    ASSUME TypeOK, OneTrace, [Next]_vars
    PROVE  OneTrace'
<1>1. CASE Quiet
  <2>1. UNCHANGED <<prog, l1, l3, ptr, trapped>>
    BY <1>1 DEF Quiet
  <2>2. ASSUME NEW n, NEW f1, NEW f3, Agreed(n, f1, f3) PROVE Agreed(n, f1, f3)'
    BY <2>1, <2>2 DEF Agreed, Trace, Follows, Returned, InBounds, Done
  <2> QED
    BY <2>2 DEF OneTrace
<1>2. CASE ~Quiet
  <2>1. PICK c \in Cores, p \in Nat, b \in BOOLEAN : Step(c, p, b)
    BY <1>2, Steps
  <2>2. prog' = prog /\ Len(ptr[c]) < MaxCalls
    BY <2>1, Steps DEF Step
  <2>3a. PICK n \in 0..MaxCalls :
           \E f1, f3 \in [0..n -> Nat] : Agreed(n, f1, f3) /\ Len(ptr[c]) < n
    BY <2>2, Extend
  <2>3. PICK f1 \in [0..n -> Nat], f3 \in [0..n -> Nat] : Agreed(n, f1, f3) /\ Len(ptr[c]) < n
    BY <2>3a
  <2>3b. PICK m \in Nat : m = Len(ptr[c])
    BY DEF TypeOK
  <2>4. m \in Nat /\ n \in Nat /\ m + 1 \in 1..n /\ m \in 0..n /\ m + 1 - 1 = m
    BY <2>2, <2>3, <2>3b, Numbers
  <2>5. /\ Len(ptr'[c]) = m + 1 /\ ptr'[c][m + 1] = p
        /\ \A i \in 1..m : ptr'[c][i] = ptr[c][i]
        /\ l1'[c] = L1After(Call(c), l1[c]) /\ l3'[c] = L3After(Call(c), l3[c])
        /\ trapped'[c] = b
        /\ \A d \in Cores \ {c} : /\ l1'[d] = l1[d] /\ l3'[d] = l3[d]
                                  /\ ptr'[d] = ptr[d] /\ trapped'[d] = trapped[d]
    BY <2>1, <2>3b, StepFrame
  <2>6. Call(c) = prog[m + 1]
    BY <2>3b DEF Call, Pc
  <2>7. l1[c] = f1[m] /\ l3[c] = f3[m] /\ Follows(c, n, f1, f3) /\ Trace(n, f1, f3)
    BY <2>3, <2>3b DEF Agreed, Follows
  <2>8. l1'[c] = f1[m + 1] /\ l3'[c] = f3[m + 1]
    <3>1. \A i \in 1..n : /\ f1[i] = L1After(prog[i], f1[i - 1])
                          /\ f3[i] = L3After(prog[i], f3[i - 1])
      BY <2>7 DEF Trace
    <3>2. PICK i \in 1..n : i = m + 1 /\ i - 1 = m
      BY <2>4
    <3>3. f1[i] = L1After(prog[i], f1[m]) /\ f3[i] = L3After(prog[i], f3[m])
      BY <3>1, <3>2
    <3> QED
      BY <2>5, <2>6, <2>7, <3>2, <3>3
  <2>9. \A i \in 1..(m + 1) : Returned(c, i, f1, f3)'
    <3>1. Returned(c, m + 1, f1, f3)'
      <4>1. PICK i \in 1..n : i = m + 1 /\ i - 1 = m
        BY <2>4
      <4>2. /\ prog'[i] = Call(c) /\ ptr'[c][i] = p
            /\ f1[i - 1] = l1[c] /\ f3[i - 1] = l3[c]
        BY <2>2, <2>5, <2>6, <2>7, <4>1
      <4>3. Returned(c, i, f1, f3)'
        BY <2>1, <4>2 DEF Step, Returned
      <4> QED
        BY <4>1, <4>3
    <3>2. ASSUME NEW i \in 1..m PROVE Returned(c, i, f1, f3)'
      <4>1. Returned(c, i, f1, f3)
        BY <2>7, <2>3b DEF Follows
      <4> QED
        BY <2>2, <2>5, <4>1 DEF Returned
    <3> QED
      BY <2>4, <3>1, <3>2
  <2>10. \A i \in Done(c)' : InBounds(i, f1, f3)'
    <3>1. ~trapped[c] /\ Done(c) = 1..m
      BY <2>1, <2>3b DEF Step, Done
    <3>2. ASSUME NEW i \in 1..m PROVE InBounds(i, f1, f3)'
      BY <2>2, <2>7, <3>1 DEF Follows, InBounds
    <3>3. ~b => InBounds(m + 1, f1, f3)'
      BY <2>1, <2>2, <2>4, <2>5, <2>6, <2>8 DEF Step, InBounds
    <3>4. Done(c)' = 1..(IF b THEN m ELSE m + 1)
      <4>1. Done(c)' = 1..(IF trapped'[c] THEN Len(ptr'[c]) - 1 ELSE Len(ptr'[c]))
        BY DEF Done
      <4>2. Len(ptr'[c]) - 1 = m
        BY <2>4, <2>5
      <4> QED
        BY <2>5, <4>1, <4>2
    <3> QED
      BY <2>4, <3>2, <3>3, <3>4
  <2>11. Follows(c, n, f1, f3)'
    BY <2>4, <2>5, <2>8, <2>9, <2>10 DEF Follows
  <2>12. ASSUME NEW d \in Cores \ {c} PROVE Follows(d, n, f1, f3)'
    <3>1. Follows(d, n, f1, f3)
      BY <2>3 DEF Agreed
    <3> QED
      BY <2>2, <2>5, <3>1 DEF Follows, Returned, InBounds, Done
  <2>13. Trace(n, f1, f3)'
    BY <2>2, <2>7 DEF Trace
  <2>14. Agreed(n, f1, f3)'
    BY <2>11, <2>12, <2>13 DEF Agreed
  <2> QED
    BY <2>14 DEF OneTrace
<1> QED
  BY <1>1, <1>2

LEMMA PublishedStep ==
    ASSUME TypeOK, Published, Reading, [Next]_vars
    PROVE  Published'
<1>1. CASE Quiet
  BY <1>1 DEF Quiet, Published
<1>2. CASE ~Quiet
  <2>1. PICK c \in Cores, p \in Nat, b \in BOOLEAN :
           Step(c, p, b) /\ (NoV1(c) \/ Copies(c, p) \/ Writes(c, p))
    BY <1>2, Steps
  <2>2. prog' = prog
    BY Steps
  <2>3. ASSUME NEW e \in Cores, NEW i \in 1..Len(ptr'[e]), prog[i].kind \in V1
        PROVE  /\ i \in 1..Len(ptr'[Caller(prog[i])])
               /\ ptr'[e][i] = ptr'[Caller(prog[i])][i]
    <3> DEFINE k == Caller(prog[i])
    <3>0. k \in Cores
      BY CallerCore
    <3>1. CASE i \in 1..Len(ptr[e]) /\ ptr'[e][i] = ptr[e][i]
      <4>1. i <= Len(ptr[k]) /\ ptr[e][i] = ptr[k][i]
        BY <2>3, <3>1 DEF Published
      <4>2. i \in 1..Len(ptr[k])
        BY <3>0, <3>1, <4>1 DEF TypeOK
      <4>3. i \in 1..Len(ptr'[k]) /\ ptr'[k][i] = ptr[k][i]
        BY <2>1, <3>0, <4>2, Grows
      <4> QED
        BY <3>1, <4>1, <4>3
    <3>2. CASE e = c /\ i = Pc(c) /\ ptr'[e][i] = p
      <4>1. prog[i] = Call(c) /\ i \in 1..MaxCalls
        BY <2>1, <3>2, CallType DEF Call, Step
      <4>2. CASE Copies(c, p)
        <5>1. k # c /\ i <= Len(ptr[k]) /\ p = ptr[k][i]
          BY <3>2, <4>1, <4>2 DEF Copies
        <5>2. i \in 1..Len(ptr[k])
          BY <3>0, <4>1, <5>1, Numbers DEF TypeOK
        <5>3. i \in 1..Len(ptr'[k]) /\ ptr'[k][i] = ptr[k][i]
          BY <2>1, <3>0, <5>2, Grows
        <5> QED
          BY <3>2, <5>1, <5>3
      <4>3. CASE Writes(c, p)
        <5>1. k = c
          BY <4>1, <4>3 DEF Writes, Reading
        <5> QED
          BY <3>2, <5>1
      <4>4. ~NoV1(c)
        BY <2>3, <4>1 DEF NoV1
      <4> QED
        BY <2>1, <4>2, <4>3, <4>4
    <3> HIDE DEF k
    <3> QED
      BY <2>1, <3>1, <3>2, Grows
  <2>4. ASSUME NEW e \in Cores, NEW i \in 1..Len(ptr'[e]), prog'[i].kind \in V1
        PROVE  i <= Len(ptr'[Caller(prog'[i])]) /\ ptr'[e][i] = ptr'[Caller(prog'[i])][i]
    <3> DEFINE k == Caller(prog[i])
    <3>1. i \in 1..Len(ptr'[k]) /\ ptr'[e][i] = ptr'[k][i]
      BY <2>2, <2>3, <2>4
    <3>2. k \in Cores /\ TypeOK'
      BY CallerCore, TypeStep
    <3> HIDE DEF k
    <3>3. i <= Len(ptr'[k])
      BY <3>1, <3>2 DEF TypeOK
    <3> QED
      BY <2>2, <3>1, <3>3 DEF k
  <2> QED
    BY <2>4 DEF Published, Caller
<1> QED
  BY <1>1, <1>2

(* Two cores are never in snrt_l1_alloc at the same time: the one behind waits
   for the pointer of the call the other is in, or has it. *)
LEMMA OneReader ==
    ASSUME TypeOK, Published, Reading, NEW c \in Cores, NEW d \in Cores,
           ret[c] # NoRet, ret[d] # NoRet
    PROVE  c = d
<1>1. /\ Len(ptr[c]) < MaxCalls /\ Call(c).kind \in V1 /\ c = Caller(Call(c))
      /\ Len(ptr[d]) < MaxCalls /\ Call(d).kind \in V1 /\ d = Caller(Call(d))
  BY DEF Reading
<1>2. Len(ptr[c]) \in Nat /\ Len(ptr[d]) \in Nat
  BY DEF TypeOK
<1>3. ASSUME NEW e \in Cores, NEW f \in Cores, Len(ptr[e]) < Len(ptr[f]),
             Len(ptr[e]) \in Nat, Len(ptr[f]) \in Nat,
             Call(e).kind \in V1, e = Caller(Call(e))
      PROVE  FALSE
  <2>1. Pc(e) \in 1..Len(ptr[f])
    BY <1>3 DEF Pc
  <2>2. Pc(e) <= Len(ptr[Caller(Call(e))])
    BY <1>3, <2>1 DEF Published, Call
  <2>3. Pc(e) <= Len(ptr[e])
    BY <1>3, <2>2
  <2> QED
    BY <1>3, <2>3 DEF Pc
<1>4. Len(ptr[c]) = Len(ptr[d])
  BY <1>1, <1>2, <1>3
<1>5. Call(c) = Call(d)
  BY <1>4 DEF Call, Pc
<1> QED
  BY <1>1, <1>5

LEMMA ReadingStep ==
    ASSUME TypeOK, Published, Reading, [Next]_vars
    PROVE  Reading'
<1>1. CASE Quiet
  <2>1. ASSUME NEW d \in Cores
        PROVE  Len(ptr'[d]) = Len(ptr[d]) /\ Call(d)' = Call(d)
    BY <1>1 DEF Quiet, Call, Pc
  <2>2. CASE ret' = ret
    BY <1>1, <2>1, <2>2 DEF Quiet, Reading, Caller
  <2>3. CASE \E c \in Cores : Reads(c)
    <3>1. PICK c \in Cores : Reads(c)
      BY <2>3
    <3>2. ASSUME NEW d \in Cores, ret'[d] # NoRet
          PROVE  /\ ret'[d] = v1_next /\ Len(ptr[d]) < MaxCalls
                 /\ Call(d).kind \in V1 /\ d = Caller(Call(d))
      <4>1. CASE d = c
        BY <3>1, <4>1 DEF Reads, TypeOK
      <4>2. CASE d # c
        <5>1. ret'[d] = ret[d]
          BY <3>1, <4>2 DEF Reads, TypeOK
        <5> QED
          BY <3>2, <5>1 DEF Reading
      <4> QED
        BY <4>1, <4>2
    <3> QED
      BY <1>1, <2>1, <3>2 DEF Quiet, Reading, Caller
  <2> QED
    BY <1>1, <2>2, <2>3 DEF Quiet
<1>2. CASE ~Quiet
  <2>1. PICK c \in Cores, p \in Nat, b \in BOOLEAN :
           Step(c, p, b) /\ (NoV1(c) \/ Copies(c, p) \/ Writes(c, p))
    BY <1>2, Steps
  <2>2. ASSUME NEW d \in Cores, ret'[d] # NoRet
        PROVE  d # c /\ ret'[d] = ret[d] /\ v1_next' = v1_next
    <3>1. CASE NoV1(c) \/ Copies(c, p)
      <4>1. ret' = ret /\ v1_next' = v1_next
        BY <3>1 DEF NoV1, Copies
      <4>2. ret[c] = NoRet
        BY <3>1 DEF NoV1, Copies, Reading
      <4> QED
        BY <2>2, <4>1, <4>2
    <3>2. CASE Writes(c, p)
      <4>1. ret'[c] = NoRet /\ \A e \in Cores \ {c} : ret'[e] = ret[e]
        BY <3>2 DEF Writes, TypeOK
      <4>2. d # c /\ ret[d] # NoRet /\ ret[c] # NoRet
        BY <2>2, <3>2, <4>1 DEF Writes
      <4> QED
        BY <4>2, OneReader
    <3> QED
      BY <2>1, <3>1, <3>2
  <2>3. ASSUME NEW d \in Cores, ret'[d] # NoRet
        PROVE  /\ ret'[d] = v1_next' /\ Len(ptr'[d]) < MaxCalls
               /\ Call(d)'.kind \in V1 /\ d = Caller(Call(d)')
    <3>1. d # c /\ ret'[d] = ret[d] /\ v1_next' = v1_next
      BY <2>2, <2>3
    <3>2. ptr'[d] = ptr[d] /\ prog' = prog
      BY <2>1, <3>1, StepFrame, Steps
    <3>3. Call(d)' = Call(d)
      BY <3>2 DEF Call, Pc
    <3> QED
      BY <2>3, <3>1, <3>2, <3>3 DEF Reading
  <2> QED
    BY <2>3 DEF Reading, Caller
<1> QED
  BY <1>1, <1>2

LEMMA V1Step ==
    ASSUME TypeOK, Published, Reading, V1Right, [Next]_vars
    PROVE  V1Right'
<1>1. CASE Quiet
  BY <1>1 DEF Quiet, V1Right
<1>2. CASE ~Quiet
  <2>1. PICK c \in Cores, p \in Nat, b \in BOOLEAN :
           Step(c, p, b) /\ (NoV1(c) \/ Copies(c, p) \/ Writes(c, p))
    BY <1>2, Steps
  <2>2. prog' = prog /\ TypeOK' /\ Pc(c) \in 1..MaxCalls /\ Call(c) = prog[Pc(c)]
    BY <2>1, Steps, TypeStep, CallType DEF Step, Call
  <2> DEFINE Old(e, i) == i \in 1..Len(ptr[e]) /\ ptr'[e][i] = ptr[e][i]
             New(e, i) == e = c /\ i = Pc(c) /\ ptr'[e][i] = p
  <2>3. \A e \in Cores : \A i \in 1..Len(ptr'[e]) : Old(e, i) \/ New(e, i)
    BY <2>1, Grows
  <2>4. v1_next \in Nat /\ v1_next' \in Nat /\ v1_next <= v1_next'
        /\ (Writes(c, p) => p = v1_next /\ p + Call(c).size <= v1_next')
    <3>1. Call(c).size \in Nat
      BY <2>1, CallType, CallFact DEF Step
    <3>2. /\ AlignUp(Call(c).size, MinChunk) \in Nat
          /\ Call(c).size <= AlignUp(Call(c).size, MinChunk)
      BY <3>1, AlignUpFact, Numbers
    <3>3. v1_next \in Nat /\ v1_next' \in Nat
      BY <2>2 DEF TypeOK
    <3>4. CASE Writes(c, p)
      <4>1. p = v1_next /\ v1_next' = v1_next + AlignUp(Call(c).size, MinChunk)
        BY <3>4 DEF Writes, Reading
      <4> QED
        BY <3>1, <3>2, <3>3, <4>1
    <3>5. CASE NoV1(c) \/ Copies(c, p)
      <4>1. v1_next' = v1_next
        BY <3>5 DEF NoV1, Copies
      <4>2. ~Writes(c, p)
        BY <3>5 DEF NoV1, Copies, Writes, Reading
      <4> QED
        BY <3>3, <4>1, <4>2
    <3> QED
      BY <2>1, <3>4, <3>5
  <2>5. ASSUME NEW e \in Cores, NEW i \in 1..Len(ptr'[e])
        PROVE  i \in 1..MaxCalls /\ ptr'[e][i] \in Nat /\ prog[i].size \in Nat
    <3>1. ptr'[e] \in Seq(Nat) /\ Len(ptr'[e]) <= MaxCalls /\ Len(ptr'[e]) \in Nat
      BY <2>2 DEF TypeOK
    <3>2. i \in 1..MaxCalls /\ ptr'[e][i] \in Nat
      BY <3>1, Numbers
    <3> QED
      BY <3>2, CallFact DEF TypeOK
  (* A call that copies the pointer has the chunk of its caller. *)
  <2>6. ASSUME Copies(c, p)
        PROVE  \E k \in Cores : Pc(c) \in 1..Len(ptr[k]) /\ p = ptr[k][Pc(c)]
    <3> DEFINE k == Caller(Call(c))
    <3>1. k \in Cores /\ Pc(c) <= Len(ptr[k]) /\ p = ptr[k][Pc(c)]
      BY <2>6, CallerCore DEF Copies
    <3> HIDE DEF k
    <3>2. Pc(c) \in 1..Len(ptr[k])
      BY <2>2, <3>1, Numbers DEF TypeOK
    <3> QED
      BY <3>1, <3>2
  <2>7. ASSUME NEW e \in Cores, NEW i \in 1..Len(ptr'[e]), prog[i].kind \in V1
        PROVE  \/ Writes(c, p) /\ New(e, i)
               \/ \E k \in Cores : i \in 1..Len(ptr[k]) /\ ptr'[e][i] = ptr[k][i]
    <3>1. CASE Old(e, i)
      BY <3>1
    <3>2. CASE New(e, i)
      <4>1. ~NoV1(c)
        BY <2>2, <2>7, <3>2 DEF NoV1
      <4> QED
        BY <2>1, <2>6, <3>2, <4>1
    <3> QED
      BY <2>3, <3>1, <3>2
  <2> HIDE DEF Old
  <2>8. ASSUME NEW e \in Cores, NEW i \in 1..Len(ptr'[e]), prog[i].kind \in V1
        PROVE  ptr'[e][i] + prog[i].size <= v1_next'
    <3>0. ptr'[e][i] \in Nat /\ prog[i].size \in Nat
      BY <2>5
    <3>1. CASE Writes(c, p) /\ New(e, i)
      BY <2>2, <2>4, <3>1
    <3>2. CASE \E k \in Cores : i \in 1..Len(ptr[k]) /\ ptr'[e][i] = ptr[k][i]
      <4>1. ptr'[e][i] + prog[i].size <= v1_next
        BY <2>8, <3>2 DEF V1Right
      <4> QED
        BY <2>4, <3>0, <4>1
    <3> QED
      BY <2>7, <2>8, <3>1, <3>2
  <2>9. ASSUME NEW e \in Cores, NEW i \in 1..Len(ptr'[e]), prog[i].kind \in V1,
               NEW f \in Cores, NEW j \in 1..Len(ptr'[f]), prog[j].kind \in V1, i < j
        PROVE  ptr'[e][i] + prog[i].size <= ptr'[f][j]
    <3>1. CASE \E k \in Cores : i \in 1..Len(ptr[k]) /\ ptr'[e][i] = ptr[k][i]
      <4>1. PICK k \in Cores : i \in 1..Len(ptr[k]) /\ ptr'[e][i] = ptr[k][i]
        BY <3>1
      <4>2. CASE Writes(c, p) /\ New(f, j)
        <5>1. ptr[k][i] + prog[i].size <= v1_next
          BY <2>9, <4>1 DEF V1Right
        <5> QED
          BY <2>4, <4>1, <4>2, <5>1
      <4>3. CASE \E l \in Cores : j \in 1..Len(ptr[l]) /\ ptr'[f][j] = ptr[l][j]
        BY <2>9, <4>1, <4>3 DEF V1Right
      <4> QED
        BY <2>7, <2>9, <4>2, <4>3
    (* Nobody has passed the call that is being served. *)
    <3>2. CASE Writes(c, p) /\ New(e, i)
      <4>1. c = Caller(prog[i]) /\ i = Pc(c)
        BY <2>2, <3>2 DEF Writes, Reading
      <4>2. ASSUME NEW k \in Cores, j \in 1..Len(ptr[k]) PROVE FALSE
        <5>1. i \in 1..Len(ptr[k])
          BY <2>5, <2>9, <4>2 DEF TypeOK
        <5>2. i <= Len(ptr[c])
          BY <2>9, <4>1, <5>1 DEF Published
        <5>3. Len(ptr[c]) \in Nat
          BY DEF TypeOK
        <5> QED
          BY <4>1, <5>2, <5>3 DEF Pc
      <4>3. ~New(f, j)
        BY <2>5, <2>9, <3>2
      <4> QED
        BY <2>7, <2>9, <4>2, <4>3
    <3> QED
      BY <2>7, <2>9, <3>1, <3>2
  <2> QED
    BY <2>2, <2>8, <2>9 DEF V1Right
<1> QED
  BY <1>1, <1>2

(* The cores are at different calls, but of one trace. *)
THEOREM HeapInvariant == Spec => []IInv
<1>1. Init => IInv
  <2> SUFFICES ASSUME Init PROVE IInv
    OBVIOUS
  <2>0. /\ l1 = [c \in Cores |-> Base] /\ l3 = [c \in Cores |-> L3Base]
        /\ ptr = [c \in Cores |-> <<>>] /\ trapped = [c \in Cores |-> FALSE]
        /\ prog \in [1..MaxCalls -> Calls] /\ v1_next = Base
        /\ ret = [c \in Cores |-> NoRet]
    BY DEF Init
  <2>1. \A c \in Cores : Len(ptr[c]) = 0 /\ ~trapped[c]
    BY <2>0
  <2>2. TypeOK
    BY <2>0, <2>1, Numbers DEF TypeOK
  <2>3. OneTrace
    <3> DEFINE f1 == [i \in 0..0 |-> Base]
               f3 == [i \in 0..0 |-> L3Base]
    <3>1. f1 \in [0..0 -> Nat] /\ f3 \in [0..0 -> Nat] /\ f1[0] = Base /\ f3[0] = L3Base
      BY Numbers
    <3> HIDE DEF f1, f3
    <3>2. Trace(0, f1, f3)
      BY <3>1, Numbers DEF Trace
    <3>3. ASSUME NEW c \in Cores PROVE Follows(c, 0, f1, f3)
      BY <2>0, <2>1, <3>1 DEF Follows, Done
    <3>4. Agreed(0, f1, f3)
      BY <3>2, <3>3 DEF Agreed
    <3>5. 0 \in 0..MaxCalls
      BY Numbers
    <3>6. \E g1, g3 \in [0..0 -> Nat] : Agreed(0, g1, g3)
      BY <3>1, <3>4
    <3> QED
      BY <3>5, <3>6, Zenon DEF OneTrace
  <2>4. Published /\ Reading /\ V1Right
    BY <2>0, <2>1 DEF Published, Reading, V1Right
  <2>5. OneKind
    BY DEF Init, OneKind
  <2> QED
    BY <2>2, <2>3, <2>4, <2>5 DEF IInv
<1>2. IInv /\ [Next]_vars => IInv'
  <2> SUFFICES ASSUME IInv, [Next]_vars PROVE IInv'
    OBVIOUS
  <2>1. TypeOK /\ OneTrace /\ Published /\ Reading /\ V1Right /\ OneKind /\ prog' = prog
    BY Steps DEF IInv
  <2>2. OneKind'
    BY <2>1 DEF OneKind
  <2> QED
    BY <2>1, <2>2, TypeStep, TraceStep, PublishedStep, ReadingStep, V1Step DEF IInv
<1> QED
  BY <1>1, <1>2, PTL DEF Spec
--------------------------------------------------------------------------------
LEMMA Intervals ==
    ASSUME NEW x \in Nat, NEW s \in Nat, NEW lo \in Nat, NEW hi \in Nat, lo <= x, x + s <= hi
    PROVE  x..(x + s - 1) \subseteq lo..(hi - 1)
OBVIOUS

(* A chunk lies between the next pointers before and after its call. *)
LEMMA ChunkPlace ==
    ASSUME TypeOK, NEW n \in 0..MaxCalls, NEW f1 \in [0..n -> Nat], NEW f3 \in [0..n -> Nat],
           Agreed(n, f1, f3), NEW c \in Cores, NEW i \in 1..Len(ptr[c])
    PROVE  /\ i \in 1..n /\ i \in 1..MaxCalls /\ i \in 0..n /\ i - 1 \in 0..n
           /\ f1[i] \in Nat /\ f1[i - 1] \in Nat /\ f3[i] \in Nat /\ f3[i - 1] \in Nat
           /\ prog[i].kind \in Kinds /\ prog[i].size \in Nat \ {0}
           /\ prog[i].kind \in {"cluster", "core"} => Bytes(c, i) \subseteq f1[i - 1]..(f1[i] - 1)
           /\ prog[i].kind = "l3" => Bytes(c, i) \subseteq f3[i - 1]..(f3[i] - 1)
<1>1. /\ Len(ptr[c]) <= n /\ Returned(c, i, f1, f3)
      /\ f1[i] = L1After(prog[i], f1[i - 1]) /\ f3[i] = L3After(prog[i], f3[i - 1])
  <2>1. Follows(c, n, f1, f3) /\ Trace(n, f1, f3)
    BY DEF Agreed
  <2>2. Len(ptr[c]) <= n /\ Returned(c, i, f1, f3)
    BY <2>1 DEF Follows
  <2>3. i \in 1..n
    BY <2>2 DEF TypeOK
  <2> QED
    BY <2>1, <2>2, <2>3 DEF Trace
<1>2. i \in 1..n /\ i \in 1..MaxCalls /\ i \in 0..n /\ i - 1 \in 0..n
  BY <1>1, Numbers DEF TypeOK
<1>3. f1[i] \in Nat /\ f1[i - 1] \in Nat /\ f3[i] \in Nat /\ f3[i - 1] \in Nat
  BY <1>2
<1>4. prog[i].kind \in Kinds /\ prog[i].size \in Nat \ {0} /\ prog[i].align \in Nat \ {0}
  BY <1>2, CallFact DEF TypeOK
<1> DEFINE p1 == AlignUp(f1[i - 1], prog[i].align)
           p3 == AlignUp(f3[i - 1], prog[i].align)
           sz == prog[i].size
<1>5. p1 \in Nat /\ f1[i - 1] <= p1 /\ p3 \in Nat /\ f3[i - 1] <= p3 /\ sz \in Nat
  BY <1>3, <1>4, AlignUpFact
<1>6. CASE prog[i].kind = "cluster"
  <2>1. ptr[c][i] = p1 /\ f1[i] = p1 + sz
    BY <1>1, <1>6 DEF Returned, L1After
  <2>2. Bytes(c, i) = ptr[c][i]..(ptr[c][i] + sz - 1)
    BY <1>6 DEF Bytes
  <2> HIDE DEF p1, p3, sz
  <2>3. Bytes(c, i) \subseteq f1[i - 1]..(f1[i] - 1)
    <3> DEFINE x == ptr[c][i]
               lo == f1[i - 1]
               hi == f1[i]
    <3>1. x \in Nat /\ lo \in Nat /\ hi \in Nat /\ lo <= x /\ x + sz <= hi
      BY <1>3, <1>5, <2>1
    <3>2. Bytes(c, i) = x..(x + sz - 1)
      BY <2>2
    <3> HIDE DEF x, lo, hi
    <3>3. x..(x + sz - 1) \subseteq lo..(hi - 1)
      BY <1>5, <3>1, Intervals
    <3> QED
      BY <3>2, <3>3 DEF lo, hi
  <2> QED
    BY <1>2, <1>3, <1>4, <1>6, <2>3
<1>7. CASE prog[i].kind = "core"
  <2>1. ptr[c][i] = p1 + sz * c /\ f1[i] = p1 + sz * NumCompute
    BY <1>1, <1>7 DEF Returned, L1After
  <2>2. CASE c \in Compute
    <3>1. Bytes(c, i) = ptr[c][i]..(ptr[c][i] + sz - 1)
      BY <1>7, <2>2 DEF Bytes
    <3>2. sz \in Nat /\ c \in Nat /\ c + 1 <= NumCompute
      BY <1>4, <2>2, Numbers DEF Compute
    <3> HIDE DEF p1, p3, sz
    <3>3. sz * c \in Nat /\ sz * NumCompute \in Nat /\ sz * c + sz <= sz * NumCompute
      <4>1. sz * (c + 1) <= sz * NumCompute
        BY <3>2, Numbers
      <4> QED
        BY <3>2, <4>1, Numbers
    <3>4. Bytes(c, i) \subseteq f1[i - 1]..(f1[i] - 1)
      <4> DEFINE x == ptr[c][i]
                 lo == f1[i - 1]
                 hi == f1[i]
      <4>1. x = p1 + sz * c /\ hi = p1 + sz * NumCompute /\ lo \in Nat /\ lo <= p1 /\ p1 \in Nat
        BY <1>3, <1>5, <2>1
      <4>2. Bytes(c, i) = x..(x + sz - 1)
        BY <3>1
      <4> HIDE DEF x, lo, hi
      <4>3. x \in Nat /\ hi \in Nat /\ lo <= x /\ x + sz <= hi
        <5>1. PICK u \in Nat, v \in Nat : u = sz * c /\ v = sz * NumCompute /\ u + sz <= v
          BY <3>3
        <5>2. x = p1 + u /\ hi = p1 + v
          BY <4>1, <5>1
        <5>3. lo \in Nat /\ lo <= p1 /\ p1 \in Nat
          BY <4>1
        <5>4. sz \in Nat /\ u \in Nat /\ v \in Nat /\ u + sz <= v
          BY <3>2, <5>1
        <5>5. x \in Nat /\ hi \in Nat
          BY <5>2, <5>3, <5>4
        <5>6. lo <= x /\ x + sz <= hi
          BY <5>2, <5>3, <5>4
        <5> QED
          BY <5>5, <5>6
      <4>4. x..(x + sz - 1) \subseteq lo..(hi - 1)
        BY <3>2, <4>1, <4>3, Intervals
      <4> QED
        BY <4>2, <4>4 DEF lo, hi
    <3> QED
      BY <1>2, <1>3, <1>4, <1>7, <3>4
  <2>3. CASE c \notin Compute
    <3>1. Bytes(c, i) = {}
      BY <1>7, <2>3 DEF Bytes
    <3> QED
      BY <1>2, <1>3, <1>4, <1>7, <3>1
  <2> QED
    BY <2>2, <2>3
<1>8. CASE prog[i].kind = "l3"
  <2>1. ptr[c][i] = p3 /\ f3[i] = p3 + sz
    BY <1>1, <1>8 DEF Returned, L3After
  <2>2. Bytes(c, i) = ptr[c][i]..(ptr[c][i] + sz - 1)
    BY <1>8 DEF Bytes
  <2> HIDE DEF p1, p3, sz
  <2>3. Bytes(c, i) \subseteq f3[i - 1]..(f3[i] - 1)
    <3> DEFINE x == ptr[c][i]
               lo == f3[i - 1]
               hi == f3[i]
    <3>1. x \in Nat /\ lo \in Nat /\ hi \in Nat /\ lo <= x /\ x + sz <= hi
      BY <1>3, <1>5, <2>1
    <3>2. Bytes(c, i) = x..(x + sz - 1)
      BY <2>2
    <3> HIDE DEF x, lo, hi
    <3>3. x..(x + sz - 1) \subseteq lo..(hi - 1)
      BY <1>5, <3>1, Intervals
    <3> QED
      BY <3>2, <3>3 DEF lo, hi
  <2> QED
    BY <1>2, <1>3, <1>4, <1>8, <2>3
<1>9. CASE prog[i].kind \in V1
  BY <1>2, <1>3, <1>4, <1>9 DEF V1
<1> QED
  BY <1>4, <1>6, <1>7, <1>8, <1>9 DEF Kinds

LEMMA DoneFact ==
    ASSUME TypeOK, NEW c \in Cores, NEW i \in Done(c)
    PROVE  i \in 1..Len(ptr[c]) /\ Len(ptr[c]) \in Nat
BY DEF TypeOK, Done

LEMMA Narrow ==
    ASSUME NEW a \in Nat, NEW b \in Nat, NEW x \in Nat, NEW y \in Nat, a <= x, y <= b
    PROVE  x..(y - 1) \subseteq a..(b - 1)
OBVIOUS

(* A chunk that alloc_v2.h returns without a trap lies within its heap: the
   next pointers only grow from the base, and the check of the bounds is made on
   the next pointer after the call. *)
THEOREM ChunksStayInHeap == Spec => []ChunksInHeap
<1>1. IInv => ChunksInHeap
  <2> SUFFICES ASSUME IInv PROVE ChunksInHeap
    OBVIOUS
  <2>0. TypeOK /\ OneTrace
    BY DEF IInv
  <2>1. PICK n \in 0..MaxCalls : \E f1, f3 \in [0..n -> Nat] : Agreed(n, f1, f3)
    BY <2>0 DEF OneTrace
  <2>2. PICK f1 \in [0..n -> Nat], f3 \in [0..n -> Nat] : Agreed(n, f1, f3)
    BY <2>1
  <2>3. ASSUME NEW c \in Cores, NEW i \in Done(c)
        PROVE  /\ prog[i].kind \in Kinds
               /\ prog[i].kind \in {"cluster", "core"} => Bytes(c, i) \subseteq Base..(End - 1)
               /\ prog[i].kind = "l3" => Bytes(c, i) \subseteq L3Base..(L3End - 1)
    <3>1. i \in 1..Len(ptr[c])
      BY <2>0, DoneFact
    <3>2. /\ i \in 0..n /\ i - 1 \in 0..n
          /\ f1[i] \in Nat /\ f1[i - 1] \in Nat /\ f3[i] \in Nat /\ f3[i - 1] \in Nat
          /\ prog[i].kind \in Kinds
          /\ prog[i].kind \in {"cluster", "core"} => Bytes(c, i) \subseteq f1[i - 1]..(f1[i] - 1)
          /\ prog[i].kind = "l3" => Bytes(c, i) \subseteq f3[i - 1]..(f3[i] - 1)
      BY <2>0, <2>2, <3>1, ChunkPlace
    <3>3. InBounds(i, f1, f3)
      BY <2>2 DEF Agreed, Follows
    <3>4. Base <= f1[i - 1] /\ L3Base <= f3[i - 1]
      <4>1. 0 \in 0..n /\ 0 <= i - 1
        BY <3>2, Numbers
      <4>2. Trace(n, f1, f3)
        BY <2>2 DEF Agreed
      <4> QED
        BY <3>2, <4>1, <4>2 DEF Trace
    <3>5. prog[i].kind \in {"cluster", "core"} => Bytes(c, i) \subseteq Base..(End - 1)
      <4> SUFFICES ASSUME prog[i].kind \in {"cluster", "core"}
                   PROVE  Bytes(c, i) \subseteq Base..(End - 1)
        OBVIOUS
      <4>1. f1[i] <= End
        BY <3>3 DEF InBounds
      <4>2. PICK x \in Nat, y \in Nat : x = f1[i - 1] /\ y = f1[i]
        BY <3>2
      <4>3. Bytes(c, i) \subseteq x..(y - 1)
        BY <3>2, <4>2
      <4>4. Base <= x /\ y <= End
        BY <3>4, <4>1, <4>2
      <4>5. Base \in Nat /\ End \in Nat
        BY Numbers
      <4>6. x..(y - 1) \subseteq Base..(End - 1)
        BY <4>4, <4>5, Narrow
      <4> QED
        BY <4>3, <4>6
    <3>6. prog[i].kind = "l3" => Bytes(c, i) \subseteq L3Base..(L3End - 1)
      <4> SUFFICES ASSUME prog[i].kind = "l3"
                   PROVE  Bytes(c, i) \subseteq L3Base..(L3End - 1)
        OBVIOUS
      <4>1. f3[i] <= L3End
        BY <3>2, <3>3, Numbers DEF InBounds
      <4>2. PICK x \in Nat, y \in Nat : x = f3[i - 1] /\ y = f3[i]
        BY <3>2
      <4>3. Bytes(c, i) \subseteq x..(y - 1)
        BY <3>2, <4>2
      <4>4. L3Base <= x /\ y <= L3End
        BY <3>4, <4>1, <4>2
      <4>5. L3Base \in Nat /\ L3End \in Nat
        BY Numbers
      <4>6. x..(y - 1) \subseteq L3Base..(L3End - 1)
        BY <4>4, <4>5, Narrow
      <4> QED
        BY <4>3, <4>6
    <3> QED
      BY <3>2, <3>5, <3>6
  <2>4. ASSUME NEW c \in Cores, NEW i \in Done(c)
        PROVE  CASE prog[i].kind = "l3" -> Bytes(c, i) \subseteq L3Base..(L3End - 1)
                 [] prog[i].kind \in V1 -> TRUE
                 [] OTHER               -> Bytes(c, i) \subseteq Base..(End - 1)
    <3>1. CASE prog[i].kind = "l3"
      BY <2>3, <3>1, Zenon
    <3>2. CASE prog[i].kind \in V1
      <4>1. prog[i].kind # "l3"
        BY <3>2 DEF V1
      <4> QED
        BY <3>2, <4>1, Zenon
    <3>3. CASE prog[i].kind # "l3" /\ prog[i].kind \notin V1
      <4>1. Bytes(c, i) \subseteq Base..(End - 1)
        BY <2>3, <3>3 DEF Kinds
      <4> QED
        BY <3>3, <4>1, Zenon
    <3> QED
      BY <3>1, <3>2, <3>3
  <2> QED
    BY <2>4, Zenon DEF ChunksInHeap
<1> QED
  BY <1>1, HeapInvariant, PTL
--------------------------------------------------------------------------------
LEMMA Wraps ==
    ASSUME NEW x \in Nat, NEW m \in Nat, NEW k \in Int, x < m
    PROVE  (x + m * k) % m = x
OBVIOUS

(* What snrt_compute_core_local_ptr computes for a chunk at p + s * c, and the
   condition on the chunks of n cores for it to be right. *)
Stride(p, s, c, d, m) == (p + s * c + ((d - c) % m) * s) % m
Fits(p, s, c, d, n, m) ==
    /\ p \in Nat /\ s \in Nat \ {0} /\ n \in Nat /\ m \in Nat
    /\ c \in 0..(n - 1) /\ d \in 0..(n - 1)
    /\ p + s * n < m

(* The unsigned difference of two core indices, scaled, added to the chunk of
   one core, is the chunk of the other. *)
LEMMA UnsignedStride ==
    ASSUME NEW p, NEW s, NEW c, NEW d, NEW n, NEW m, Fits(p, s, c, d, n, m)
    PROVE  Stride(p, s, c, d, m) = p + s * d
<1>0. /\ p \in Nat /\ s \in Nat /\ c \in Nat /\ d \in Nat /\ n \in Nat /\ m \in Nat
      /\ s > 0 /\ c < n /\ d < n /\ p + s * n < m
  BY DEF Fits
<1>1. s * n \in Nat /\ s * d \in Nat /\ s * c \in Nat
  BY <1>0
<1>2. s * d <= s * n /\ n <= s * n
  BY <1>0
<1>3. p + s * d \in Nat /\ p + s * d < m /\ n < m
  BY <1>0, <1>1, <1>2
<1>4. CASE c <= d
  <2>1. d - c \in Nat /\ d - c < m
    BY <1>0, <1>3, <1>4
  <2>2. (d - c) % m = d - c
    BY <1>0, <2>1
  <2>3. s * c + (d - c) * s = s * d
    BY <1>0
  <2>4. p + s * c + (d - c) * s = p + s * d
    BY <1>0, <1>1, <2>3
  <2>5. PICK x \in Nat : x = p + s * d /\ x < m
    BY <1>0, <1>3
  <2>6. x % m = x
    BY <1>0, <2>5
  <2> QED
    BY <2>2, <2>4, <2>5, <2>6 DEF Stride
<1>5. CASE d < c
  <2> DEFINE y == d - c + m
  <2>1. y \in Nat /\ y < m
    BY <1>0, <1>3, <1>5
  <2>2. (d - c) % m = y
    <3>1. (y + m * (-1)) % m = y
      BY <1>0, <2>1, Wraps
    <3>2. y + m * (-1) = d - c
      BY <1>0
    <3> QED
      BY <3>1, <3>2
  <2>3. p + s * c + y * s = (p + s * d) + m * s
    BY <1>0
  <2>4. ((p + s * d) + m * s) % m = p + s * d
    <3> DEFINE x == p + s * d
    <3>1. x \in Nat /\ x < m
      BY <1>0, <1>3
    <3> HIDE DEF x
    <3>2. (x + m * s) % m = x
      BY <1>0, <3>1, Wraps
    <3> QED
      BY <3>2 DEF x
  <2> HIDE DEF y
  <2> QED
    BY <2>2, <2>3, <2>4 DEF Stride
<1> QED
  BY <1>0, <1>4, <1>5

(* Cores agree on the heap: a cluster-local chunk is the same on all of them,
   although they do not communicate, the pointer of snrt_l1_alloc is too, and snrt_compute_core_local_ptr, whose difference of
   core indices wraps, finds the chunk of any other compute core. *)
THEOREM CoresAgreeOnChunks == Spec => []CoresAgree
<1>1. IInv => CoresAgree
  <2> SUFFICES ASSUME IInv PROVE CoresAgree
    OBVIOUS
  <2>0. TypeOK /\ OneTrace /\ Published
    BY DEF IInv
  <2>1. PICK n \in 0..MaxCalls : \E f1, f3 \in [0..n -> Nat] : Agreed(n, f1, f3)
    BY <2>0 DEF OneTrace
  <2>2. PICK f1 \in [0..n -> Nat], f3 \in [0..n -> Nat] : Agreed(n, f1, f3)
    BY <2>1
  <2>3. ASSUME NEW c \in Cores, NEW d \in Cores, NEW i \in Done(c) \cap Done(d)
        PROVE  /\ prog[i].kind # "core" => ptr[c][i] = ptr[d][i]
               /\ prog[i].kind = "core" /\ c \in Compute /\ d \in Compute =>
                     ComputeCoreLocalPtr(c, ptr[c][i], d, prog[i].size) = ptr[d][i]
    <3>1. i \in 1..Len(ptr[c]) /\ i \in 1..Len(ptr[d])
      BY <2>0, DoneFact
    <3>2. Returned(c, i, f1, f3) /\ Returned(d, i, f1, f3) /\ InBounds(i, f1, f3)
      BY <2>2, <3>1 DEF Agreed, Follows
    <3>3. prog[i].kind # "core" => ptr[c][i] = ptr[d][i]
      <4>1. prog[i].kind \in {"cluster", "l3"} => ptr[c][i] = ptr[d][i]
        BY <3>2 DEF Returned
      <4>2. prog[i].kind \in V1 => ptr[c][i] = ptr[d][i]
        BY <2>0, <3>1 DEF Published
      <4>3. prog[i].kind \in Kinds
        BY <2>0, <2>2, <3>1, ChunkPlace
      <4> QED
        BY <4>1, <4>2, <4>3 DEF Kinds
    <3>4. ASSUME prog[i].kind = "core", c \in Compute, d \in Compute
          PROVE  ComputeCoreLocalPtr(c, ptr[c][i], d, prog[i].size) = ptr[d][i]
      <4>1. i \in 1..n /\ i \in 1..MaxCalls /\ f1[i - 1] \in Nat /\ f1[i] \in Nat
        BY <2>0, <2>2, <3>1, ChunkPlace
      <4>2. prog[i].size \in Nat \ {0} /\ prog[i].align \in Nat \ {0}
        BY <2>0, <4>1, CallFact DEF TypeOK
      <4> DEFINE p == AlignUp(f1[i - 1], prog[i].align)
                 s == prog[i].size
      <4>3. p \in Nat
        BY <4>1, <4>2, AlignUpFact
      <4>4. ptr[c][i] = p + s * c /\ ptr[d][i] = p + s * d
        BY <3>2, <3>4 DEF Returned
      <4>5. f1[i] = p + s * NumCompute /\ f1[i] <= End
        BY <2>2, <3>2, <3>4, <4>1 DEF Agreed, Trace, L1After, InBounds
      <4>6. /\ c \in Nat /\ d \in Nat /\ c < NumCompute /\ d < NumCompute
            /\ NumCompute \in Nat /\ AddrMod \in Nat /\ End \in Nat /\ End < AddrMod
        BY <3>4, Numbers DEF Compute
      <4>7. s \in Nat /\ s > 0
        BY <4>2
      <4> HIDE DEF p, s
      <4>8. Fits(p, s, c, d, NumCompute, AddrMod)
        <5>1. f1[i] < AddrMod
          BY <4>1, <4>5, <4>6
        <5> QED
          BY <3>4, <4>3, <4>5, <4>6, <4>7, <5>1 DEF Fits, Compute
      <4>9. Stride(p, s, c, d, AddrMod) = p + s * d
        BY <4>8, UnsignedStride, Zenon
      <4> QED
        BY <4>4, <4>9 DEF ComputeCoreLocalPtr, Stride, s
    <3> QED
      BY <3>3, <3>4
  <2> QED
    BY <2>3 DEF CoresAgree
<1> QED
  BY <1>1, HeapInvariant, PTL
--------------------------------------------------------------------------------
LEMMA Apart ==
    ASSUME NEW a \in Nat, NEW b \in Nat, NEW x \in Nat, NEW y \in Nat, b <= x
    PROVE  (a..(b - 1)) \cap (x..(y - 1)) = {}
OBVIOUS

LEMMA ChunksApart ==
    ASSUME NEW p \in Nat, NEW s \in Nat, NEW q \in Nat, NEW t \in Nat, p + s <= q
    PROVE  (p..(p + s - 1)) \cap (q..(q + t - 1)) = {}
OBVIOUS

(* An earlier chunk of alloc_v2.h lies below a later one. *)
LEMMA EarlierIsLower ==
    ASSUME TypeOK, OneTrace, NEW c \in Cores, NEW d \in Cores,
           NEW i \in 1..Len(ptr[c]), NEW j \in 1..Len(ptr[d]), i < j,
           \/ prog[i].kind \in {"cluster", "core"} /\ prog[j].kind \in {"cluster", "core"}
           \/ prog[i].kind = "l3" /\ prog[j].kind = "l3"
    PROVE  Bytes(c, i) \cap Bytes(d, j) = {}
<1>1. PICK n \in 0..MaxCalls : \E f1, f3 \in [0..n -> Nat] : Agreed(n, f1, f3)
  BY DEF OneTrace
<1>2. PICK f1 \in [0..n -> Nat], f3 \in [0..n -> Nat] : Agreed(n, f1, f3)
  BY <1>1
<1>3. /\ i \in 0..n /\ f1[i] \in Nat /\ f1[i - 1] \in Nat /\ f3[i] \in Nat /\ f3[i - 1] \in Nat
      /\ prog[i].kind \in {"cluster", "core"} => Bytes(c, i) \subseteq f1[i - 1]..(f1[i] - 1)
      /\ prog[i].kind = "l3" => Bytes(c, i) \subseteq f3[i - 1]..(f3[i] - 1)
  BY <1>2, ChunkPlace
<1>4. /\ j - 1 \in 0..n
      /\ f1[j] \in Nat /\ f1[j - 1] \in Nat /\ f3[j] \in Nat /\ f3[j - 1] \in Nat
      /\ prog[j].kind \in {"cluster", "core"} => Bytes(d, j) \subseteq f1[j - 1]..(f1[j] - 1)
      /\ prog[j].kind = "l3" => Bytes(d, j) \subseteq f3[j - 1]..(f3[j] - 1)
  BY <1>2, ChunkPlace
<1>5. f1[i] <= f1[j - 1] /\ f3[i] <= f3[j - 1]
  <2>1. i <= j - 1
    BY <1>3, <1>4
  <2> QED
    BY <1>2, <1>3, <1>4, <2>1 DEF Agreed, Trace
<1>6. (f1[i - 1]..(f1[i] - 1)) \cap (f1[j - 1]..(f1[j] - 1)) = {}
  <2>1. PICK a \in Nat, b \in Nat, x \in Nat, y \in Nat :
           a = f1[i - 1] /\ b = f1[i] /\ x = f1[j - 1] /\ y = f1[j]
    BY <1>3, <1>4
  <2>2. b <= x
    BY <1>5, <2>1
  <2>3. (a..(b - 1)) \cap (x..(y - 1)) = {}
    BY <2>2, Apart
  <2> QED
    BY <2>1, <2>3
<1>7. (f3[i - 1]..(f3[i] - 1)) \cap (f3[j - 1]..(f3[j] - 1)) = {}
  <2>1. PICK a \in Nat, b \in Nat, x \in Nat, y \in Nat :
           a = f3[i - 1] /\ b = f3[i] /\ x = f3[j - 1] /\ y = f3[j]
    BY <1>3, <1>4
  <2>2. b <= x
    BY <1>5, <2>1
  <2>3. (a..(b - 1)) \cap (x..(y - 1)) = {}
    BY <2>2, Apart
  <2> QED
    BY <2>1, <2>3
<1> QED
  BY <1>3, <1>4, <1>6, <1>7, Zenon

(* An element of a sequence of addresses. *)
LEMMA Element ==
    ASSUME NEW s \in Seq(Nat), NEW i \in 1..Len(s)
    PROVE  s[i] \in Nat
OBVIOUS

(* An earlier chunk of snrt_l1_alloc lies below a later one. *)
LEMMA EarlierV1IsLower ==
    ASSUME TypeOK, V1Right, NEW c \in Cores, NEW d \in Cores,
           NEW i \in 1..Len(ptr[c]), NEW j \in 1..Len(ptr[d]), i < j,
           prog[i].kind \in V1, prog[j].kind \in V1
    PROVE  Bytes(c, i) \cap Bytes(d, j) = {}
<1>1. Bytes(c, i) = ptr[c][i]..(ptr[c][i] + prog[i].size - 1)
  BY DEF Bytes, V1
<1>2. Bytes(d, j) = ptr[d][j]..(ptr[d][j] + prog[j].size - 1)
  BY DEF Bytes, V1
<1>3. ptr[c][i] + prog[i].size <= ptr[d][j]
  BY DEF V1Right
<1>4. i \in 1..MaxCalls /\ j \in 1..MaxCalls /\ ptr[c][i] \in Nat /\ ptr[d][j] \in Nat
  <2>1. /\ ptr[c] \in Seq(Nat) /\ Len(ptr[c]) \in Nat /\ Len(ptr[c]) <= MaxCalls
        /\ ptr[d] \in Seq(Nat) /\ Len(ptr[d]) \in Nat /\ Len(ptr[d]) <= MaxCalls
    BY DEF TypeOK
  <2>2. i \in 1..MaxCalls /\ j \in 1..MaxCalls
    BY <2>1, Numbers
  <2>3. ptr[c][i] \in Nat
    BY <2>1, Element
  <2>4. ptr[d][j] \in Nat
    BY <2>1, Element
  <2> QED
    BY <2>2, <2>3, <2>4
<1>5. prog[i].size \in Nat /\ prog[j].size \in Nat
  BY <1>4, CallFact DEF TypeOK
<1> DEFINE p == ptr[c][i]
           q == ptr[d][j]
           u == prog[i].size
           v == prog[j].size
<1>6. p \in Nat /\ q \in Nat /\ u \in Nat /\ v \in Nat /\ p + u <= q
  BY <1>3, <1>4, <1>5
<1>7. Bytes(c, i) = p..(p + u - 1) /\ Bytes(d, j) = q..(q + v - 1)
  BY <1>1, <1>2
<1> HIDE DEF p, q, u, v
<1>8. (p..(p + u - 1)) \cap (q..(q + v - 1)) = {}
  BY <1>6, ChunksApart
<1> QED
  BY <1>7, <1>8

(* The chunks that one call gives to two compute cores. *)
LEMMA LowerCoreIsLower ==
    ASSUME TypeOK, OneTrace, NEW c \in Cores, NEW d \in Cores, c < d,
           NEW i \in 1..Len(ptr[c]), i \in 1..Len(ptr[d]), prog[i].kind = "core"
    PROVE  Bytes(c, i) \cap Bytes(d, i) = {}
<1>1. PICK n \in 0..MaxCalls : \E f1, f3 \in [0..n -> Nat] : Agreed(n, f1, f3)
  BY DEF OneTrace
<1>2. PICK f1 \in [0..n -> Nat], f3 \in [0..n -> Nat] : Agreed(n, f1, f3)
  BY <1>1
<1>3. CASE c \notin Compute \/ d \notin Compute
  BY <1>3 DEF Bytes
<1>4. CASE c \in Compute /\ d \in Compute
  <2> DEFINE p == AlignUp(f1[i - 1], prog[i].align)
             s == prog[i].size
  <2>1. ptr[c][i] = p + s * c /\ ptr[d][i] = p + s * d
    BY <1>2 DEF Agreed, Follows, Returned
  <2>2. i \in 1..MaxCalls /\ f1[i - 1] \in Nat
    BY <1>2, ChunkPlace
  <2>3. s \in Nat /\ prog[i].align \in Nat \ {0}
    BY <2>2, CallFact DEF TypeOK
  <2>4. p \in Nat
    BY <2>2, <2>3, AlignUpFact
  <2>5. Bytes(c, i) = ptr[c][i]..(ptr[c][i] + s - 1)
    BY <1>4 DEF Bytes
  <2>6. Bytes(d, i) = ptr[d][i]..(ptr[d][i] + s - 1)
    BY <1>4 DEF Bytes
  <2>7. c \in Nat /\ d \in Nat /\ c + 1 <= d
    BY Numbers
  <2> HIDE DEF p, s
  <2>8. s * c \in Nat /\ s * d \in Nat /\ s * c + s <= s * d
    <3>1. s * (c + 1) <= s * d
      BY <2>3, <2>7
    <3> QED
      BY <2>3, <2>7, <3>1
  <2>9. PICK u \in Nat, v \in Nat : u = s * c /\ v = s * d /\ u + s <= v
    BY <2>8
  <2>10. ptr[c][i] = p + u /\ ptr[d][i] = p + v
    BY <2>1, <2>9
  <2>11. s \in Nat /\ u \in Nat /\ v \in Nat /\ u + s <= v
    BY <2>3, <2>9
  <2> DEFINE x == ptr[c][i]
             y == ptr[d][i]
  <2>12. x \in Nat /\ y \in Nat /\ x + s <= y
    BY <2>4, <2>10, <2>11
  <2>13. Bytes(c, i) = x..(x + s - 1) /\ Bytes(d, i) = y..(y + s - 1)
    BY <2>5, <2>6
  <2> HIDE DEF x, y
  <2>14. (x..(x + s - 1)) \cap (y..(y + s - 1)) = {}
    BY <2>11, <2>12, ChunksApart
  <2> QED
    BY <2>13, <2>14
<1> QED
  BY <1>3, <1>4

(* Two chunks of one memory never overlap in a program that uses one kind of L1
   allocator.  (With both kinds they do: both start at the base of the heap.)
   snrt_l1_alloc reads and writes the shared allocator in two steps, without a
   lock, on core 0 and on the DM core: the wait for the pointer keeps them apart. *)
THEOREM ChunksAreDisjoint == ASSUME ~Mixed PROVE Spec => []ChunksDisjoint
<1>1. IInv => ChunksDisjoint
  <2> SUFFICES ASSUME IInv PROVE ChunksDisjoint
    OBVIOUS
  <2>0. TypeOK /\ OneTrace /\ V1Right /\ OneKind
    BY DEF IInv
  <2>1. ASSUME NEW c \in Cores, NEW i \in Done(c)
        PROVE  /\ i \in 1..Len(ptr[c]) /\ i \in 1..MaxCalls /\ i \in Int
               /\ prog[i].kind \in Kinds /\ i \in DOMAIN prog
    <3>1. i \in 1..Len(ptr[c]) /\ Len(ptr[c]) \in Nat /\ Len(ptr[c]) <= MaxCalls
      BY <2>0, DoneFact DEF TypeOK
    <3>2. i \in 1..MaxCalls
      BY <3>1, Numbers
    <3>3. prog[i].kind \in Kinds /\ i \in DOMAIN prog
      BY <2>0, <3>2, CallFact DEF TypeOK
    <3> QED
      BY <3>1, <3>2, <3>3
  <2>2. ASSUME NEW c \in Cores, NEW d \in Cores, NEW i \in Done(c), NEW j \in Done(d),
               Memory(i) = Memory(j), i < j
        PROVE  Bytes(c, i) \cap Bytes(d, j) = {}
    <3>1. /\ i \in 1..Len(ptr[c]) /\ j \in 1..Len(ptr[d])
          /\ prog[i].kind \in Kinds /\ prog[j].kind \in Kinds
          /\ i \in DOMAIN prog /\ j \in DOMAIN prog
      BY <2>1
    <3>2. prog[i].kind \in V1 <=> prog[j].kind \in V1
      BY <2>0, <3>1 DEF OneKind
    <3>3. prog[i].kind = "l3" <=> prog[j].kind = "l3"
      BY <2>2 DEF Memory
    <3>4. CASE prog[i].kind \in V1
      BY <2>0, <2>2, <3>1, <3>2, <3>4, EarlierV1IsLower
    <3>5. CASE prog[i].kind \notin V1
      <4>1. \/ prog[i].kind \in {"cluster", "core"} /\ prog[j].kind \in {"cluster", "core"}
            \/ prog[i].kind = "l3" /\ prog[j].kind = "l3"
        BY <3>1, <3>2, <3>3, <3>5 DEF Kinds
      <4> QED
        BY <2>0, <2>2, <3>1, <4>1, EarlierIsLower
    <3> QED
      BY <3>4, <3>5
  <2>3. ASSUME NEW c \in Cores, NEW d \in Cores, NEW i \in Done(c), i \in Done(d),
               c # d, prog[i].kind = "core"
        PROVE  Bytes(c, i) \cap Bytes(d, i) = {}
    <3>1. i \in 1..Len(ptr[c]) /\ i \in 1..Len(ptr[d])
      BY <2>1, <2>3
    <3>2. c < d \/ d < c
      BY <2>3, Numbers
    <3>3. CASE c < d
      BY <2>0, <2>3, <3>1, <3>3, LowerCoreIsLower
    <3>4. CASE d < c
      <4>1. Bytes(d, i) \cap Bytes(c, i) = {}
        BY <2>0, <2>3, <3>1, <3>4, LowerCoreIsLower
      <4> QED
        BY <4>1
    <3> QED
      BY <3>2, <3>3, <3>4
  <2>4. ASSUME NEW c \in Cores, NEW d \in Cores, NEW i \in Done(c), NEW j \in Done(d)
        PROVE  \/ Memory(i) # Memory(j)
               \/ i = j /\ (c = d \/ prog[i].kind # "core")
               \/ Bytes(c, i) \cap Bytes(d, j) = {}
    <3>1. i \in Int /\ j \in Int
      BY <2>1
    <3>2. CASE i < j
      BY <2>2, <3>2
    <3>3. CASE j < i
      <4>1. Memory(i) = Memory(j) => Bytes(d, j) \cap Bytes(c, i) = {}
        BY <2>2, <3>3
      <4> QED
        BY <4>1
    <3>4. CASE i = j
      BY <2>3, <3>4
    <3> QED
      BY <3>1, <3>2, <3>3, <3>4
  <2> QED
    BY <2>4 DEF ChunksDisjoint
<1> QED
  BY <1>1, HeapInvariant, PTL
================================================================================
