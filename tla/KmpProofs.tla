------------------------------- MODULE KmpProofs --------------------------------
(***************************************************************************)
(* The OpenMP loop interface for every team, every sequence of regions,    *)
(* every loop and chunk size: a thread calls the microtask of its own      *)
(* region with the arguments of that region, and the parts of the team     *)
(* divide the loop, as far as kmp.c supports it.                           *)
(***************************************************************************)
EXTENDS Kmp, TLAPS

Labels  == {"asleep", "woken", "case", "microtask", "in_exit"}
CallSet == [fn : Nat, args : Seq(Nat)]

PartOf(t) == IF loop.sched = "chunked" THEN ChunkedPart(t) ELSE StaticPart(t)

TypeOK ==
    /\ phase \in {"serial", "fork", "region"} /\ region \in Nat
    /\ argc \in Argcs /\ copied \in 0..(argc + 1)
    /\ kmpc_args \in [0..MaxArgc -> Nat]
    /\ loop \in Loops
    /\ label \in [Threads -> Labels]
    /\ mine \in [Threads -> [case : Nat, fn : Nat]]
    /\ calls \in [Threads -> Seq(CallSet)]

(* The entries copied so far are those of the current region, except for the one
   behind the block, which the size of the team may have overwritten. *)
BlockWritten ==
    /\ \A k \in 0..(copied - 1) : k # MaxNargs => kmpc_args[k] = region
    /\ phase # "fork" => copied = argc + 1

(* A thread is awake only while its own region lasts; it runs the case of that
   region or falls through to a later one. *)
AwakeInRegion == \A t \in Threads : label[t] # "asleep" =>
    /\ phase = "region" /\ argc <= mine[t].case
    /\ label[t] # "woken" => mine[t].fn = region

(* A thread that has left the switch has computed its part. *)
PartsRight ==
    /\ phase # "fork" => \A t \in Threads : label[t] = "asleep" => t \in DOMAIN part
    /\ \A t \in Threads \cap DOMAIN part : part[t] = PartOf(t)

IInv == TypeOK /\ BlockWritten /\ AwakeInRegion /\ OwnArguments /\ PartsRight
--------------------------------------------------------------------------------
LEMMA InitRight == Init => IInv
<1> SUFFICES ASSUME Init PROVE IInv
  OBVIOUS
<1>1. argc \in Nat /\ copied = 0 /\ part = << >> /\ phase = "fork" /\ region = 1
  BY KmpAssumption DEF Init
<1>2. loop \in Loops
  BY DEF Init
<1>3. /\ label = [t \in Threads |-> "asleep"] /\ calls = [t \in Threads |-> << >>]
      /\ mine = [t \in Threads |-> [case |-> 0, fn |-> 0]]
      /\ kmpc_args = [k \in 0..MaxArgc |-> 0]
  BY DEF Init
<1>4. TypeOK
  BY <1>1, <1>2, <1>3 DEF TypeOK, Labels, Init
<1>5. DOMAIN part = {} /\ \A t \in Threads : DOMAIN calls[t] = {}
  BY <1>1, <1>3
<1>6. BlockWritten /\ AwakeInRegion
  BY <1>1, <1>3 DEF BlockWritten, AwakeInRegion
<1>7. OwnArguments /\ PartsRight
  BY <1>1, <1>5 DEF OwnArguments, PartsRight
<1> QED
  BY <1>4, <1>6, <1>7 DEF IInv

(* The arguments and the loop change with the region only. *)
LEMMA RegionStep ==
    ASSUME TypeOK, [Next]_vars
    PROVE  /\ Threads' = Threads /\ argc \in 0..MaxArgc /\ MaxArgc \in Nat /\ copied \in Nat
           /\ Fork \/ (argc' = argc /\ loop' = loop /\ region' = region)
<1>1. argc \in 0..MaxArgc /\ MaxArgc \in Nat /\ copied \in Nat
  BY KmpAssumption DEF TypeOK
<1>2. CASE Fork
  BY <1>1, <1>2 DEF Fork, Threads
<1>3. CASE ~Fork
  BY <1>1, <1>3
  DEF Next, CopyArgument, Dispatch, Join, EnterSwitch, RunCase, RunDefault, StaticInit, vars, Threads
<1> QED
  BY <1>2, <1>3

LEMMA TypeStep ==
    ASSUME TypeOK, [Next]_vars
    PROVE  TypeOK'
<1>0. Threads' = Threads /\ argc \in 0..MaxArgc /\ MaxArgc \in Nat
  BY RegionStep
<1>1. CASE Fork
  <2>1. calls' \in [Threads -> Seq(CallSet)] /\ argc' \in Nat
    BY <1>1, KmpAssumption DEF Fork
  <2>2. region' \in Nat /\ copied' = 0 /\ loop' \in Loops /\ argc' \in Argcs /\ phase' = "fork"
    BY <1>1 DEF Fork, TypeOK
  <2>3. kmpc_args' = kmpc_args /\ label' = label /\ mine' = mine
    BY <1>1 DEF Fork
  <2>4. copied' \in 0..(argc' + 1)
    <3>1. argc' \in Nat
      BY <2>1
    <3>2. copied' = 0
      BY <2>2
    <3>3. \A n \in Nat : 0 \in 0..(n + 1)
      OBVIOUS
    <3> QED
      BY <3>1, <3>2, <3>3
  <2> QED
    BY <1>0, <2>1, <2>2, <2>3, <2>4 DEF TypeOK
<1>2. CASE CopyArgument
  <2>1. kmpc_args' \in [0..MaxArgc -> Nat]
    BY <1>0, <1>2 DEF CopyArgument, TypeOK
  <2> QED
    BY <1>0, <1>2, <2>1 DEF CopyArgument, TypeOK
<1>3. CASE Dispatch
  <2>1. kmpc_args' \in [0..MaxArgc -> Nat]
    BY <1>0, <1>3 DEF Dispatch, TypeOK
  <2>2. mine' \in [Threads -> [case : Nat, fn : Nat]]
    <3>1. \A t \in Threads : [mine[t] EXCEPT !.case = argc] \in [case : Nat, fn : Nat]
      BY <1>0 DEF TypeOK
    <3> QED
      BY <1>3, <3>1 DEF Dispatch
  <2> QED
    BY <1>0, <1>3, <2>1, <2>2 DEF Dispatch, TypeOK, Labels
<1>4. CASE Join
  BY <1>0, <1>4 DEF Join, TypeOK
<1>5. ASSUME NEW t \in Threads, EnterSwitch(t) PROVE TypeOK'
  <2>1. mine' \in [Threads -> [case : Nat, fn : Nat]]
    <3>1. mine[t] \in [case : Nat, fn : Nat] /\ kmpc_args[0] \in Nat
      BY <1>0 DEF TypeOK
    <3>2. [mine[t] EXCEPT !.fn = kmpc_args[0]] \in [case : Nat, fn : Nat]
      BY <3>1
    <3> QED
      BY <1>5, <3>2 DEF EnterSwitch, TypeOK
  <2> QED
    BY <1>0, <1>5, <2>1 DEF EnterSwitch, TypeOK, Labels
<1>6. ASSUME NEW t \in Threads, RunCase(t) PROVE TypeOK'
  <2> DEFINE c == [fn |-> mine[t].fn, args |-> [k \in 1..mine[t].case |-> kmpc_args[k]]]
  <2>1. mine[t].case \in 0..12 /\ mine[t].fn \in Nat
    BY <1>6 DEF RunCase, TypeOK
  <2>2. [k \in 1..mine[t].case |-> kmpc_args[k]] \in Seq(Nat)
    <3> DEFINE n == mine[t].case
    <3>1. kmpc_args \in [0..MaxArgc -> Nat] /\ 12 <= MaxArgc /\ n \in 0..12
      BY <2>1, KmpAssumption DEF TypeOK
    <3> HIDE DEF n
    <3>2. n \in Nat /\ \A k \in 1..n : kmpc_args[k] \in Nat
      BY <1>0, <3>1
    <3>3. [k \in 1..n |-> kmpc_args[k]] \in Seq(Nat)
      BY <3>2
    <3> QED
      BY <3>3 DEF n
  <2>3. c \in CallSet
    BY <2>1, <2>2 DEF CallSet
  <2>4. calls' = [calls EXCEPT ![t] = Append(@, c)]
    BY <1>6 DEF RunCase
  <2> HIDE DEF c
  <2>5. calls' \in [Threads -> Seq(CallSet)]
    BY <2>3, <2>4 DEF TypeOK
  <2> QED
    BY <1>0, <1>6, <2>5 DEF RunCase, TypeOK, Labels
<1>7. ASSUME NEW t \in Threads, RunDefault(t) PROVE TypeOK'
  BY <1>0, <1>7 DEF RunDefault, TypeOK, Labels
<1>8. ASSUME NEW t \in Threads, StaticInit(t) PROVE TypeOK'
  <2>1. mine' \in [Threads -> [case : Nat, fn : Nat]]
    <3>1. mine[t] \in [case : Nat, fn : Nat]
      BY DEF TypeOK
    <3>2. [mine[t] EXCEPT !.case = @ + 1] \in [case : Nat, fn : Nat]
      BY <3>1
    <3> QED
      BY <1>8, <3>2 DEF StaticInit, TypeOK
  <2>2. label' \in [Threads -> Labels]
    BY <1>0, <1>8 DEF StaticInit, TypeOK, Labels
  <2> QED
    BY <1>0, <1>8, <2>1, <2>2 DEF StaticInit, TypeOK
<1>9. CASE UNCHANGED vars
  BY <1>0, <1>9 DEF vars, TypeOK
<1> QED
  BY <1>1, <1>2, <1>3, <1>4, <1>5, <1>6, <1>7, <1>8, <1>9 DEF Next

(* Nothing writes into the block after the copy for its region. *)
LEMMA BlockStep ==
    ASSUME TypeOK, BlockWritten, [Next]_vars
    PROVE  BlockWritten'
<1>0. argc \in 0..MaxArgc /\ MaxArgc \in Nat /\ copied \in Nat /\ MaxNargs \in Nat
  BY RegionStep, KmpAssumption
<1>1. CASE Fork
  BY <1>0, <1>1 DEF Fork, BlockWritten
<1>2. CASE CopyArgument
  BY <1>0, <1>2 DEF CopyArgument, BlockWritten, TypeOK
<1>3. CASE Dispatch
  BY <1>0, <1>3 DEF Dispatch, BlockWritten, TypeOK
<1>4. CASE Join \/ UNCHANGED vars
  BY <1>0, <1>4 DEF Join, vars, BlockWritten
<1>5. ASSUME NEW t \in Threads, EnterSwitch(t) \/ RunCase(t) \/ RunDefault(t) \/ StaticInit(t)
      PROVE  BlockWritten'
  BY <1>0, <1>5 DEF EnterSwitch, RunCase, RunDefault, StaticInit, BlockWritten
<1> QED
  BY <1>1, <1>2, <1>3, <1>4, <1>5 DEF Next

(* The next region is forked when all threads of the last one sleep. *)
LEMMA AwakeStep ==
    ASSUME TypeOK, BlockWritten, AwakeInRegion, [Next]_vars
    PROVE  AwakeInRegion'
<1>0. Threads' = Threads /\ argc \in 0..MaxArgc /\ MaxArgc \in Nat /\ copied \in Nat
  BY RegionStep
<1>1. CASE Fork
  <2>1. \A t \in Threads : label[t] = "asleep"
    BY <1>1 DEF Fork, AwakeInRegion
  <2> QED
    BY <1>0, <1>1, <2>1 DEF Fork, AwakeInRegion
<1>2. CASE CopyArgument
  BY <1>0, <1>2 DEF CopyArgument, AwakeInRegion
<1>3. CASE Dispatch
  <2>1. \A t \in Threads : label'[t] = "woken" /\ mine'[t].case = argc
    BY <1>3 DEF Dispatch, TypeOK
  <2> QED
    BY <1>0, <1>3, <2>1 DEF Dispatch, AwakeInRegion
<1>4. CASE Join
  BY <1>0, <1>4 DEF Join, AwakeInRegion
<1>5. ASSUME NEW t \in Threads, EnterSwitch(t) PROVE AwakeInRegion'
  <2>1. phase = "region" /\ kmpc_args[0] = region
    <3>1. phase = "region" /\ copied = argc + 1
      BY <1>5 DEF EnterSwitch, AwakeInRegion, BlockWritten
    <3>2. 0 \in 0..(copied - 1) /\ 0 # MaxNargs
      BY <1>0, <3>1, KmpAssumption
    <3> QED
      BY <3>1, <3>2 DEF BlockWritten
  <2>2. /\ mine'[t].fn = region /\ mine'[t].case = mine[t].case /\ label'[t] = "case"
        /\ \A u \in Threads \ {t} : mine'[u] = mine[u] /\ label'[u] = label[u]
    BY <1>5, <2>1 DEF EnterSwitch, TypeOK
  <2> QED
    BY <1>0, <1>5, <2>1, <2>2 DEF EnterSwitch, AwakeInRegion
<1>6. ASSUME NEW t \in Threads, RunCase(t) \/ RunDefault(t) PROVE AwakeInRegion'
  BY <1>0, <1>6 DEF RunCase, RunDefault, AwakeInRegion, TypeOK
<1>7. ASSUME NEW t \in Threads, StaticInit(t) PROVE AwakeInRegion'
  <2>1. /\ \A u \in Threads \ {t} : mine'[u] = mine[u] /\ label'[u] = label[u]
        /\ label'[t] # "asleep" => mine'[t].case = mine[t].case + 1 /\ mine'[t].fn = mine[t].fn
    BY <1>7 DEF StaticInit, TypeOK
  <2>2. mine[t].case \in Nat /\ argc <= mine[t].case /\ phase = "region" /\ mine[t].fn = region
    BY <1>7 DEF StaticInit, AwakeInRegion, TypeOK
  <2> QED
    BY <1>0, <1>7, <2>1, <2>2 DEF StaticInit, AwakeInRegion
<1>8. CASE UNCHANGED vars
  BY <1>0, <1>8 DEF vars, AwakeInRegion
<1> QED
  BY <1>1, <1>2, <1>3, <1>4, <1>5, <1>6, <1>7, <1>8 DEF Next

LEMMA OwnStep ==
    ASSUME TypeOK, BlockWritten, AwakeInRegion, OwnArguments, [Next]_vars
    PROVE  OwnArguments'
<1>0. Threads' = Threads /\ argc \in 0..MaxArgc /\ MaxArgc \in Nat /\ copied \in Nat /\ MaxNargs \in Nat
  BY RegionStep, KmpAssumption
<1>1. CASE Fork
  <2>1. \A t \in Threads : DOMAIN calls'[t] = {}
    BY <1>1 DEF Fork
  <2> QED
    BY <1>0, <2>1 DEF OwnArguments
<1>2. ASSUME calls' = calls, argc' = argc, region' = region PROVE OwnArguments'
  BY <1>0, <1>2 DEF OwnArguments
<1>3. ASSUME NEW t \in Threads, RunCase(t) PROVE OwnArguments'
  <2> DEFINE args == [k \in 1..mine[t].case |-> kmpc_args[k]]
             c    == [fn |-> mine[t].fn, args |-> args]
  <2>1. /\ phase = "region" /\ copied = argc + 1 /\ mine[t].fn = region
        /\ mine[t].case \in Nat /\ argc <= mine[t].case
    BY <1>3 DEF RunCase, AwakeInRegion, BlockWritten, TypeOK
  <2>2. \A k \in 1..argc : k < MaxNargs => args[k] = region
    BY <1>0, <2>1 DEF BlockWritten
  <2>3. argc <= Len(args)
    BY <2>1
  <2>4. c.fn = region /\ c.args = args
    BY <2>1
  <2>5. /\ calls' = [calls EXCEPT ![t] = Append(@, c)]
        /\ argc' = argc /\ region' = region /\ calls[t] \in Seq(CallSet)
    BY <1>3 DEF RunCase, TypeOK
  <2> HIDE DEF c, args
  <2>6. \A u \in Threads \ {t} : calls'[u] = calls[u]
    BY <2>5 DEF TypeOK
  <2>7. calls'[t] = Append(calls[t], c)
    BY <2>5 DEF TypeOK
  <2>8. \A i \in DOMAIN calls'[t] : calls'[t][i] = c \/ (i \in DOMAIN calls[t] /\ calls'[t][i] = calls[t][i])
    BY <2>5, <2>7
  <2>9. ASSUME NEW i \in DOMAIN calls'[t]
        PROVE  /\ calls'[t][i].fn = region /\ argc <= Len(calls'[t][i].args)
               /\ \A k \in 1..argc : k < MaxNargs => calls'[t][i].args[k] = region
    <3>1. CASE calls'[t][i] = c
      BY <2>2, <2>3, <2>4, <3>1
    <3>2. CASE i \in DOMAIN calls[t] /\ calls'[t][i] = calls[t][i]
      BY <3>2 DEF OwnArguments
    <3> QED
      BY <2>8, <3>1, <3>2
  <2> QED
    BY <1>0, <2>5, <2>6, <2>9 DEF OwnArguments
<1>4. CASE CopyArgument \/ Dispatch \/ Join \/ UNCHANGED vars
  BY <1>2, <1>4 DEF CopyArgument, Dispatch, Join, vars
<1>5. ASSUME NEW t \in Threads, EnterSwitch(t) \/ RunDefault(t) \/ StaticInit(t) PROVE OwnArguments'
  BY <1>2, <1>5 DEF EnterSwitch, RunDefault, StaticInit
<1> QED
  BY <1>1, <1>3, <1>4, <1>5 DEF Next

LEMMA PartsStep ==
    ASSUME TypeOK, AwakeInRegion, PartsRight, [Next]_vars
    PROVE  PartsRight'
<1>0. Threads' = Threads
  BY RegionStep
<1>1. ASSUME loop' = loop PROVE \A t : PartOf(t)' = PartOf(t)
  BY <1>1 DEF PartOf, ChunkedPart, StaticPart
<1>2. CASE Fork
  <2>1. DOMAIN part' = {} /\ phase' = "fork"
    BY <1>2 DEF Fork
  <2> QED
    BY <2>1 DEF PartsRight
<1>3. CASE CopyArgument \/ UNCHANGED vars \/ Join
  BY <1>0, <1>1, <1>3 DEF CopyArgument, Join, vars, PartsRight
<1>4. CASE Dispatch
  <2>1. part' = part /\ loop' = loop /\ \A u \in Threads : label'[u] = "woken"
    BY <1>4 DEF Dispatch
  <2> QED
    BY <1>0, <1>1, <2>1 DEF PartsRight
<1>5. ASSUME NEW t \in Threads, EnterSwitch(t) \/ RunCase(t) \/ RunDefault(t) PROVE PartsRight'
  <2>1. /\ part' = part /\ loop' = loop /\ phase' = phase
        /\ \A u \in Threads : label'[u] = "asleep" => label[u] = "asleep"
    BY <1>5 DEF EnterSwitch, RunCase, RunDefault, TypeOK
  <2> QED
    BY <1>0, <1>1, <2>1 DEF PartsRight
<1>6. ASSUME NEW t \in Threads, StaticInit(t) PROVE PartsRight'
  <2>1. /\ part' = [s \in DOMAIN part \cup {t} |-> IF s # t THEN part[s] ELSE PartOf(t)]
        /\ \A u \in Threads \ {t} : label'[u] = label[u]
        /\ loop' = loop /\ phase' = phase
    BY <1>6 DEF StaticInit, PartOf, TypeOK
  <2> QED
    BY <1>0, <1>1, <2>1 DEF PartsRight
<1> QED
  BY <1>2, <1>3, <1>4, <1>5, <1>6 DEF Next

(* The block of arguments belongs to the region whose threads are awake, and each
   part is what __kmpc_for_static_init_4 computes, for every team, every sequence
   of regions, every loop and argument count. *)
THEOREM KmpInvariant == Spec => []IInv
<1>1. Init => IInv
  BY InitRight
<1>2. IInv /\ [Next]_vars => IInv'
  BY TypeStep, BlockStep, AwakeStep, OwnStep, PartsStep DEF IInv
<1> QED
  BY <1>1, <1>2, PTL DEF Spec

(* A thread calls the microtask of its own region and passes that region's
   arguments, although all regions share kmpc_args: nobody overwrites the block
   before the slowest thread of the team has returned. *)
THEOREM ArgumentsAreOwn == Spec => []OwnArguments
<1>1. IInv => OwnArguments
  BY DEF IInv
<1> QED
  BY <1>1, KmpInvariant, PTL
--------------------------------------------------------------------------------
(* Division with remainder. *)
LEMMA Division ==
    ASSUME NEW a \in Nat, NEW b \in Nat \ {0}
    PROVE  /\ a \div b \in Nat /\ a % b \in 0..(b - 1)
           /\ b * (a \div b) <= a /\ a < b * (a \div b) + b
           /\ a % b = a - b * (a \div b)
<1>1. a \div b \in Nat /\ a % b \in 0..(b - 1)
  OBVIOUS
<1>2. b * (a \div b) <= a /\ a < b * (a \div b) + b
  OBVIOUS
<1>3. a % b = a - b * (a \div b)
  OBVIOUS
<1> QED
  BY <1>1, <1>2, <1>3

LEMMA DivisionUnique ==
    ASSUME NEW b \in Nat \ {0}, NEW q \in Int, NEW r \in 0..(b - 1)
    PROVE  (b * q + r) \div b = q /\ (b * q + r) % b = r
OBVIOUS

LEMMA TimesMonotone ==
    ASSUME NEW a \in Int, NEW b \in Int, NEW c \in Nat
    PROVE  a <= b => a * c <= b * c
OBVIOUS

LEMMA TimesCancel ==
    ASSUME NEW a \in Int, NEW b \in Int, NEW c \in Nat, a * c < b * c
    PROVE  a < b
OBVIOUS

(* The static schedule gives q iterations to each of T threads and one more to
   the first r: the first iteration of thread t, relative to the loop. *)
Start(q, r, t) == t * q + (IF t < r THEN t ELSE r)

LEMMA StartOrdered ==
    ASSUME NEW q \in Nat, NEW r \in Nat, NEW t \in Nat, NEW u \in Nat
    PROVE  Start(q, r, t) \in Nat /\ (t <= u => Start(q, r, t) <= Start(q, r, u))
<1>1. t * q \in Nat /\ u * q \in Nat /\ (t <= u => t * q <= u * q)
  BY TimesMonotone
<1> QED
  BY <1>1 DEF Start

LEMMA StartCovers ==
    ASSUME NEW q \in Nat, NEW T \in Nat, NEW r \in 0..(T - 1), NEW y \in 0..(T * q + r - 1)
    PROVE  \E t \in 0..(T - 1) : Start(q, r, t) <= y /\ y < Start(q, r, t + 1)
<1>1. CASE y < r * (q + 1)
  <2> DEFINE t == y \div (q + 1)
  <2>1. t \in Nat /\ t * (q + 1) <= y /\ y < t * (q + 1) + (q + 1)
    <3>1. y \in Nat /\ q + 1 \in Nat \ {0}
      OBVIOUS
    <3>2. t \in Nat /\ (q + 1) * t <= y /\ y < (q + 1) * t + (q + 1)
      BY <3>1, Division
    <3> HIDE DEF t
    <3> QED
      BY <3>1, <3>2
  <2> HIDE DEF t
  <2>2. t < r
    BY <1>1, <2>1, TimesCancel
  <2>3. t * (q + 1) = t * q + t /\ (t + 1) * q = t * q + q /\ t * q \in Int
    BY <2>1
  <2>4. Start(q, r, t) = t * q + t /\ Start(q, r, t + 1) = (t + 1) * q + t + 1
    BY <2>1, <2>2 DEF Start
  <2> QED
    BY <2>1, <2>2, <2>3, <2>4
<1>2. CASE y >= r * (q + 1)
  <2>1. r * (q + 1) = r * q + r /\ r * q \in Nat /\ T * q \in Nat
    OBVIOUS
  <2>2. y - r \in Nat /\ r * q <= y - r /\ y - r < T * q
    BY <1>2, <2>1
  <2>3. q \in Nat \ {0}
    BY <2>2
  <2> DEFINE t == (y - r) \div q
  <2>4. t \in Nat /\ t * q <= y - r /\ y - r < t * q + q
    <3>1. t \in Nat /\ q * t <= y - r /\ y - r < q * t + q
      BY <2>2, <2>3, Division
    <3> HIDE DEF t
    <3> QED
      BY <2>2, <2>3, <3>1
  <2> HIDE DEF t
  <2>5. t < T
    BY <2>2, <2>4, TimesCancel
  <2>6. (t + 1) * q = t * q + q /\ t * q \in Int
    BY <2>4
  <2>7. r < t + 1
    BY <2>2, <2>4, <2>6, TimesCancel
  <2>8. Start(q, r, t) = t * q + r /\ Start(q, r, t + 1) = (t + 1) * q + r
    BY <2>4, <2>7 DEF Start
  <2> QED
    BY <2>4, <2>5, <2>6, <2>8
<1> QED
  BY <1>1, <1>2
--------------------------------------------------------------------------------
(* The compiler normalises its loops to an increment of one. *)
UnitIncrement == Incrs \subseteq {1}

LEMMA LoopFacts ==
    ASSUME TypeOK, UnitIncrement
    PROVE  /\ loop.incr = 1 /\ loop.lower \in Nat /\ loop.upper \in Nat
           /\ loop.upper <= MaxUpper /\ loop.lower <= loop.upper /\ MaxUpper \in Nat
           /\ loop.chunk \in Nat \ {0} /\ loop.nbThreads \in Nat \ {0}
           /\ loop.sched \in {"static", "chunked"}
           /\ Iterations = loop.lower..loop.upper
<1>1. /\ loop.incr = 1 /\ loop.lower \in Nat /\ loop.upper \in 0..MaxUpper
      /\ loop.lower <= loop.upper /\ loop.chunk \in 1..MaxUpper
      /\ loop.nbThreads \in 1..MaxThreads /\ loop.sched \in {"static", "chunked"}
  BY KmpAssumption DEF TypeOK, UnitIncrement, Loops
<1>2. \A x \in Int : x % 1 = 0
  OBVIOUS
<1>3. Iterations = loop.lower..loop.upper
  BY <1>1, <1>2 DEF Iterations, Divides
<1> QED
  BY <1>1, <1>3, KmpAssumption

LEMMA PartFields ==
    ASSUME NEW p, NEW lo, NEW hi, NEW st, NEW u,
           p = [lower |-> lo, upper |-> hi, stride |-> st, last |-> hi = u /\ lo <= u]
    PROVE  /\ p.lower = lo /\ p.upper = hi /\ p.stride = st
           /\ p.last <=> hi = u /\ lo <= u
<1>1. p.lower = lo /\ p.upper = hi /\ p.stride = st
  OBVIOUS
<1>2. p.last <=> (hi = u /\ lo <= u)
  OBVIOUS
<1> QED
  BY <1>1, <1>2

LEMMA LastField ==
    ASSUME NEW p, NEW lo, NEW hi, NEW st, NEW x,
           p = [lower |-> lo, upper |-> hi, stride |-> st, last |-> x = 0]
    PROVE  p.last <=> x = 0
OBVIOUS

(* The parts of a static schedule follow each other without gaps. *)
LEMMA StaticParts ==
    ASSUME TypeOK, UnitIncrement
    PROVE  \E q \in Nat : \E r \in 0..(loop.nbThreads - 1) :
              /\ loop.nbThreads * q + r = loop.upper - loop.lower + 1
              /\ \A t \in Threads :
                    /\ StaticPart(t).lower = loop.lower + Start(q, r, t)
                    /\ StaticPart(t).upper = loop.lower + Start(q, r, t + 1) - 1
                    /\ StaticPart(t).stride \in Int
                    /\ StaticPart(t).last <=> /\ StaticPart(t).upper = loop.upper
                                              /\ StaticPart(t).lower <= loop.upper
<1> DEFINE T == loop.nbThreads
           n == (loop.upper - loop.lower) \div loop.incr + 1
           q == n \div T
           r == n - q * T
<1>0. /\ loop.incr = 1 /\ loop.lower \in Nat /\ loop.upper \in Nat
      /\ loop.lower <= loop.upper /\ T \in Nat \ {0}
  BY LoopFacts
<1>1. n = loop.upper - loop.lower + 1 /\ n \in Nat
  BY <1>0
<1>2. q \in Nat /\ r \in 0..(T - 1) /\ T * q + r = n
  <2> HIDE DEF n, T
  <2>1. q \in Nat /\ T * q <= n /\ n < T * q + T
    BY <1>0, <1>1, Division
  <2> HIDE DEF q
  <2> QED
    BY <1>0, <1>1, <2>1
<1>3. ASSUME NEW t \in Threads
      PROVE  /\ StaticPart(t).lower = loop.lower + Start(q, r, t)
             /\ StaticPart(t).upper = loop.lower + Start(q, r, t + 1) - 1
             /\ StaticPart(t).stride \in Int
             /\ StaticPart(t).last <=> /\ StaticPart(t).upper = loop.upper
                                       /\ StaticPart(t).lower <= loop.upper
  <2> DEFINE chunk == IF t < r THEN q + 1 ELSE q
             lower == loop.lower + t * chunk * loop.incr + IF t < r THEN 0 ELSE r
             upper == lower + chunk * loop.incr - loop.incr
  <2>1. StaticPart(t) = [lower |-> lower, upper |-> upper, stride |-> n,
                         last |-> upper = loop.upper /\ lower <= loop.upper]
    BY DEF StaticPart
  <2>2. lower = loop.lower + Start(q, r, t) /\ upper = loop.lower + Start(q, r, t + 1) - 1
    <3>1. t \in Nat
      BY <1>0 DEF Threads
    <3> HIDE DEF q, r, n, T
    <3>2. t * (q + 1) = t * q + t /\ (t + 1) * q = t * q + q /\ t * q \in Nat
      BY <1>2, <3>1
    <3>3. CASE t < r
      BY <1>0, <1>2, <3>1, <3>2, <3>3 DEF Start
    <3>4. CASE ~(t < r)
      BY <1>0, <1>2, <3>1, <3>2, <3>4 DEF Start
    <3> QED
      BY <3>3, <3>4
  <2> HIDE DEF lower, upper, n, q, r
  <2>3. /\ StaticPart(t).lower = lower /\ StaticPart(t).upper = upper
        /\ StaticPart(t).stride = n
    BY <2>1
  <2>4. StaticPart(t).last <=> (upper = loop.upper /\ lower <= loop.upper)
    BY <2>1, PartFields
  <2>5. StaticPart(t).last <=> /\ StaticPart(t).upper = loop.upper
                               /\ StaticPart(t).lower <= loop.upper
    BY <2>3, <2>4, Zenon
  <2> QED
    BY <1>1, <2>2, <2>3, <2>5
<1> HIDE DEF q, r
<1> QED
  BY <1>1, <1>2, <1>3

LEMMA StaticRun ==
    ASSUME TypeOK, UnitIncrement, PartsRight, LoopDone, loop.sched = "static", NEW t \in Threads
    PROVE  RunBy(t) = {x \in 0..loop.upper : StaticPart(t).lower <= x /\ x <= StaticPart(t).upper}
<1>1. part[t] = StaticPart(t)
  BY DEF LoopDone, PartsRight, PartOf
<1>2. /\ StaticPart(t).lower \in Int /\ StaticPart(t).upper \in Int /\ StaticPart(t).stride \in Int
  <2>1. t \in Nat /\ loop.lower \in Nat
    BY LoopFacts DEF Threads
  <2>2. \A q, r \in Nat : Start(q, r, t) \in Nat /\ Start(q, r, t + 1) \in Nat
    <3>1. t + 1 \in Nat
      BY <2>1
    <3> QED
      BY <2>1, <3>1, StartOrdered
  <2> QED
    <3>1. PICK q \in Nat, r \in 0..(loop.nbThreads - 1) :
              /\ StaticPart(t).lower = loop.lower + Start(q, r, t)
              /\ StaticPart(t).upper = loop.lower + Start(q, r, t + 1) - 1
              /\ StaticPart(t).stride \in Int
      BY StaticParts
    <3>2. r \in Nat
      BY LoopFacts
    <3>3. Start(q, r, t) \in Nat /\ Start(q, r, t + 1) \in Nat
      BY <2>2, <3>2
    <3> QED
      BY <2>1, <3>1, <3>3
<1>3. loop.incr = 1 /\ \A x \in Int : x % 1 = 0
  BY LoopFacts
<1>4. loop.upper \in Nat
  BY LoopFacts
<1> QED
  BY <1>1, <1>2, <1>3, <1>4 DEF RunBy, Divides

(* The static schedule divides the loop, and flags the thread that ends it. *)
LEMMA StaticDivides ==
    ASSUME TypeOK, UnitIncrement, PartsRight, LoopDone, loop.sched = "static"
    PROVE  /\ UNION {RunBy(t) : t \in Threads} = Iterations
           /\ \A t, u \in Threads : t # u => RunBy(t) \cap RunBy(u) = {}
           /\ \A t \in Threads : part[t].last <=> loop.upper \in RunBy(t)
<1> DEFINE T == loop.nbThreads
           L == loop.lower
           U == loop.upper
<1>0. /\ L \in Nat /\ U \in Nat /\ L <= U /\ T \in Nat \ {0}
      /\ Iterations = L..U /\ Threads = 0..(T - 1)
  BY LoopFacts DEF Threads
<1>1. PICK q \in Nat, r \in 0..(T - 1) :
          /\ T * q + r = U - L + 1
          /\ \A t \in Threads :
                /\ StaticPart(t).lower = L + Start(q, r, t)
                /\ StaticPart(t).upper = L + Start(q, r, t + 1) - 1
                /\ StaticPart(t).last <=> StaticPart(t).upper = U /\ StaticPart(t).lower <= U
  BY StaticParts
<1> DEFINE S(t) == Start(q, r, t)
<1>2. \A t, u \in Nat : S(t) \in Nat /\ (t <= u => S(t) <= S(u))
  <2>1. r \in Nat
    BY <1>0
  <2> QED
    BY <2>1, StartOrdered
<1>3. S(T) = U - L + 1
  BY <1>0, <1>1 DEF Start
<1>4. \A t \in Threads : RunBy(t) = {x \in 0..U : L + S(t) <= x /\ x <= L + S(t + 1) - 1}
  BY <1>1, StaticRun
<1>5. \A x \in L..U : \E t \in Threads : S(t) <= x - L /\ x - L < S(t + 1)
  <2> SUFFICES ASSUME NEW x \in L..U PROVE \E t \in Threads : S(t) <= x - L /\ x - L < S(t + 1)
    OBVIOUS
  <2>1. x - L \in 0..(T * q + r - 1)
    <3> HIDE DEF T, L, U
    <3>0. T * q \in Nat /\ r \in Nat /\ T * q + r = U - L + 1
      BY <1>0, <1>1
    <3>1. T * q + r - 1 = U - L
      BY <1>0, <3>0
    <3>2. x - L \in 0..(U - L)
      BY <1>0
    <3> QED
      BY <3>1, <3>2
  <2> QED
    BY <1>0, <2>1, StartCovers
<1> HIDE DEF S, T, L, U
<1>6. UNION {RunBy(t) : t \in Threads} = Iterations
  <2>1. ASSUME NEW t \in Threads, NEW x \in RunBy(t) PROVE x \in Iterations
    <3>1. x \in 0..U /\ L + S(t) <= x /\ S(t) \in Nat
      BY <1>0, <1>2, <1>4, <2>1
    <3> QED
      BY <1>0, <3>1
  <2>2. ASSUME NEW x \in Iterations PROVE \E t \in Threads : x \in RunBy(t)
    <3>1. x \in L..U
      BY <1>0
    <3>2. PICK t \in Threads : S(t) <= x - L /\ x - L < S(t + 1)
      BY <1>5, <3>1
    <3>3. S(t) \in Nat /\ S(t + 1) \in Nat
      BY <1>0, <1>2
    <3>4. x \in RunBy(t)
      BY <1>0, <1>4, <3>1, <3>2, <3>3
    <3> QED
      BY <3>4
  <2> QED
    BY <2>1, <2>2
<1>7. ASSUME NEW t \in Threads, NEW u \in Threads, t < u PROVE RunBy(t) \cap RunBy(u) = {}
  <2>1. t + 1 <= u /\ t + 1 \in Nat /\ u \in Nat
    BY <1>0, <1>7
  <2>2. S(t + 1) <= S(u) /\ S(t + 1) \in Nat /\ S(u) \in Nat
    BY <1>2, <2>1
  <2> QED
    BY <1>0, <1>4, <2>2
<1>8. \A t, u \in Threads : t # u => RunBy(t) \cap RunBy(u) = {}
  <2> SUFFICES ASSUME NEW t \in Threads, NEW u \in Threads, t # u PROVE RunBy(t) \cap RunBy(u) = {}
    OBVIOUS
  <2>1. t < u \/ u < t
    BY <1>0
  <2> QED
    BY <1>7, <2>1
<1>9. ASSUME NEW t \in Threads PROVE part[t].last <=> U \in RunBy(t)
  <2>1. part[t] = StaticPart(t)
    BY DEF LoopDone, PartsRight, PartOf
  <2>2. S(t) \in Nat /\ S(t + 1) \in Nat /\ S(t + 1) <= U - L + 1
    <3>1. t \in Nat /\ t + 1 \in Nat /\ T \in Nat /\ t + 1 <= T
      BY <1>0
    <3> QED
      BY <1>2, <1>3, <3>1
  <2>3. U \in RunBy(t) <=> (L + S(t) <= U /\ L + S(t + 1) - 1 = U)
    <3>1. U \in RunBy(t) <=> (L + S(t) <= U /\ U <= L + S(t + 1) - 1)
      BY <1>0, <1>4
    <3> QED
      BY <1>0, <2>2, <3>1
  <2>4. StaticPart(t).last <=> (L + S(t + 1) - 1 = U /\ L + S(t) <= U)
    BY <1>1 DEF S
  <2> QED
    BY <2>1, <2>3, <2>4, Zenon
<1> QED
  BY <1>6, <1>8, <1>9 DEF U
--------------------------------------------------------------------------------
(* Block b of a chunked schedule is the one that chunk j of thread t runs. *)
LEMMA BlockOf ==
    ASSUME NEW s \in Nat \ {0}, NEW T \in Nat \ {0}, NEW t \in 0..(T - 1), NEW j \in Nat,
           NEW y \in Nat
    PROVE  (s * t + j * (s * T) <= y /\ y <= s * t + j * (s * T) + s - 1)
              <=> (t = (y \div s) % T /\ j = (y \div s) \div T)
<1> DEFINE b == y \div s
           a == T * j + t
<1>1. b \in Nat /\ s * b <= y /\ y < s * b + s
  BY Division
<1>2. a \in Nat /\ s * a = s * t + j * (s * T)
  <2>1. s * (T * j) = j * (s * T) /\ T * j \in Nat
    OBVIOUS
  <2>2. s * (T * j + t) = s * (T * j) + s * t
    BY <2>1
  <2> QED
    BY <2>1, <2>2
<1>3. a \div T = j /\ a % T = t
  BY DivisionUnique
<1>4. PICK k \in Nat, m \in 0..(T - 1) : b = T * k + m /\ k = b \div T /\ m = b % T
  <2> HIDE DEF b
  <2>1. b % T = b - T * (b \div T) /\ b \div T \in Nat /\ b % T \in 0..(T - 1)
    BY <1>1, Division
  <2> DEFINE k == b \div T
             m == b % T
  <2>2. m = b - T * k /\ k \in Nat /\ m \in 0..(T - 1)
    BY <2>1
  <2> HIDE DEF k, m
  <2>3. T * k \in Nat /\ b = T * k + m
    BY <1>1, <2>2
  <2> QED
    BY <2>2, <2>3 DEF k, m
<1> HIDE DEF a, b
<1>5. s * a <= y /\ y <= s * a + s - 1 => b = a
  <2> SUFFICES ASSUME s * a <= y, y <= s * a + s - 1 PROVE b = a
    OBVIOUS
  <2>1. PICK i \in 0..(s - 1) : y = s * a + i
    BY <1>2
  <2>2. (s * a + i) \div s = a
    BY <1>2, DivisionUnique
  <2> QED
    BY <2>1, <2>2 DEF b
<1>6. b = a => s * a <= y /\ y <= s * a + s - 1
  BY <1>1, <1>2
<1>7. b = a <=> (t = b % T /\ j = b \div T)
  <2>1. b = a => t = b % T /\ j = b \div T
    BY <1>3
  <2>2. t = m /\ j = k => b = a
    BY <1>4 DEF a
  <2> QED
    BY <1>4, <2>1, <2>2
<1> QED
  BY <1>2, <1>5, <1>6, <1>7 DEF b

LEMMA ChunkedFields ==
    ASSUME TypeOK, UnitIncrement, NEW t \in Threads
    PROVE  LET s == loop.chunk
               T == loop.nbThreads
               p == ChunkedPart(t)
           IN  /\ p.lower = loop.lower + s * t /\ p.upper = loop.lower + s * t + s - 1
               /\ p.stride = s * T
               /\ p.last <=> ((loop.upper - (loop.upper % s)) - (loop.lower + s * t)) % (s * T) = 0
<1>1. loop.incr = 1 /\ loop.chunk \in Nat \ {0} /\ 1 * loop.chunk = loop.chunk
  BY LoopFacts
<1> DEFINE s == loop.chunk
           T == loop.nbThreads
           lo == loop.lower + s * t
<1>2. ChunkedPart(t) = [lower |-> lo, upper |-> lo + s - 1, stride |-> s * T,
                        last |-> ((loop.upper - (loop.upper % s)) - lo) % (s * T) = 0]
  <2>1. loop.incr * loop.chunk = s
    BY <1>1
  <2> QED
    BY <1>1, <2>1, Zenon DEF ChunkedPart, Divides
<1> HIDE DEF s, T, lo
<1>3. /\ ChunkedPart(t).lower = lo /\ ChunkedPart(t).upper = lo + s - 1
      /\ ChunkedPart(t).stride = s * T
  BY <1>2
<1>4. ChunkedPart(t).last <=> ((loop.upper - (loop.upper % s)) - lo) % (s * T) = 0
  BY <1>2, LastField
<1> QED
  BY <1>3, <1>4 DEF s, T, lo

(* An iteration is run by the thread whose number is its block's, modulo the team. *)
LEMMA ChunkedRun ==
    ASSUME TypeOK, UnitIncrement, PartsRight, LoopDone, loop.sched = "chunked", NEW t \in Threads
    PROVE  RunBy(t) = {x \in loop.lower..loop.upper :
                          ((x - loop.lower) \div loop.chunk) % loop.nbThreads = t}
<1> DEFINE s == loop.chunk
           T == loop.nbThreads
           L == loop.lower
           U == loop.upper
<1>0. /\ L \in Nat /\ U \in Nat /\ L <= U /\ U <= MaxUpper /\ MaxUpper \in Nat
      /\ s \in Nat \ {0} /\ T \in Nat \ {0} /\ t \in 0..(T - 1) /\ loop.incr = 1
  BY LoopFacts DEF Threads
<1>1. part[t] = ChunkedPart(t)
  BY DEF LoopDone, PartsRight, PartOf
<1>2. /\ part[t].lower = L + s * t /\ part[t].upper = L + s * t + s - 1
      /\ part[t].stride = s * T
  BY <1>1, ChunkedFields
<1> HIDE DEF s, T, L, U
<1>3. \A z \in Int : z % 1 = 0
  OBVIOUS
<1>4. s * t \in Nat /\ s * T \in Nat /\ \A j \in Nat : j * (s * T) \in Nat
  BY <1>0
<1>5. RunBy(t) = {x \in 0..U : \E j \in 0..MaxUpper :
                      /\ L + s * t + j * (s * T) <= x
                      /\ x <= L + s * t + s - 1 + j * (s * T)}
  <2>1. \A x \in 0..U : Divides(loop.incr, x - part[t].lower)
    BY <1>0, <1>2, <1>3, <1>4 DEF Divides
  <2>2. RunBy(t) = {x \in 0..U : \E j \in 0..MaxUpper :
                       /\ part[t].lower + j * part[t].stride <= x
                       /\ x <= part[t].upper + j * part[t].stride}
    BY <2>1, Zenon DEF RunBy, U
  <2> QED
    BY <1>2, <2>2, Zenon
<1>6. ASSUME NEW x \in RunBy(t) PROVE x \in L..U /\ ((x - L) \div s) % T = t
  <2>1. PICK j \in 0..MaxUpper : L + s * t + j * (s * T) <= x /\ x <= L + s * t + s - 1 + j * (s * T)
    BY <1>5
  <2>2. j \in Nat /\ x \in 0..U
    BY <1>0, <1>5
  <2>3. x - L \in Nat
    BY <1>0, <1>4, <2>1, <2>2
  <2>4. s * t + j * (s * T) <= x - L /\ x - L <= s * t + j * (s * T) + s - 1
    BY <1>0, <1>4, <2>1, <2>2
  <2>5. t = ((x - L) \div s) % T
    <3> DEFINE y == x - L
    <3>1. y \in Nat /\ s * t + j * (s * T) <= y /\ y <= s * t + j * (s * T) + s - 1
      BY <2>3, <2>4
    <3> HIDE DEF y
    <3>2. (s * t + j * (s * T) <= y /\ y <= s * t + j * (s * T) + s - 1)
              <=> (t = (y \div s) % T /\ j = (y \div s) \div T)
      BY <1>0, <2>2, <3>1, BlockOf
    <3> QED
      BY <3>1, <3>2 DEF y
  <2> QED
    BY <1>0, <2>2, <2>3, <2>5
<1>7. ASSUME NEW x \in L..U, ((x - L) \div s) % T = t PROVE x \in RunBy(t)
  <2> DEFINE b == (x - L) \div s
             j == b \div T
  <2>1. x - L \in Nat /\ x - L <= MaxUpper
    BY <1>0
  <2>2. b \in Nat /\ b <= x - L
    <3>1. b \in Nat /\ s * b <= x - L
      BY <1>0, <2>1, Division
    <3> HIDE DEF b
    <3>2. 1 * b <= s * b
      BY <1>0, <3>1, TimesMonotone
    <3> QED
      BY <1>0, <2>1, <3>1, <3>2
  <2>3. j \in Nat /\ j <= b
    <3> HIDE DEF b
    <3>1. j \in Nat /\ T * j <= b
      BY <1>0, <2>2, Division
    <3> HIDE DEF j
    <3>2. 1 * j <= T * j
      BY <1>0, <3>1, TimesMonotone
    <3> QED
      BY <1>0, <2>2, <3>1, <3>2
  <2>4. s * t + j * (s * T) <= x - L /\ x - L <= s * t + j * (s * T) + s - 1
    BY <1>0, <1>7, <2>1, <2>3, BlockOf
  <2> HIDE DEF b, j
  <2>5. j \in 0..MaxUpper
    BY <1>0, <2>1, <2>2, <2>3
  <2>6. L + s * t + j * (s * T) <= x /\ x <= L + s * t + s - 1 + j * (s * T)
    BY <1>0, <1>4, <2>3, <2>4
  <2> QED
    BY <1>0, <1>5, <2>5, <2>6
<1> QED
  <2>1. RunBy(t) = {x \in L..U : ((x - L) \div s) % T = t}
    BY <1>6, <1>7
  <2> QED
    BY <2>1 DEF s, T, L, U

(* The chunked schedule divides the loop. *)
LEMMA ChunkedDivides ==
    ASSUME TypeOK, UnitIncrement, PartsRight, LoopDone, loop.sched = "chunked"
    PROVE  /\ UNION {RunBy(t) : t \in Threads} = Iterations
           /\ \A t, u \in Threads : t # u => RunBy(t) \cap RunBy(u) = {}
<1> DEFINE owner(x) == ((x - loop.lower) \div loop.chunk) % loop.nbThreads
<1>0. /\ loop.lower \in Nat /\ loop.upper \in Nat /\ loop.chunk \in Nat \ {0}
      /\ loop.nbThreads \in Nat \ {0} /\ Iterations = loop.lower..loop.upper
      /\ Threads = 0..(loop.nbThreads - 1)
  BY LoopFacts DEF Threads
<1>1. \A t \in Threads : RunBy(t) = {x \in Iterations : owner(x) = t}
  BY <1>0, ChunkedRun
<1>2. \A x \in Iterations : owner(x) \in Threads
  <2> SUFFICES ASSUME NEW x \in Iterations PROVE owner(x) \in Threads
    OBVIOUS
  <2>1. x - loop.lower \in Nat
    BY <1>0
  <2>2. (x - loop.lower) \div loop.chunk \in Nat
    BY <1>0, <2>1, Division
  <2> QED
    BY <1>0, <2>2, Division
<1> HIDE DEF owner
<1> QED
  BY <1>1, <1>2

(* The flag of a chunked schedule: the begin of the last chunk, taken from zero,
   differs from the begin of the thread's first chunk by whole rounds. *)
Distance(U, s, T, t) == ((U - (U % s)) - s * t) % (s * T)
Owner(U, s, T)       == (U \div s) % T

LEMMA ChunkedLast ==
    ASSUME NEW s \in Nat \ {0}, NEW T \in Nat \ {0}, NEW t \in 0..(T - 1), NEW U \in Nat
    PROVE  Distance(U, s, T, t) = 0 <=> Owner(U, s, T) = t
<1> DEFINE b == U \div s
<1>1. b \in Nat /\ U - (U % s) = s * b
  <2>1. b \in Nat /\ U % s = U - s * b
    BY Division
  <2> HIDE DEF b
  <2> QED
    BY <2>1
<1> HIDE DEF b
<1>2. s * T \in Nat \ {0} /\ s * b - s * t = s * (b - t) /\ s * (b - t) \in Int
  BY <1>1
<1>3. ASSUME b % T = t PROVE (s * (b - t)) % (s * T) = 0
  <2> DEFINE k == b \div T
  <2>1. k \in Nat /\ t = b - T * k
    BY <1>1, <1>3, Division
  <2> HIDE DEF k
  <2>2. b - t = T * k
    BY <1>1, <2>1
  <2>3. s * (b - t) = (s * T) * k + 0
    BY <2>1, <2>2
  <2>4. 0 \in 0..(s * T - 1)
    BY <1>2
  <2> DEFINE n == s * T
  <2>5. n \in Nat \ {0} /\ 0 \in 0..(n - 1)
    BY <1>2, <2>4
  <2> HIDE DEF n
  <2>6. (n * k + 0) % n = 0
    BY <2>1, <2>5, DivisionUnique
  <2> QED
    BY <2>3, <2>6 DEF n
<1>4. ASSUME (s * (b - t)) % (s * T) = 0 PROVE b % T = t
  <2> DEFINE k == (s * (b - t)) \div (s * T)
  <2>1. k \in Int /\ s * (b - t) = (s * T) * k
    BY <1>2, <1>4
  <2> HIDE DEF k
  <2>2. s * (b - t) = s * (T * k) /\ T * k \in Int
    BY <2>1
  <2>3. b - t = T * k
    BY <1>1, <2>2
  <2>4. b = T * k + t
    BY <1>1, <2>2, <2>3
  <2> QED
    BY <2>1, <2>4, DivisionUnique
<1> QED
  BY <1>1, <1>2, <1>3, <1>4 DEF b, Distance, Owner

(* The parts that __kmpc_for_static_init_4 gives to the threads of any team cover
   every iteration of any loop exactly once, for both schedules, every chunk size
   and lower bound.  The increment has to be one: the code adds leftOver without
   multiplying it by the increment. *)
THEOREM LoopIsDivided ==
    ASSUME UnitIncrement
    PROVE  Spec => []PartsPartitionTheLoop
<1>1. IInv => PartsPartitionTheLoop
  <2> SUFFICES ASSUME IInv, LoopDone
               PROVE  /\ UNION {RunBy(t) : t \in Threads} = Iterations
                      /\ \A t, u \in Threads : t # u => RunBy(t) \cap RunBy(u) = {}
    BY Zenon DEF PartsPartitionTheLoop
  <2>1. TypeOK /\ PartsRight /\ loop.sched \in {"static", "chunked"}
    BY LoopFacts DEF IInv
  <2> QED
    BY <2>1, StaticDivides, ChunkedDivides
<1> QED
  BY <1>1, KmpInvariant, PTL

(* The flag for the last iteration is raised for the one thread that runs it, if
   the loop starts at zero: the begin of the last chunk is computed from there. *)
THEOREM LastIsFlagged ==
    ASSUME UnitIncrement, Lowers \subseteq {0}
    PROVE  Spec => []LastFlagIsRight
<1>1. IInv => LastFlagIsRight
  <2> SUFFICES ASSUME IInv, LoopDone, NEW t \in Threads
               PROVE  part[t].last <=> loop.upper \in RunBy(t)
    BY Zenon DEF LastFlagIsRight
  <2>1. TypeOK /\ PartsRight /\ loop.sched \in {"static", "chunked"}
    BY LoopFacts DEF IInv
  <2>2. CASE loop.sched = "static"
    BY <2>1, <2>2, StaticDivides
  <2>3. CASE loop.sched = "chunked"
    <3> DEFINE s == loop.chunk
               T == loop.nbThreads
               U == loop.upper
    <3>0. /\ loop.lower = 0 /\ U \in Nat /\ s \in Nat \ {0} /\ T \in Nat \ {0}
          /\ t \in 0..(T - 1) /\ s * t \in Nat
      <4>1. loop.lower \in Lowers
        BY <2>1 DEF TypeOK, Loops
      <4> QED
        BY <2>1, <4>1, LoopFacts DEF Threads
    <3>1. part[t] = ChunkedPart(t)
      BY <2>1, <2>3 DEF LoopDone, PartsRight, PartOf
    <3>2. part[t].last <=> ((U - (U % s)) - (0 + s * t)) % (s * T) = 0
      BY <2>1, <3>0, <3>1, ChunkedFields
    <3>3. U \in RunBy(t) <=> ((U - 0) \div s) % T = t
      <4>1. RunBy(t) = {x \in 0..U : ((x - 0) \div s) % T = t}
        BY <2>1, <2>3, <3>0, ChunkedRun
      <4> HIDE DEF s, T, U
      <4> QED
        BY <3>0, <4>1
    <3> HIDE DEF s, T, U
    <3>4. Distance(U, s, T, t) = 0 <=> Owner(U, s, T) = t
      BY <3>0, ChunkedLast
    <3>5. 0 + s * t = s * t /\ U - 0 = U
      BY <3>0
    <3>6. part[t].last <=> U \in RunBy(t)
      BY <3>2, <3>3, <3>4, <3>5, Zenon DEF Distance, Owner
    <3> QED
      BY <3>6 DEF U
  <2> QED
    BY <2>1, <2>2, <2>3
<1> QED
  BY <1>1, KmpInvariant, PTL
================================================================================
