--------------------------- MODULE ReductionTreeProofs ---------------------------
(***************************************************************************)
(* The binary reduction tree sums every cluster of the communicator once,  *)
(* for every number of levels and of compute cores, unless a sender of one *)
(* level overwrites a destination buffer that its receiver has not added.  *)
(* The first part develops what the proof needs of 1 << l, by an induction *)
(* over sets of numbers.                                                   *)
(***************************************************************************)
EXTENDS ReductionTree, WellFoundedInduction, TLAPS

--------------------------------------------------------------------------------
(* A set of numbers that holds 0 and with each number the next is Nat: its
   complement has no least element. *)
LEMMA SetInduction ==
    ASSUME NEW S \in SUBSET Nat, 0 \in S, \A n \in S : n + 1 \in S
    PROVE  S = Nat
<1> DEFINE T == Nat \ S
<1>1. SUFFICES ASSUME T # {} PROVE FALSE
  OBVIOUS
<1>2. PICK x \in T : \A y \in T : <<y, x>> \notin OpToRel(<, Nat)
  BY <1>1, WFMin, NatLessThanWellFounded, Zenon
<1>3. x # 0 /\ x - 1 \in Nat
  OBVIOUS
<1>4. <<x - 1, x>> \in OpToRel(<, Nat)
  BY <1>3 DEF OpToRel
<1>5. x - 1 \in S
  BY <1>2, <1>3, <1>4
<1>6. (x - 1) + 1 \in S
  BY <1>5
<1> QED BY <1>6

(* The table of the first n + 1 powers. *)
IsTable(f, n) == f \in [0..n -> Nat] /\ f[0] = 1 /\ \A i \in 1..n : f[i] = 2 * f[i - 1]

LEMMA TableExists == \A n \in Nat : \E f : IsTable(f, n)
<1> DEFINE S == {n \in Nat : \E f : IsTable(f, n)}
<1>1. 0 \in S
  <2>1. IsTable([i \in 0..0 |-> 1], 0)
    BY DEF IsTable
  <2> QED BY <2>1
<1>2. ASSUME NEW n \in S PROVE n + 1 \in S
  <2>1. PICK f : IsTable(f, n)
    OBVIOUS
  <2> DEFINE g == [i \in 0..(n + 1) |-> IF i <= n THEN f[i] ELSE 2 * f[n]]
  <2>2. n \in Nat /\ \A i \in 0..n : f[i] \in Nat
    BY <2>1 DEF IsTable
  <2>3. g \in [0..(n + 1) -> Nat]
    BY <2>2
  <2>4. \A i \in 1..(n + 1) : g[i] = 2 * g[i - 1]
    BY <2>1, <2>2 DEF IsTable
  <2>5. g[0] = 1
    BY <2>1, <2>2 DEF IsTable
  <2>6. IsTable(g, n + 1)
    BY <2>3, <2>4, <2>5 DEF IsTable
  <2> QED BY <2>2, <2>6
<1> HIDE DEF S
<1>3. S \in SUBSET Nat
  BY DEF S
<1>4. S = Nat
  BY <1>1, <1>2, <1>3, SetInduction
<1> QED BY <1>4 DEF S

LEMMA TablesAgree ==
    ASSUME NEW n \in Nat, NEW m \in Nat, n <= m, NEW f, NEW g, IsTable(f, n), IsTable(g, m)
    PROVE  f[n] = g[n]
<1> DEFINE S == {i \in Nat : i <= n => f[i] = g[i]}
<1>1. 0 \in S
  BY DEF IsTable
<1>2. ASSUME NEW i \in S PROVE i + 1 \in S
  <2>1. i \in Nat
    OBVIOUS
  <2>2. CASE i + 1 <= n
    <3>1. f[i] = g[i]
      BY <2>1, <2>2
    <3>2. f[i + 1] = 2 * f[(i + 1) - 1] /\ g[i + 1] = 2 * g[(i + 1) - 1]
      BY <2>1, <2>2 DEF IsTable
    <3>3. (i + 1) - 1 = i
      BY <2>1
    <3> QED BY <2>1, <3>1, <3>2, <3>3
  <2> QED BY <2>1, <2>2
<1> HIDE DEF S
<1>3. S \in SUBSET Nat
  BY DEF S
<1>4. S = Nat
  BY <1>1, <1>2, <1>3, SetInduction
<1> QED BY <1>4 DEF S

(* The equation of Shl has a solution, so Shl is one. *)
LEMMA ShlDef ==
    Shl = [l \in Nat |-> IF l = 0 THEN 1 ELSE 2 * Shl[l - 1]]
<1> DEFINE Table(n) == CHOOSE f : IsTable(f, n)
           F == [n \in Nat |-> Table(n)[n]]
<1>1. ASSUME NEW n \in Nat PROVE IsTable(Table(n), n)
  BY TableExists
<1> HIDE DEF Table
<1>2. ASSUME NEW l \in Nat PROVE F[l] = IF l = 0 THEN 1 ELSE 2 * F[l - 1]
  <2>1. CASE l = 0
    BY <1>1, <2>1 DEF IsTable
  <2>2. CASE l # 0
    <3>1. l - 1 \in Nat /\ l \in 1..l
      BY <2>2
    <3>2. Table(l)[l] = 2 * Table(l)[l - 1]
      BY <1>1, <3>1 DEF IsTable
    <3>3. Table(l - 1)[l - 1] = Table(l)[l - 1]
      <4> DEFINE n == l - 1
      <4>1. n \in Nat /\ n <= l
        BY <3>1
      <4>2. IsTable(Table(n), n) /\ IsTable(Table(l), l)
        BY <1>1, <4>1
      <4> HIDE DEF n
      <4>3. Table(n)[n] = Table(l)[n]
        BY <4>1, <4>2, TablesAgree
      <4> QED BY <4>3 DEF n
    <3> QED BY <2>2, <3>1, <3>2, <3>3
  <2> QED BY <2>1, <2>2
<1>3. F = [l \in Nat |-> IF l = 0 THEN 1 ELSE 2 * F[l - 1]]
  BY <1>2
<1> HIDE DEF F
<1>4. \E f : f = [l \in Nat |-> IF l = 0 THEN 1 ELSE 2 * f[l - 1]]
  BY <1>3
<1> QED BY <1>4 DEF Shl

LEMMA ShlNext == Shl[0] = 1 /\ \A l \in Nat : Shl[l + 1] = 2 * Shl[l]
<1>1. Shl[0] = 1
  BY ShlDef
<1>2. ASSUME NEW l \in Nat PROVE Shl[l + 1] = 2 * Shl[l]
  <2>1. Shl[l + 1] = 2 * Shl[(l + 1) - 1]
    BY ShlDef
  <2> QED BY <2>1
<1> QED BY <1>1, <1>2

LEMMA ShlType == \A l \in Nat : Shl[l] \in Nat \ {0}
<1> DEFINE S == {l \in Nat : Shl[l] \in Nat \ {0}}
<1>1. 0 \in S
  BY ShlNext
<1>2. ASSUME NEW l \in S PROVE l + 1 \in S
  <2>1. l \in Nat /\ Shl[l] \in Nat \ {0} /\ Shl[l + 1] = 2 * Shl[l]
    BY ShlNext
  <2> QED BY <2>1
<1> HIDE DEF S
<1>3. S \in SUBSET Nat
  BY DEF S
<1>4. S = Nat
  BY <1>1, <1>2, <1>3, SetInduction
<1> QED BY <1>4 DEF S

(* A lower power divides a higher one. *)
LEMMA ShlDivides ==
    ASSUME NEW l \in Nat, NEW h \in Nat, l <= h
    PROVE  \E m \in Nat : Shl[h] = m * Shl[l]
<1> DEFINE S == {n \in Nat : \E m \in Nat : Shl[l + n] = m * Shl[l]}
<1>1. 0 \in S
  <2>1. Shl[l + 0] = 1 * Shl[l]
    BY ShlType
  <2> QED BY <2>1
<1>2. ASSUME NEW n \in S PROVE n + 1 \in S
  <2>1. PICK m \in Nat : Shl[l + n] = m * Shl[l]
    OBVIOUS
  <2>2. n \in Nat /\ l + n \in Nat /\ (l + n) + 1 = l + (n + 1)
    OBVIOUS
  <2>3. Shl[(l + n) + 1] = 2 * Shl[l + n]
    BY <2>2, ShlNext
  <2>4. PICK a \in Nat : a = Shl[l]
    BY ShlType
  <2>5. 2 * (m * a) = (2 * m) * a
    OBVIOUS
  <2>6. Shl[l + (n + 1)] = (2 * m) * Shl[l]
    BY <2>1, <2>2, <2>3, <2>4, <2>5
  <2> QED BY <2>2, <2>6
<1> HIDE DEF S
<1>3. S \in SUBSET Nat
  BY DEF S
<1>4. S = Nat
  BY <1>1, <1>2, <1>3, SetInduction
<1>5. h - l \in S /\ l + (h - l) = h
  BY <1>4
<1> QED BY <1>5 DEF S
--------------------------------------------------------------------------------
(* Multiples of a and of 2 * a: who is active, who sends to whom. *)
LEMMA MultipleOf ==
    ASSUME NEW a \in Nat \ {0}, NEW k \in Nat
    PROVE  k % a = 0 <=> \E q \in Nat : k = q * a
<1>1. ASSUME k % a = 0 PROVE \E q \in Nat : k = q * a
  <2>1. k % a = k - a * (k \div a)
    OBVIOUS
  <2>2. k \div a \in Nat
    OBVIOUS
  <2>3. PICK q \in Nat : q = k \div a
    BY <2>2
  <2>4. k = q * a
    BY <1>1, <2>1, <2>3
  <2> QED BY <2>4
<1>2. ASSUME NEW q \in Nat, k = q * a PROVE k % a = 0
  BY <1>2
<1> QED BY <1>1, <1>2

(* A cluster active at the next level is active and receives at this one. *)
LEMMA NextActive ==
    ASSUME NEW a \in Nat \ {0}, NEW b \in Nat, b = 2 * a, NEW k \in Nat, k % b = 0
    PROVE  k % a = 0
<1>1. PICK q \in Nat : k = q * b
  BY MultipleOf
<1>2. k = (2 * q) * a
  BY <1>1
<1> QED BY <1>2, MultipleOf

(* An active sender's receiver is a below it, and active as a receiver. *)
LEMMA SenderHasReceiver ==
    ASSUME NEW a \in Nat \ {0}, NEW b \in Nat, b = 2 * a, NEW k \in Nat,
           k % a = 0, k % b # 0
    PROVE  k - a \in Nat /\ (k - a) % b = 0
<1>1. PICK q \in Nat : k = q * a
  BY MultipleOf
<1>2. PICK h \in Nat : q = 2 * h \/ q = 2 * h + 1
  <2>1. q \div 2 \in Nat /\ (q = 2 * (q \div 2) \/ q = 2 * (q \div 2) + 1)
    OBVIOUS
  <2> QED BY <2>1
<1>3. q # 2 * h
  <2>1. SUFFICES ASSUME q = 2 * h PROVE FALSE
    OBVIOUS
  <2>2. k = h * b
    BY <1>1, <2>1
  <2>3. b \in Nat \ {0}
    OBVIOUS
  <2> QED BY <2>2, <2>3, MultipleOf
<1>4. k - a = h * b
  BY <1>1, <1>2, <1>3
<1>5. h * b \in Nat
  OBVIOUS
<1> QED BY <1>4, <1>5, MultipleOf

(* A receiver has its sender a above it, and both their blocks are within
   the communicator if 2 * a divides the number of clusters. *)
LEMMA ReceiverHasSender ==
    ASSUME NEW a \in Nat \ {0}, NEW b \in Nat, b = 2 * a, NEW k \in Nat, k % b = 0,
           NEW m \in Nat, NEW n \in Nat, n = m * b, k < n
    PROVE  k + b <= n /\ (k + a) % a = 0 /\ (k + a) % b # 0
<1>1. PICK q \in Nat : k = q * b
  BY MultipleOf
<1>2. q + 1 <= m
  <2>1. SUFFICES ASSUME m <= q PROVE FALSE
    OBVIOUS
  <2>2. PICK d \in Nat : q = m + d
    <3>1. q - m \in Nat /\ q = m + (q - m)
      BY <2>1
    <3> QED BY <3>1
  <2>3. q * b = m * b + d * b /\ d * b \in Nat /\ m * b \in Nat
    BY <2>2
  <2> QED BY <1>1, <2>3
<1>3. k + b <= n
  <2>1. PICK d \in Nat : m = (q + 1) + d
    <3>1. m - (q + 1) \in Nat /\ m = (q + 1) + (m - (q + 1))
      BY <1>2
    <3> QED BY <3>1
  <2>2. m * b = (q * b + b) + d * b /\ d * b \in Nat /\ q * b \in Nat
    BY <2>1
  <2> QED BY <1>1, <2>2
<1>4. k + a = (2 * q + 1) * a
  BY <1>1
<1>5. (k + a) % a = 0
  <2>1. PICK s \in Nat : s = k + a
    OBVIOUS
  <2>2. PICK t \in Nat : t = 2 * q + 1
    OBVIOUS
  <2>3. s = t * a
    BY <1>4, <2>1, <2>2
  <2>4. s % a = 0
    BY <2>3, MultipleOf
  <2> QED BY <2>1, <2>4
<1>6. (k + a) % b = a
  <2>1. 0 <= a /\ a < b /\ k + a = a + b * q
    BY <1>1
  <2>2. (a + b * q) % b = a
    BY <2>1
  <2> QED BY <2>1, <2>2
<1> QED BY <1>3, <1>5, <1>6
--------------------------------------------------------------------------------
(* The communicator has a power of two clusters: every receiver has a sender.
   (For other sizes an active cluster without one adds a stale buffer.) *)
FullTree == Size = Shl[NumLevels]

LEMMA Constants ==
    /\ Size \in Nat /\ Size > 1 /\ NumLevels \in Nat \ {0}
    /\ 0 \in Clusters /\ Clusters \subseteq Nat
  BY TreeAssumption DEF Clusters

LEMMA Partners ==
    ASSUME FullTree, NEW l \in Nat, l < NumLevels, NEW k \in Clusters
    PROVE  /\ IsActive(k, l + 1) => IsActive(k, l)
           /\ IsSender(k, l) <=> ~IsActive(k, l + 1)
           /\ IsActive(k, l) /\ IsSender(k, l) =>
                  k - Shl[l] \in Clusters /\ IsActive(k - Shl[l], l + 1)
           /\ IsActive(k, l + 1) =>
                  /\ k + Shl[l] \in Clusters
                  /\ IsActive(k + Shl[l], l) /\ IsSender(k + Shl[l], l)
<1>1. PICK a \in Nat \ {0} : a = Shl[l]
  BY ShlType
<1>2. PICK b \in Nat : b = Shl[l + 1]
  BY ShlType
<1>3. b = 2 * a
  BY <1>1, <1>2, ShlNext
<1>4. PICK m \in Nat : Size = m * b
  <2>1. l + 1 \in Nat /\ l + 1 <= NumLevels /\ NumLevels \in Nat
    BY Constants
  <2>2. PICK m \in Nat : Shl[NumLevels] = m * Shl[l + 1]
    <3>1. PICK h \in Nat : h = l + 1
      BY <2>1
    <3>2. h <= NumLevels
      BY <2>1, <3>1
    <3> QED BY <2>1, <3>1, <3>2, ShlDivides
  <2> QED BY <1>2, <2>2 DEF FullTree
<1>5. k \in Nat /\ k < Size /\ Size \in Nat
  BY Constants DEF Clusters
<1>6. /\ IsActive(k, l) <=> k % a = 0
      /\ IsActive(k, l + 1) <=> k % b = 0
      /\ IsSender(k, l) <=> k % b # 0
      /\ IsActive(k - Shl[l], l + 1) <=> (k - a) % b = 0
      /\ IsActive(k + Shl[l], l) <=> (k + a) % a = 0
      /\ IsSender(k + Shl[l], l) <=> (k + a) % b # 0
  BY <1>1, <1>2 DEF IsActive, IsSender
<1>7. k % b = 0 => k % a = 0
  BY <1>3, <1>5, NextActive
<1>8. k % a = 0 /\ k % b # 0 => k - a \in Clusters /\ (k - a) % b = 0
  <2>1. SUFFICES ASSUME k % a = 0, k % b # 0
                 PROVE  k - a \in Clusters /\ (k - a) % b = 0
    OBVIOUS
  <2>2. k - a \in Nat /\ (k - a) % b = 0
    BY <1>3, <1>5, <2>1, SenderHasReceiver
  <2>3. k - a \in Clusters
    BY <1>5, <2>2 DEF Clusters
  <2> QED BY <2>2, <2>3
<1>9. k % b = 0 => k + a \in Clusters /\ (k + a) % a = 0 /\ (k + a) % b # 0
  <2>1. SUFFICES ASSUME k % b = 0
                 PROVE  k + a \in Clusters /\ (k + a) % a = 0 /\ (k + a) % b # 0
    OBVIOUS
  <2>2. k + b <= Size /\ (k + a) % a = 0 /\ (k + a) % b # 0
    BY <1>3, <1>4, <1>5, <2>1, ReceiverHasSender
  <2>3. k + a \in Clusters
    BY <1>3, <1>5, <2>2 DEF Clusters
  <2> QED BY <2>2, <2>3
<1> QED BY <1>1, <1>6, <1>7, <1>8, <1>9
--------------------------------------------------------------------------------
(* What a buffer holds that has the data of clusters k to k + n - 1 once. *)
Block(k, n) == [j \in Clusters |-> IF k <= j /\ j < k + n THEN 1 ELSE 0]

Stages == {"send", "global_barrier", "reduce", "hw_barrier", "done"}

TypeOK ==
    /\ src \in [Clusters -> [Slices -> [Clusters -> Nat]]]
    /\ dst \in [Clusters -> [Slices -> [Clusters -> Nat]]]
    /\ level \in [Clusters -> 0..NumLevels]
    /\ phase \in [Clusters -> Stages \ {"reduce"}]
    /\ core \in [Clusters -> [Slices -> Stages]]
    /\ overwritten \in BOOLEAN

(* The cores of a cluster are in the same part of the loop body. *)
Shape ==
    \A k \in Clusters :
        /\ phase[k] = "done" <=> level[k] = NumLevels
        /\ \A i \in Slices :
              /\ phase[k] \in {"send", "global_barrier"} => core[k][i] = "global_barrier"
              /\ phase[k] = "hw_barrier" => core[k][i] \in {"reduce", "hw_barrier"}
              /\ phase[k] = "done" => core[k][i] = "done"

(* The global barrier keeps the clusters within one level: who is ahead waits
   before it, who is behind has passed it. *)
Lockstep ==
    \A k, m \in Clusters :
        /\ level[k] > level[m] => /\ level[k] = level[m] + 1
                                  /\ phase[m] = "hw_barrier"
                                  /\ phase[k] # "hw_barrier"
        /\ level[k] = level[m] /\ phase[k] = "hw_barrier" => phase[m] = "hw_barrier"

Sending(k)   == IsActive(k, level[k]) /\ IsSender(k, level[k])
Receiving(k) == IsActive(k, level[k]) /\ ~IsSender(k, level[k])
Added(k, i)  == core[k][i] = "hw_barrier" /\ ~IsSender(k, level[k])

(* An active cluster has its block of the tree in its source buffer. *)
Blocks ==
    \A k \in Clusters, i \in Slices : IsActive(k, level[k]) =>
        src[k][i] = Block(k, IF Added(k, i) THEN Shl[level[k] + 1] ELSE Shl[level[k]])

(* Until the barrier opens, a sender's block is in its receiver's buffer. *)
Sent ==
    \A s \in Clusters, i \in Slices :
        phase[s] = "global_barrier" /\ Sending(s) =>
            dst[s - Shl[level[s]]][i] = Block(s, Shl[level[s]])

(* Behind the barrier, a receiver finds the block of its sender. *)
Arrived ==
    \A r \in Clusters, i \in Slices :
        core[r][i] = "reduce" /\ Receiving(r) =>
            dst[r][i] = Block(r + Shl[level[r]], Shl[level[r]])

Data == Blocks /\ Sent /\ Arrived

IInv == TypeOK /\ Shape /\ Lockstep /\ (~overwritten => Data)

LEMMA BlockType ==
    ASSUME NEW k, NEW n PROVE Block(k, n) \in [Clusters -> Nat]
  BY DEF Block

LEMMA BlockSum ==
    ASSUME NEW k \in Nat, NEW a \in Nat, NEW b \in Nat, b = 2 * a
    PROVE  [j \in Clusters |-> Block(k, a)[j] + Block(k + a, a)[j]] = Block(k, b)
  BY Constants DEF Block

LEMMA InitIInv == Init => IInv
<1> SUFFICES ASSUME Init PROVE IInv
  OBVIOUS
<1> USE DEF Init
<1>1. ASSUME NEW k \in Clusters
      PROVE  Own(k) = Block(k, 1) /\ Own(k) \in [Clusters -> Nat]
  <2>1. \A j \in Clusters : (k <= j /\ j < k + 1) <=> j = k
    BY Constants
  <2>2. Own(k) = [j \in Clusters |-> IF j = k THEN 1 ELSE 0]
    BY DEF Own, Nothing
  <2> QED BY <2>1, <2>2 DEF Block
<1>2. Nothing \in [Clusters -> Nat]
  BY DEF Nothing
<1>3. TypeOK
  <2>1. src \in [Clusters -> [Slices -> [Clusters -> Nat]]]
    BY <1>1
  <2>2. dst \in [Clusters -> [Slices -> [Clusters -> Nat]]]
    BY <1>2
  <2>3. level \in [Clusters -> 0..NumLevels]
    BY Constants
  <2> QED BY <2>1, <2>2, <2>3 DEF TypeOK, Stages
<1>4. Shape /\ Lockstep
  BY Constants DEF Shape, Lockstep
<1>5. Data
  BY <1>1, ShlNext, Constants DEF Data, Blocks, Sent, Arrived, Added
<1> QED BY <1>3, <1>4, <1>5 DEF IInv

(* What the invariant says about the level of a cluster that still has to work. *)
LEMMA Working ==
    ASSUME TypeOK, Shape, NEW k \in Clusters, phase[k] # "done"
    PROVE  level[k] \in Nat /\ level[k] < NumLevels /\ level[k] + 1 \in 0..NumLevels
<1>1. NumLevels \in Nat /\ level[k] \in 0..NumLevels
  BY Constants DEF TypeOK
<1>2. level[k] # NumLevels
  BY DEF Shape
<1> QED BY <1>1, <1>2

LEMMA SendIInv ==
    ASSUME FullTree, IInv, NEW k \in Clusters, Send(k)
    PROVE  IInv'
<1> USE DEF IInv
<1> DEFINE r == k - Shl[level[k]]
<1>1. /\ phase[k] = "send" /\ Sending(k)
      /\ dst' = [dst EXCEPT ![r] = src[k]]
      /\ overwritten' = (overwritten \/ \E i \in Slices : core[r][i] = "reduce")
      /\ phase' = [phase EXCEPT ![k] = "global_barrier"]
      /\ UNCHANGED <<src, level, core>>
  BY DEF Send, Sending
<1>2. r \in Clusters
  BY <1>1, Working, Partners DEF Sending
<1> HIDE DEF r
<1>3. TypeOK'
  BY <1>1, <1>2 DEF TypeOK, Stages
<1>4. Shape'
  BY <1>1 DEF Shape, TypeOK
<1>5. Lockstep'
  BY <1>1 DEF Lockstep, TypeOK
<1>6. ASSUME ~overwritten' PROVE Data'
  <2>1. Data /\ \A i \in Slices : core[r][i] # "reduce"
    BY <1>1, <1>6 DEF TypeOK
  <2>2. Blocks'
    BY <1>1, <2>1 DEF Data, Blocks, Added
  <2>3. Arrived'
    BY <1>1, <1>2, <2>1 DEF Data, Arrived, Receiving, TypeOK
  <2>4. Sent'
    <3>1. SUFFICES ASSUME NEW s \in Clusters, NEW i \in Slices,
                          phase'[s] = "global_barrier", Sending(s)
                   PROVE  dst'[s - Shl[level[s]]][i] = Block(s, Shl[level[s]])
      BY <1>1 DEF Sent, Sending
    <3>2. CASE s = k
      <4>1. core[k][i] = "global_barrier"
        BY <1>1 DEF Shape
      <4>2. src[k][i] = Block(k, Shl[level[k]])
        BY <1>1, <2>1, <4>1 DEF Data, Blocks, Sending, Added
      <4>3. dst'[r] = src[k]
        BY <1>1, <1>2 DEF TypeOK
      <4> QED BY <3>2, <4>2, <4>3 DEF r
    <3>3. CASE s # k
      <4>1. phase[s] = "global_barrier"
        BY <1>1, <3>1, <3>3 DEF TypeOK
      <4>2. level[s] = level[k]
        <5>1. level[s] \in Nat /\ level[k] \in Nat
          BY <1>1, <4>1, Working
        <5>2. ~(level[s] > level[k]) /\ ~(level[k] > level[s])
          BY <1>1, <4>1 DEF Lockstep
        <5> QED BY <5>1, <5>2
      <4>3. s - Shl[level[s]] # r
        BY <3>3, <4>2, Working, <1>1, ShlType, Constants DEF r
      <4>4. dst'[s - Shl[level[s]]] = dst[s - Shl[level[s]]]
        BY <1>1, <4>3 DEF TypeOK
      <4> QED BY <2>1, <3>1, <4>1, <4>4 DEF Data, Sent
    <3> QED BY <3>2, <3>3
  <2> QED BY <2>2, <2>3, <2>4 DEF Data
<1> QED BY <1>3, <1>4, <1>5, <1>6

LEMMA SkipSendIInv ==
    ASSUME IInv, NEW k \in Clusters, SkipSend(k)
    PROVE  IInv'
<1> USE DEF IInv
<1>1. /\ phase[k] = "send" /\ ~Sending(k)
      /\ phase' = [phase EXCEPT ![k] = "global_barrier"]
      /\ UNCHANGED <<src, dst, level, core, overwritten>>
  BY DEF SkipSend, Sending
<1>2. TypeOK'
  BY <1>1 DEF TypeOK, Stages
<1>3. Shape'
  BY <1>1 DEF Shape, TypeOK
<1>4. Lockstep'
  BY <1>1 DEF Lockstep, TypeOK
<1>5. ASSUME ~overwritten' PROVE Data'
  <2>1. Data
    BY <1>1, <1>5
  <2>2. Blocks' /\ Arrived'
    BY <1>1, <2>1 DEF Data, Blocks, Added, Arrived, Receiving
  <2>3. Sent'
    BY <1>1, <2>1 DEF Data, Sent, Sending, TypeOK
  <2> QED BY <2>2, <2>3 DEF Data
<1> QED BY <1>2, <1>3, <1>4, <1>5

LEMMA GlobalBarrierIInv ==
    ASSUME FullTree, IInv, GlobalBarrier
    PROVE  IInv'
<1> USE DEF IInv
<1>1. /\ \A k \in Clusters : phase[k] = "global_barrier"
      /\ phase' = [k \in Clusters |-> "hw_barrier"]
      /\ core' = [k \in Clusters |-> [i \in Slices |-> "reduce"]]
      /\ UNCHANGED <<src, dst, level, overwritten>>
  BY DEF GlobalBarrier
<1>2. ASSUME NEW k \in Clusters, NEW m \in Clusters PROVE level[k] = level[m]
  <2>1. level[k] \in Nat /\ level[m] \in Nat
    BY <1>1, Working
  <2>2. ~(level[k] > level[m]) /\ ~(level[m] > level[k])
    BY <1>1 DEF Lockstep
  <2> QED BY <2>1, <2>2
<1>3. TypeOK'
  BY <1>1 DEF TypeOK, Stages
<1>4. Shape'
  BY <1>1 DEF Shape
<1>5. Lockstep'
  BY <1>1, <1>2 DEF Lockstep, TypeOK
<1>6. ASSUME ~overwritten' PROVE Data'
  <2>1. Data
    BY <1>1, <1>6
  <2>2. Blocks'
    BY <1>1, <2>1 DEF Data, Blocks, Added, Shape
  <2>3. Sent'
    BY <1>1 DEF Sent
  <2>4. Arrived'
    <3>1. SUFFICES ASSUME NEW r \in Clusters, NEW i \in Slices, Receiving(r)
                   PROVE  dst[r][i] = Block(r + Shl[level[r]], Shl[level[r]])
      BY <1>1 DEF Arrived, Receiving
    <3> DEFINE s == r + Shl[level[r]]
    <3>2. s \in Clusters /\ IsActive(s, level[r]) /\ IsSender(s, level[r])
      BY <1>1, <3>1, Working, Partners DEF Receiving
    <3>3. level[s] = level[r] /\ Sending(s)
      BY <1>2, <3>2 DEF Sending
    <3>4. s - Shl[level[s]] = r
      BY <3>3, <1>1, Working, ShlType, Constants
    <3> HIDE DEF s
    <3>5. dst[r][i] = Block(s, Shl[level[r]])
      BY <1>1, <2>1, <3>2, <3>3, <3>4 DEF Data, Sent
    <3> QED BY <3>5 DEF s
  <2> QED BY <2>2, <2>3, <2>4 DEF Data
<1> QED BY <1>3, <1>4, <1>5, <1>6

LEMMA ReduceSliceIInv ==
    ASSUME FullTree, IInv, NEW k \in Clusters, NEW i \in Slices, ReduceSlice(k, i)
    PROVE  IInv'
<1> USE DEF IInv
<1> DEFINE sum == [j \in Clusters |-> src[k][i][j] + dst[k][i][j]]
<1>1. /\ core[k][i] = "reduce"
      /\ core' = [core EXCEPT ![k][i] = "hw_barrier"]
      /\ UNCHANGED <<dst, level, phase, overwritten>>
  BY DEF ReduceSlice
<1>2. src' = IF Receiving(k) THEN [src EXCEPT ![k][i] = sum] ELSE src
  BY DEF ReduceSlice, Receiving
<1>3. phase[k] = "hw_barrier"
  BY <1>1 DEF Shape, TypeOK, Stages
<1>4. sum \in [Clusters -> Nat]
  BY DEF TypeOK
<1> HIDE DEF sum
<1>5. TypeOK'
  <2>1. src' \in [Clusters -> [Slices -> [Clusters -> Nat]]]
    BY <1>2, <1>4 DEF TypeOK
  <2>2. core' \in [Clusters -> [Slices -> Stages]]
    BY <1>1 DEF TypeOK, Stages
  <2> QED BY <1>1, <2>1, <2>2 DEF TypeOK
<1>6. Shape'
  BY <1>1, <1>3 DEF Shape, TypeOK
<1>7. Lockstep'
  BY <1>1 DEF Lockstep
<1>8. ASSUME ~overwritten' PROVE Data'
  <2>1. Data
    BY <1>1, <1>8
  <2>2. Sent'
    BY <1>1, <2>1 DEF Data, Sent, Sending
  <2>3. Arrived'
    BY <1>1, <2>1 DEF Data, Arrived, Receiving, TypeOK
  <2>4. Blocks'
    <3>1. SUFFICES ASSUME NEW m \in Clusters, NEW n \in Slices, IsActive(m, level[m])
                   PROVE  src'[m][n] = Block(m, IF Added(m, n)' THEN Shl[level[m] + 1]
                                                ELSE Shl[level[m]])
      BY <1>1 DEF Blocks, Added
    <3>2. CASE m = k /\ n = i
      <4>1. core'[k][i] = "hw_barrier"
        BY <1>1 DEF TypeOK
      <4>2. src[k][i] = Block(k, Shl[level[k]])
        BY <1>1, <2>1, <3>1, <3>2 DEF Data, Blocks, Added
      <4>3. CASE IsSender(k, level[k])
        BY <1>1, <1>2, <3>2, <4>1, <4>2, <4>3 DEF Receiving, Added
      <4>4. CASE ~IsSender(k, level[k])
        <5>1. Receiving(k) /\ Added(k, i)'
          BY <1>1, <3>1, <3>2, <4>1, <4>4 DEF Receiving, Added
        <5>2. src'[k][i] = sum
          BY <1>2, <5>1 DEF TypeOK
        <5>3. dst[k][i] = Block(k + Shl[level[k]], Shl[level[k]])
          BY <1>1, <2>1, <5>1 DEF Data, Arrived
        <5>4. level[k] \in Nat /\ k \in Nat
          BY <1>3, Working, Constants
        <5>5. PICK a \in Nat, b \in Nat : a = Shl[level[k]] /\ b = Shl[level[k] + 1]
          BY <5>4, ShlType
        <5>6. b = 2 * a
          BY <5>4, <5>5, ShlNext
        <5>7. sum = [j \in Clusters |-> Block(k, a)[j] + Block(k + a, a)[j]]
          BY <4>2, <5>3, <5>5 DEF sum
        <5>8. sum = Block(k, b)
          BY <5>4, <5>6, <5>7, BlockSum
        <5> QED BY <3>2, <5>1, <5>2, <5>5, <5>8
      <4> QED BY <4>3, <4>4
    <3>3. CASE ~(m = k /\ n = i)
      <4>1. src'[m][n] = src[m][n] /\ core'[m][n] = core[m][n]
        BY <1>1, <1>2, <3>3 DEF TypeOK
      <4> QED BY <1>1, <2>1, <3>1, <4>1 DEF Data, Blocks, Added
    <3> QED BY <3>2, <3>3
  <2> QED BY <2>2, <2>3, <2>4 DEF Data
<1> QED BY <1>5, <1>6, <1>7, <1>8

LEMMA NextLevelIInv ==
    ASSUME FullTree, IInv, NEW k \in Clusters, NextLevel(k)
    PROVE  IInv'
<1> USE DEF IInv
<1> DEFINE more == level[k] + 1 < NumLevels
           there == IF more THEN "send" ELSE "done"
           cores == [i \in Slices |-> IF more THEN "global_barrier" ELSE "done"]
<1>1. /\ phase[k] = "hw_barrier"
      /\ \A i \in Slices : core[k][i] = "hw_barrier"
      /\ level' = [level EXCEPT ![k] = level[k] + 1]
      /\ phase' = [phase EXCEPT ![k] = there]
      /\ core' = [core EXCEPT ![k] = cores]
      /\ UNCHANGED <<src, dst, overwritten>>
  BY DEF NextLevel
<1>2. /\ level[k] \in Nat /\ level[k] < NumLevels /\ level[k] + 1 \in 0..NumLevels
      /\ NumLevels \in Nat
  BY <1>1, Working, Constants
<1>3. /\ there \in {"send", "done"} /\ (there = "done" <=> level[k] + 1 = NumLevels)
      /\ cores \in [Slices -> {"global_barrier", "done"}]
      /\ there = "send" => \A i \in Slices : cores[i] = "global_barrier"
      /\ there = "done" => \A i \in Slices : cores[i] = "done"
  BY <1>2
<1> HIDE DEF more, there, cores
<1>4. /\ level'[k] = level[k] + 1 /\ phase'[k] = there /\ core'[k] = cores
      /\ \A m \in Clusters : m # k =>
            level'[m] = level[m] /\ phase'[m] = phase[m] /\ core'[m] = core[m]
  BY <1>1 DEF TypeOK
<1>5. TypeOK'
  <2>1. level' \in [Clusters -> 0..NumLevels]
    BY <1>1, <1>2 DEF TypeOK
  <2>2. phase' \in [Clusters -> Stages \ {"reduce"}]
    BY <1>1, <1>3 DEF TypeOK, Stages
  <2>3. core' \in [Clusters -> [Slices -> Stages]]
    BY <1>1, <1>3 DEF TypeOK, Stages
  <2> QED BY <1>1, <2>1, <2>2, <2>3 DEF TypeOK
<1>6. Shape'
  BY <1>3, <1>4 DEF Shape
<1>7. Lockstep'
  <2>1. SUFFICES ASSUME NEW a \in Clusters, NEW b \in Clusters
                 PROVE  /\ level'[a] > level'[b] => /\ level'[a] = level'[b] + 1
                                                   /\ phase'[b] = "hw_barrier"
                                                   /\ phase'[a] # "hw_barrier"
                        /\ level'[a] = level'[b] /\ phase'[a] = "hw_barrier"
                               => phase'[b] = "hw_barrier"
    BY DEF Lockstep
  <2>2. \A m \in Clusters : level[m] \in Nat
    BY <1>2 DEF TypeOK
  <2>3. ASSUME NEW m \in Clusters
        PROVE  \/ level[m] = level[k] /\ phase[m] = "hw_barrier"
               \/ level[m] = level[k] + 1 /\ phase[m] # "hw_barrier"
    <3>1. /\ ~(level[k] > level[m])
          /\ level[m] > level[k] => level[m] = level[k] + 1 /\ phase[m] # "hw_barrier"
          /\ level[k] = level[m] => phase[m] = "hw_barrier"
      BY <1>1 DEF Lockstep
    <3> QED BY <2>2, <3>1
  <2>4. phase'[k] # "hw_barrier"
    BY <1>3, <1>4
  <2> QED BY <1>4, <2>2, <2>3, <2>4
<1>8. ASSUME ~overwritten' PROVE Data'
  <2>1. Data
    BY <1>1, <1>8
  <2>2. \A i \in Slices : core'[k][i] \notin {"reduce", "hw_barrier"}
    BY <1>3, <1>4
  <2>3. Sent'
    BY <1>1, <1>3, <1>4, <2>1 DEF Data, Sent, Sending
  <2>4. Arrived'
    BY <1>1, <1>4, <2>1, <2>2 DEF Data, Arrived, Receiving
  <2>5. Blocks'
    <3>1. SUFFICES ASSUME NEW m \in Clusters, NEW i \in Slices, IsActive(m, level'[m])
                   PROVE  src[m][i] = Block(m, IF Added(m, i)' THEN Shl[level'[m] + 1]
                                               ELSE Shl[level'[m]])
      BY <1>1 DEF Blocks, Added
    <3>2. CASE m = k
      <4>1. ~Added(k, i)'
        BY <2>2 DEF Added
      <4>2. IsActive(k, level[k]) /\ ~IsSender(k, level[k])
        BY <1>2, <1>4, <3>1, <3>2, Partners
      <4>3. src[k][i] = Block(k, Shl[level[k] + 1])
        BY <1>1, <2>1, <4>2 DEF Data, Blocks, Added
      <4> QED BY <1>4, <3>2, <4>1, <4>3
    <3>3. CASE m # k
      BY <1>4, <2>1, <3>1, <3>3 DEF Data, Blocks, Added
    <3> QED BY <3>2, <3>3
  <2> QED BY <2>3, <2>4, <2>5 DEF Data
<1> QED BY <1>5, <1>6, <1>7, <1>8
--------------------------------------------------------------------------------
LEMMA NextIInv ==
    ASSUME FullTree, IInv, [Next]_vars
    PROVE  IInv'
<1>1. CASE UNCHANGED vars
  BY <1>1 DEF vars, IInv, TypeOK, Shape, Lockstep, Data, Blocks, Sent, Arrived,
              Added, Sending, Receiving
<1>2. ASSUME NEW k \in Clusters, Send(k) PROVE IInv'
  BY <1>2, SendIInv
<1>3. ASSUME NEW k \in Clusters, SkipSend(k) PROVE IInv'
  BY <1>3, SkipSendIInv
<1>4. ASSUME NEW k \in Clusters, NextLevel(k) PROVE IInv'
  BY <1>4, NextLevelIInv
<1>5. ASSUME NEW k \in Clusters, NEW i \in Slices, ReduceSlice(k, i) PROVE IInv'
  BY <1>5, ReduceSliceIInv
<1>6. CASE GlobalBarrier
  BY <1>6, GlobalBarrierIInv
<1> QED BY <1>1, <1>2, <1>3, <1>4, <1>5, <1>6 DEF Next

(* The invariant of the tree holds throughout: the global barrier keeps the
   clusters of snrt_global_reduction_dma within one level of each other, and as
   long as no buffer was overwritten too early every active cluster has exactly
   its block of 1 << level clusters in its source buffer. *)
THEOREM TreeInvariant == ASSUME FullTree PROVE Spec => []IInv
<1>1. Init => IInv
  BY InitIInv
<1>2. IInv /\ [Next]_vars => IInv'
  BY NextIInv
<1> QED BY <1>1, <1>2, PTL DEF Spec

LEMMA RootBlock ==
    ASSUME FullTree, IInv, phase[0] = "done", ~overwritten
    PROVE  \A i \in Slices, k \in Clusters : src[0][i][k] = 1
<1> SUFFICES ASSUME NEW i \in Slices, NEW k \in Clusters PROVE src[0][i][k] = 1
  OBVIOUS
<1>1. level[0] = NumLevels /\ core[0][i] = "done"
  BY Constants DEF IInv, Shape
<1>2. IsActive(0, level[0]) /\ ~Added(0, i)
  <2>1. PICK a \in Nat \ {0} : a = Shl[NumLevels]
    BY Constants, ShlType
  <2>2. 0 % a = 0
    OBVIOUS
  <2> QED BY <1>1, <2>1, <2>2 DEF IsActive, Added
<1>3. src[0][i] = Block(0, Size)
  BY <1>1, <1>2, Constants DEF IInv, Data, Blocks, FullTree
<1>4. 0 <= k /\ k < 0 + Size
  BY Constants DEF Clusters
<1> QED BY <1>3, <1>4 DEF Block

(* For every power of two of clusters and any number of compute cores, when
   cluster 0 returns from snrt_global_reduction_dma its source buffer holds the
   data of each cluster once, unless a sender of some level overwrote a buffer
   that was still to be added. *)
THEOREM SumUnlessTooEarly == ASSUME FullTree PROVE Spec => []SumUnlessOverwritten
<1>1. IInv => SumUnlessOverwritten
  BY RootBlock DEF SumUnlessOverwritten
<1> QED BY <1>1, TreeInvariant, PTL

(* Between two clusters nothing can be overwritten: there is one level, and its
   only send precedes the only barrier.  The sum is then right unconditionally. *)
THEOREM TwoClustersSum == ASSUME FullTree, NumLevels = 1 PROVE Spec => []RootHasTheSum
<1>1. Init => ~overwritten
  BY DEF Init
<1>2. IInv /\ ~overwritten /\ [Next]_vars => ~overwritten'
  <2> SUFFICES ASSUME IInv, ~overwritten, [Next]_vars PROVE ~overwritten'
    OBVIOUS
  <2>1. ASSUME NEW k \in Clusters, Send(k) PROVE ~overwritten'
    <3> DEFINE r == k - Shl[level[k]]
    <3>1. /\ phase[k] = "send" /\ Sending(k)
          /\ overwritten' = (overwritten \/ \E i \in Slices : core[r][i] = "reduce")
      BY <2>1 DEF Send, Sending
    <3>2. level[k] = 0 /\ level[k] \in Nat /\ level[k] < NumLevels
      BY <3>1, Working DEF IInv
    <3>3. r \in Clusters
      BY <3>1, <3>2, Partners DEF Sending
    <3> HIDE DEF r
    <3>4. phase[r] # "hw_barrier"
      <4>1. SUFFICES ASSUME phase[r] = "hw_barrier" PROVE FALSE
        OBVIOUS
      <4>2. level[r] = 0 /\ level[r] \in Nat
        BY <3>3, <4>1, Working DEF IInv
      <4> QED BY <3>1, <3>2, <3>3, <4>1, <4>2 DEF IInv, Lockstep
    <3>5. \A i \in Slices : core[r][i] # "reduce"
      BY <3>3, <3>4 DEF IInv, Shape, TypeOK, Stages
    <3> QED BY <3>1, <3>5
  <2>2. CASE UNCHANGED overwritten
    BY <2>2
  <2> QED BY <2>1, <2>2 DEF Next, vars, SkipSend, NextLevel, ReduceSlice, GlobalBarrier
<1>3. IInv /\ ~overwritten => RootHasTheSum
  BY RootBlock DEF RootHasTheSum
<1> QED BY <1>1, <1>2, <1>3, TreeInvariant, PTL DEF Spec
================================================================================
