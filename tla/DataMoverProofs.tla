---------------------------- MODULE DataMoverProofs -----------------------------
(***************************************************************************)
(* The data mover for any number of clients, any ring and any engine: the  *)
(* mutex excludes, queue_fill counts, and dm_wait returns only when what   *)
(* was queued before it has been transferred.  Where the ring cannot be    *)
(* overrun (one client, or no more tasks than slots) every task is handed  *)
(* to the engine exactly once, in order and as it was queued.              *)
(***************************************************************************)
EXTENDS DataMover, FiniteSetTheorems, TLAPS

(* Clients on their way to count a task; the bound of the model on tasks holds
   a place for each of them. *)
Reserved == {d \in Clients : pc[d] \in {"mc_poll", "mc_lock", "mc_insert", "mc_fill"}}

PlacesRight == Len(submitted) + Cardinality(Reserved) <= MaxTasks

(* The lock word and its holder. *)
LockRight ==
    /\ dm.mutex = 0 => \A c \in Clients : pc[c] \notin InCritical
    /\ MutualExclusion

(* queue_fill counts what is queued and not started, and the task being started. *)
Starting == dm_pc \in {"back", "fill--"}

FillRight ==
    /\ dm.queue_fill = Len(submitted) - Len(issued) + (IF Starting THEN 1 ELSE 0)
    /\ Len(issued) <= Len(submitted)
    /\ Starting => Len(issued) > 0
    /\ dm_pc = "start" => dm.queue_fill > 0
    /\ dm.dm_wfi = IF dm_pc \in {"wfi", "clear", "wfi--"} THEN 1 ELSE 0

(* A client that has posted its request and waits for the answer. *)
WaitAsks(c)  == pc[c] \in {"wait_spin2", "wait_set2", "wait_poll"}
ReadyAsks(c) == pc[c] \in {"ready_spin", "ready_set", "ready_poll"}
Asks(c)      == WaitAsks(c) \/ ReadyAsks(c)

(* A request belongs to a client that waits for it, or is about to be cleared;
   the answer is given at most once per request and only while its client
   waits for it. *)
RequestRight ==
    /\ dm.stat_q = "wait_idle" => dm_pc = "stat0" \/ \E c \in Clients : WaitAsks(c)
    /\ dm.stat_q = "ready" => dm_pc = "stat0" \/ \E c \in Clients : ReadyAsks(c)
    /\ dm_pc = "pvalid" => ~dm.stat_pvalid /\ \E c \in Clients : Asks(c)
    /\ dm.stat_pvalid /\ (\E c \in Clients : Asks(c)) =>
          dm.stat_q \notin {"wait_idle", "ready"} \/ dm_pc = "stat0"
    /\ \A c \in Clients : pc[c] \in {"wait_req", "ready_req"} => ~dm.stat_pvalid

(* What dm_wait has established at each of its accesses. *)
QueueSeenEmpty == {"wait_stat", "wait_lock", "wait_pvalid0", "wait_req", "wait_spin2",
                   "wait_set2", "wait_poll", "wait_release"}

WaitRightAt(c) ==
    /\ due[c] <= Len(submitted)
    /\ pc[c] \in QueueSeenEmpty => due[c] <= Len(issued)
    /\ WaitAsks(c) /\ (dm.stat_pvalid \/ dm_pc = "pvalid") => due[c] <= Completed
    /\ pc[c] = "wait_release" => due[c] <= Completed

WaitRight == \A c \in Clients : WaitRightAt(c)

IInv == TypeOK /\ PlacesRight /\ LockRight /\ FillRight /\ RequestRight /\ WaitRight

(* The ring cannot be overrun: with several clients the poll of queue_fill comes
   before the lock, so only a bound on the tasks keeps them within the ring. *)
NoOverrun == (\A c, d \in Clients : c = d) \/ MaxTasks <= QueueSize

RoomRight ==
    /\ dm.queue_fill <= QueueSize
    /\ \A c \in Clients : pc[c] \in {"mc_lock", "mc_insert", "mc_fill"} => dm.queue_fill < QueueSize

(* The ring as it will be once a started bump of an index is done. *)
Wrap(i) == IF i >= QueueSize THEN i - QueueSize ELSE i
Back    == IF dm_pc = "back" THEN Wrap(dm.queue_back + 1) ELSE dm.queue_back
Front   == IF \E c \in Clients : pc[c] = "mc_front" THEN Wrap(dm.queue_front + 1)
           ELSE dm.queue_front
Queued  == Len(submitted) - Len(issued)

(* The slots from Back to Front hold the tasks not yet started, in order, and a
   task that is written but not counted is in the slot at Front. *)
RingRight ==
    /\ Front = Wrap(Back + Queued)
    /\ \A i \in 0..(Queued - 1) : dm.queue[Wrap(Back + i)] = submitted[Len(issued) + 1 + i]
    /\ \A c \in Clients : pc[c] = "mc_fill" =>
          dm.queue[dm.queue_front] = [id |-> Len(submitted) + 1, twod |-> twod[c]]
    /\ \A i \in 1..Len(issued) : issued[i] = submitted[i]
--------------------------------------------------------------------------------
(* The constants as numbers. *)
LEMMA Sizes ==
    /\ QueueSize \in Nat /\ QueueSize > 0
    /\ DmaDepth \in Nat /\ DmaDepth > 0
    /\ MaxTasks \in Nat
BY DataMoverAssumption

(* The steps that are not a client's leave the clients and what they have
   submitted alone. *)
Served == DmStep \/ ClearLands \/ DmaComplete

LEMMA ServedFrame ==
    ASSUME Served
    PROVE  UNCHANGED <<pc, twod, fresh, submitted, due, asked>>
BY DEF Served, DmStep, DmCheckQueue, DmStartTransfer, DmBumpBack, DmDecrementFill,
       DmSwitchStat, DmAnswer, DmClearRequest, DmCheckSleep, DmAnnounceSleep, DmWakeUp,
       DmClearInterrupt, DmRevokeSleep, ClearLands, DmaComplete, client, history

(* A reserved place is there for every client on its way to count a task. *)
LEMMA ReservedFacts ==
    ASSUME TypeOK
    PROVE  /\ IsFiniteSet(Reserved) /\ Cardinality(Reserved) \in Nat
           /\ \A c \in Clients : c \in Reserved => Cardinality(Reserved) >= 1
<1>1. IsFiniteSet(Reserved)
  BY DataMoverAssumption, FS_Subset DEF Reserved
<1>2. Cardinality(Reserved) \in Nat
  BY <1>1, FS_CardinalityType
<1>3. ASSUME NEW c \in Clients, c \in Reserved PROVE Cardinality(Reserved) >= 1
  BY <1>1, <1>2, <1>3, FS_EmptySet
<1> QED
  BY <1>1, <1>2, <1>3

LEMMA InitTypeOK == Init => TypeOK
<1> SUFFICES ASSUME Init PROVE TypeOK
  OBVIOUS
<1>1. [id |-> 0, twod |-> FALSE] \in Tasks
  BY DataMoverAssumption DEF Tasks
<1>2. dm \in dm_t
  BY <1>1, DataMoverAssumption DEF Init, dm_t, Requests
<1>3. dm_pc \in DmPCs /\ pc \in [Clients -> ClientPCs]
  BY DEF Init, DmPCs, ClientPCs
<1>4. /\ engine \in Seq(Tasks) /\ submitted \in Seq(Tasks) /\ issued \in Seq(Tasks)
      /\ Len(engine) <= DmaDepth
  BY Sizes DEF Init
<1>5. do_exit \in BOOLEAN /\ irq \in [pending : BOOLEAN, clearing : BOOLEAN]
      /\ twod \in [Clients -> BOOLEAN]
  BY DEF Init
<1>6. due \in [Clients -> Nat] /\ asked \in Nat /\ fresh \in [Clients -> Nat]
  BY DEF Init
<1> QED
  BY <1>2, <1>3, <1>4, <1>5, <1>6 DEF TypeOK

(* The task a client writes or counts has a number within the bound. *)
LEMMA TaskType ==
    ASSUME TypeOK, PlacesRight, NEW c \in Clients, pc[c] \in {"mc_insert", "mc_fill"}
    PROVE  [id |-> Len(submitted) + 1, twod |-> twod[c]] \in Tasks
<1>1. c \in Reserved
  BY DEF Reserved
<1>2. Cardinality(Reserved) \in Nat /\ Cardinality(Reserved) >= 1
  BY <1>1, ReservedFacts
<1>3. Len(submitted) \in Nat
  BY DEF TypeOK
<1>4. Len(submitted) + 1 \in 0..MaxTasks
  BY <1>2, <1>3, Sizes DEF PlacesRight
<1>5. twod[c] \in BOOLEAN
  BY DEF TypeOK
<1> QED
  BY <1>4, <1>5 DEF Tasks

(* Every field of dm_t stays in its range. *)
LEMMA RecordStep ==
    ASSUME TypeOK, PlacesRight, FillRight, Next
    PROVE  dm' \in dm_t
<1> USE Sizes
<1>0. dm \in dm_t
  BY DEF TypeOK
<1>1. CASE DmBumpBack
  <2>1. (dm.queue_back + 1) % QueueSize \in 0..(QueueSize - 1)
    BY <1>0 DEF dm_t
  <2> QED
    BY <1>0, <1>1, <2>1 DEF DmBumpBack, dm_t
<1>2. CASE DmDecrementFill
  <2>1. dm.queue_fill - 1 \in Nat
    BY <1>0, <1>2 DEF DmDecrementFill, DmGoto, FillRight, Starting, TypeOK, dm_t
  <2> QED
    BY <1>0, <1>2, <2>1 DEF DmDecrementFill, dm_t
<1>3. CASE DmAnswer
  BY <1>0, <1>3 DEF DmAnswer, dm_t
<1>4. CASE DmClearRequest
  BY <1>0, <1>4 DEF DmClearRequest, dm_t, Requests
<1>5. CASE DmAnnounceSleep
  <2>1. dm.dm_wfi = 0
    BY <1>5 DEF DmAnnounceSleep, DmGoto, FillRight
  <2> QED
    BY <1>0, <1>5, <2>1 DEF DmAnnounceSleep, dm_t
<1>6. CASE DmRevokeSleep
  <2>1. dm.dm_wfi = 1
    BY <1>6 DEF DmRevokeSleep, DmGoto, FillRight
  <2> QED
    BY <1>0, <1>6, <2>1 DEF DmRevokeSleep, dm_t
<1>7. ASSUME NEW c \in Clients, ClientStep(c) PROVE dm' \in dm_t
  <2>1. CASE Lock(c)
    BY <1>0, <2>1 DEF Lock, dm_t
  <2>2. CASE Release(c)
    BY <1>0, <2>2 DEF Release, dm_t
  <2>3. CASE InsertTask(c)
    <3>1. pc[c] \in {"mc_insert", "mc_fill"}
      BY <2>3 DEF InsertTask, Goto
    <3>2. [id |-> Len(submitted) + 1, twod |-> twod[c]] \in Tasks
      BY <3>1, TaskType
    <3> QED
      BY <1>0, <2>3, <3>2 DEF InsertTask, dm_t
  <2>4. CASE BumpFill(c)
    <3>1. dm' = [dm EXCEPT !.queue_fill = @ + 1]
      BY <2>4 DEF BumpFill
    <3> QED
      BY <1>0, <3>1 DEF dm_t
  <2>5. CASE BumpFront(c)
    <3>1. (dm.queue_front + 1) % QueueSize \in 0..(QueueSize - 1)
      BY <1>0 DEF dm_t
    <3> QED
      BY <1>0, <2>5, <3>1 DEF BumpFront, dm_t
  <2>6. CASE InvalidateAnswer(c)
    BY <1>0, <2>6 DEF InvalidateAnswer, dm_t
  <2>7. CASE PostRequest(c)
    BY <1>0, <2>7 DEF PostRequest, dm_t, Requests
  <2> QED
    BY <1>0, <1>7, <2>1, <2>2, <2>3, <2>4, <2>5, <2>6, <2>7
    DEF ClientStep, PollQueue, WakeSpin, WakeSet, WaitQueueEmpty, WaitNoRequest, PollAnswer
<1> QED
  BY <1>0, <1>1, <1>2, <1>3, <1>4, <1>5, <1>6, <1>7
  DEF Next, DmStep, DmCheckQueue, DmStartTransfer, DmSwitchStat, DmCheckSleep, DmWakeUp,
      DmClearInterrupt, ClearLands, DmaComplete, Call

(* A client's next access. *)
LEMMA GotoType ==
    ASSUME TypeOK, NEW c \in Clients, NEW from, NEW to \in ClientPCs, Goto(c, from, to)
    PROVE  pc' \in [Clients -> ClientPCs]
BY DEF TypeOK, Goto

LEMMA TypeStep ==
    ASSUME TypeOK, PlacesRight, FillRight, [Next]_vars
    PROVE  TypeOK'
<1> USE Sizes
<1>1. CASE Served
  <2>1. dm' \in dm_t
    BY <1>1, RecordStep DEF Served, Next
  <2>2. UNCHANGED <<pc, twod, fresh, submitted, due, asked>>
    BY <1>1, ServedFrame
  <2> USE DEF Served, DmStep, DmCheckQueue, DmBumpBack, DmDecrementFill,
        DmSwitchStat, DmAnswer, DmClearRequest, DmCheckSleep, DmAnnounceSleep, DmWakeUp,
        DmClearInterrupt, DmRevokeSleep, ClearLands
  <2>3a. dm_pc' \in DmPCs
    BY <1>1 DEF DmStartTransfer, DmaComplete, core, DmGoto, LoopTop, DmPCs, TypeOK
  <2>3b. irq' \in [pending : BOOLEAN, clearing : BOOLEAN]
    <3>1. CASE DmClearInterrupt
      BY <3>1 DEF TypeOK
    <3>2. CASE ClearLands
      BY <3>2
    <3>3. CASE ~(DmClearInterrupt \/ ClearLands)
      <4>1. irq' = irq
        BY <1>1, <3>3 DEF DmStartTransfer, DmaComplete
      <4> QED
        BY <4>1 DEF TypeOK
    <3> QED
      BY <3>1, <3>2, <3>3
  <2>3c. do_exit' \in BOOLEAN
    BY <1>1 DEF DmStartTransfer, DmaComplete, core, TypeOK
  <2>4. /\ engine' \in Seq(Tasks) /\ Len(engine') <= DmaDepth
        /\ issued' \in Seq(Tasks)
    <3>1. CASE DmStartTransfer
      <4>1. dm.queue[dm.queue_back] \in Tasks
        BY DEF TypeOK, dm_t
      <4> QED
        BY <3>1, <4>1 DEF DmStartTransfer, TypeOK
    <3>2. CASE DmaComplete
      BY <3>2 DEF DmaComplete, TypeOK, history
    <3> QED
      BY <1>1, <3>1, <3>2 DEF TypeOK, history
  <2> QED
    BY <2>1, <2>2, <2>3a, <2>3b, <2>3c, <2>4 DEF TypeOK
<1>2. ASSUME NEW c \in Clients, NEW op \in Ops, Call(c, op) PROVE TypeOK'
  <2>1. op \in {"memcpy", "memcpy2d", "start", "wait", "ready", "exit"}
    BY DataMoverAssumption
  <2>2. Entry[op] \in {"mc_poll", "start_spin", "wait_spin", "ready_lock", "exit_req"}
    BY <2>1 DEF Entry
  <2>3. Entry[op] \in ClientPCs
    BY <2>2 DEF ClientPCs
  <2>4. pc' \in [Clients -> ClientPCs]
    BY <1>2, <2>3, GotoType DEF Call
  <2>5. due' \in [Clients -> Nat] /\ twod' \in [Clients -> BOOLEAN]
    BY <1>2 DEF Call, TypeOK
  <2> QED
    BY <1>2, <2>4, <2>5 DEF Call, TypeOK, core
<1>3. ASSUME NEW c \in Clients, ClientStep(c) PROVE TypeOK'
  <2>1. dm' \in dm_t
    BY <1>3, RecordStep DEF Next
  <2>2. pc' \in [Clients -> ClientPCs]
    <3>1. PICK from, to \in ClientPCs : Goto(c, from, to)
      BY <1>3
      DEF ClientStep, PollQueue, Lock, Release, InsertTask, BumpFill, BumpFront, WakeSpin,
          WakeSet, WaitQueueEmpty, WaitNoRequest, InvalidateAnswer, PostRequest, PollAnswer,
          ClientPCs, InCritical
    <3> QED
      BY <3>1, GotoType
  <2>3. submitted' \in Seq(Tasks)
    <3>1. CASE BumpFill(c)
      <4>1. [id |-> Len(submitted) + 1, twod |-> twod[c]] \in Tasks
        BY <3>1, TaskType DEF BumpFill, Goto
      <4> QED
        BY <3>1, <4>1 DEF BumpFill, TypeOK
    <3> QED
      BY <1>3, <3>1
      DEF ClientStep, PollQueue, Lock, Release, InsertTask, BumpFront, WakeSpin,
          WakeSet, WaitQueueEmpty, WaitNoRequest, InvalidateAnswer, PostRequest, PollAnswer,
          TypeOK, history
  <2>4. CASE WakeSet(c)
    <3>1. irq' \in [pending : BOOLEAN, clearing : BOOLEAN]
      BY <2>4 DEF WakeSet, TypeOK
    <3>2. fresh' \in [Clients -> Nat] /\ asked' \in Nat
      BY <2>4 DEF WakeSet, TypeOK
    <3> QED
      BY <2>1, <2>2, <2>3, <2>4, <3>1, <3>2 DEF WakeSet, core, TypeOK
  <2>5. CASE Release(c)
    <3>1. due' \in [Clients -> Nat]
      BY <2>5 DEF Release, TypeOK
    <3> QED
      BY <2>1, <2>2, <2>3, <2>5, <3>1 DEF Release, core, TypeOK
  <2>6. CASE BumpFill(c)
    <3>1. fresh' \in [Clients -> Nat]
      BY <2>6 DEF BumpFill, TypeOK
    <3> QED
      BY <2>1, <2>2, <2>3, <2>6, <3>1 DEF BumpFill, core, TypeOK
  <2>7. CASE ~(WakeSet(c) \/ Release(c) \/ BumpFill(c))
    <3>1. UNCHANGED <<irq, engine, core, twod, fresh, issued, due, asked>>
      BY <1>3, <2>7
      DEF ClientStep, PollQueue, Lock, InsertTask, BumpFront, WakeSpin, WaitQueueEmpty,
          WaitNoRequest, InvalidateAnswer, PostRequest, PollAnswer, history
    <3> QED
      BY <2>1, <2>2, <2>3, <3>1 DEF core, TypeOK
  <2> QED
    BY <2>4, <2>5, <2>6, <2>7
<1>4. CASE UNCHANGED vars
  BY <1>4 DEF vars, core, client, history, TypeOK
<1> QED
  BY <1>1, <1>2, <1>3, <1>4 DEF Next, Served
--------------------------------------------------------------------------------
(* What a step that is not a client's leaves alone in dm_t. *)
LEMMA ServedFields ==
    ASSUME TypeOK, Served
    PROVE  /\ dm'.queue = dm.queue /\ dm'.queue_front = dm.queue_front /\ dm'.mutex = dm.mutex
           /\ DmBumpBack \/ dm'.queue_back = dm.queue_back
           /\ DmDecrementFill \/ dm'.queue_fill = dm.queue_fill
           /\ DmAnswer \/ dm'.stat_pvalid = dm.stat_pvalid
           /\ DmClearRequest \/ dm'.stat_q = dm.stat_q
           /\ DmAnnounceSleep \/ DmRevokeSleep \/ dm'.dm_wfi = dm.dm_wfi
           /\ DmStartTransfer \/ issued' = issued
           /\ DmStartTransfer \/ DmaComplete \/ engine' = engine
BY DEF Served, DmStep, DmCheckQueue, DmStartTransfer, DmBumpBack, DmDecrementFill,
       DmSwitchStat, DmAnswer, DmClearRequest, DmCheckSleep, DmAnnounceSleep, DmWakeUp,
       DmClearInterrupt, DmRevokeSleep, ClearLands, DmaComplete, core, client, history,
       TypeOK, dm_t

(* What a client's step leaves alone. *)
Acts(c) == ClientStep(c) \/ \E op \in Ops : Call(c, op)

LEMMA ActsFrame ==
    ASSUME TypeOK, NEW c \in Clients, Acts(c)
    PROVE  /\ UNCHANGED <<engine, dm_pc, do_exit, issued>>
           /\ \A d \in Clients \ {c} : pc'[d] = pc[d] /\ twod'[d] = twod[d]
           /\ (\E op \in Ops : Call(c, op)) \/ twod' = twod
           /\ (\E op \in Ops : Call(c, op)) \/ Release(c) \/ due' = due
           /\ BumpFill(c) \/ submitted' = submitted
BY DEF Acts, ClientStep, PollQueue, Lock, Release, InsertTask, BumpFill, BumpFront, WakeSpin,
       WakeSet, WaitQueueEmpty, WaitNoRequest, InvalidateAnswer, PostRequest, PollAnswer,
       Call, Goto, core, history, TypeOK

LEMMA ActsFields ==
    ASSUME TypeOK, NEW c \in Clients, Acts(c)
    PROVE  /\ dm'.queue_back = dm.queue_back /\ dm'.dm_wfi = dm.dm_wfi
           /\ InsertTask(c) \/ dm'.queue = dm.queue
           /\ BumpFront(c) \/ dm'.queue_front = dm.queue_front
           /\ BumpFill(c) \/ dm'.queue_fill = dm.queue_fill
           /\ Lock(c) \/ Release(c) \/ dm'.mutex = dm.mutex
           /\ InvalidateAnswer(c) \/ dm'.stat_pvalid = dm.stat_pvalid
           /\ PostRequest(c) \/ dm'.stat_q = dm.stat_q
BY DEF Acts, ClientStep, PollQueue, Lock, Release, InsertTask, BumpFill, BumpFront, WakeSpin,
       WakeSet, WaitQueueEmpty, WaitNoRequest, InvalidateAnswer, PostRequest, PollAnswer,
       Call, core, history, TypeOK, dm_t

(* A step is a client's, or not. *)
LEMMA NextSplit ==
    ASSUME [Next]_vars
    PROVE  Served \/ (\E c \in Clients : Acts(c)) \/ UNCHANGED vars
BY DEF Next, Served, Acts

(* A place is reserved on the way in, and used up when the task is counted. *)
LEMMA PlacesStep ==
    ASSUME TypeOK, PlacesRight, [Next]_vars
    PROVE  PlacesRight'
<1> DEFINE InMemcpy == {"mc_poll", "mc_lock", "mc_insert", "mc_fill"}
<1>0. Len(submitted) \in Nat /\ IsFiniteSet(Reserved) /\ Cardinality(Reserved) \in Nat
  BY ReservedFacts DEF TypeOK
<1>1. CASE Served \/ UNCHANGED vars
  <2>1. pc' = pc /\ submitted' = submitted
    BY <1>1, ServedFrame DEF vars, client, history
  <2> QED
    BY <2>1 DEF PlacesRight, Reserved
<1>2. ASSUME NEW c \in Clients, Acts(c) PROVE PlacesRight'
  <2>1. \A d \in Clients \ {c} : pc'[d] = pc[d]
    BY <1>2, ActsFrame
  <2>2. ASSUME pc'[c] \in InMemcpy => pc[c] \in InMemcpy, submitted' = submitted
        PROVE  PlacesRight'
    <3>1. Reserved' \subseteq Reserved
      BY <2>1, <2>2 DEF Reserved
    <3>2. Cardinality(Reserved') <= Cardinality(Reserved) /\ Cardinality(Reserved') \in Nat
      BY <1>0, <3>1, FS_Subset, FS_CardinalityType
    <3> QED
      BY <1>0, <2>2, <3>2, Sizes DEF PlacesRight
  <2>3. ASSUME NEW op \in Ops, Call(c, op) PROVE PlacesRight'
    <3>1. submitted' = submitted /\ pc[c] = "idle" /\ pc'[c] = Entry[op]
      BY <2>3 DEF Call, Goto, TypeOK
    <3>2. CASE op \in {"memcpy", "memcpy2d"}
      <4>1. Len(submitted) + Cardinality(Reserved) < MaxTasks
        BY <2>3, <3>2 DEF Call, Reserved
      <4>2. Reserved' = Reserved \cup {c} /\ c \notin Reserved
        BY <2>1, <3>1, <3>2 DEF Reserved, Entry
      <4>3. Cardinality(Reserved') = Cardinality(Reserved) + 1
        BY <1>0, <4>2, FS_AddElement
      <4> QED
        BY <1>0, <3>1, <4>1, <4>3, Sizes DEF PlacesRight
    <3>3. CASE op \notin {"memcpy", "memcpy2d"}
      <4>1. op \in {"start", "wait", "ready", "exit"}
        BY <3>3, DataMoverAssumption
      <4>2. Entry[op] \notin InMemcpy
        BY <4>1 DEF Entry
      <4> QED
        BY <2>2, <3>1, <4>2
    <3> QED
      BY <3>2, <3>3
  <2>4. CASE BumpFill(c)
    <3>1. /\ submitted' = Append(submitted, [id |-> Len(submitted) + 1, twod |-> twod[c]])
          /\ pc[c] = "mc_fill" /\ pc'[c] = "mc_front"
      BY <2>4 DEF BumpFill, Goto, TypeOK
    <3>2. Len(submitted') = Len(submitted) + 1
      BY <3>1 DEF TypeOK
    <3>3. Reserved' = Reserved \ {c} /\ c \in Reserved
      BY <2>1, <3>1 DEF Reserved
    <3>4. Cardinality(Reserved') = Cardinality(Reserved) - 1
      BY <1>0, <3>3, FS_RemoveElement
    <3> QED
      BY <1>0, <3>2, <3>4, Sizes DEF PlacesRight
  <2>5. CASE ClientStep(c) /\ ~BumpFill(c)
    <3>1. submitted' = submitted
      BY <1>2, <2>3, <2>5, ActsFrame DEF Call
    <3>2. pc'[c] \in InMemcpy => pc[c] \in InMemcpy
      BY <2>5 DEF ClientStep, PollQueue, Lock, Release, InsertTask, BumpFront, WakeSpin,
       WakeSet, WaitQueueEmpty, WaitNoRequest, InvalidateAnswer, PostRequest, PollAnswer,
       Goto, TypeOK
    <3> QED
      BY <2>2, <3>1, <3>2
  <2> QED
    BY <1>2, <2>3, <2>4, <2>5 DEF Acts
<1> QED
  BY <1>1, <1>2, NextSplit

(* The mutex excludes. *)
LEMMA LockStep ==
    ASSUME TypeOK, LockRight, [Next]_vars
    PROVE  LockRight'
<1>1. CASE Served \/ UNCHANGED vars
  <2>1. pc' = pc /\ dm'.mutex = dm.mutex
    BY <1>1, ServedFrame, ServedFields DEF vars, client
  <2> QED
    BY <2>1 DEF LockRight, MutualExclusion
<1>2. ASSUME NEW c \in Clients, Acts(c) PROVE LockRight'
  <2>1. \A d \in Clients \ {c} : pc'[d] = pc[d]
    BY <1>2, ActsFrame
  <2>2. CASE Lock(c)
    <3>1. dm.mutex = 0 /\ dm'.mutex = 1
      BY <2>2 DEF Lock, TypeOK, dm_t
    <3> QED
      BY <2>1, <3>1 DEF LockRight, MutualExclusion
  <2>3. CASE Release(c)
    <3>1. pc[c] \in InCritical /\ pc'[c] \notin InCritical
      BY <2>3 DEF Release, Goto, TypeOK, InCritical
    <3> QED
      BY <2>1, <3>1 DEF LockRight, MutualExclusion
  <2>4. CASE ~(Lock(c) \/ Release(c))
    <3>1. dm'.mutex = dm.mutex
      BY <1>2, <2>4, ActsFields
    <3>2. pc'[c] \in InCritical => pc[c] \in InCritical
      <4>1. ASSUME NEW op \in Ops, Call(c, op) PROVE pc'[c] \notin InCritical
        <5>1. op \in {"memcpy", "memcpy2d", "start", "wait", "ready", "exit"}
          BY DataMoverAssumption
        <5>2. Entry[op] \in {"mc_poll", "start_spin", "wait_spin", "ready_lock", "exit_req"}
          BY <5>1 DEF Entry
        <5> QED
          BY <4>1, <5>2 DEF Call, Goto, TypeOK, InCritical
      <4>2. CASE ClientStep(c)
        BY <2>4, <4>2
        DEF ClientStep, PollQueue, InsertTask, BumpFill, BumpFront, WakeSpin,
            WakeSet, WaitQueueEmpty, WaitNoRequest, InvalidateAnswer, PostRequest, PollAnswer,
            Goto, TypeOK, InCritical
      <4> QED
        BY <1>2, <4>1, <4>2 DEF Acts
    <3> QED
      BY <2>1, <3>1, <3>2 DEF LockRight, MutualExclusion
  <2> QED
    BY <2>2, <2>3, <2>4
<1> QED
  BY <1>1, <1>2, NextSplit

(* queue_fill counts, and dm_wfi is set exactly while the DM core sleeps. *)
LEMMA FillStep ==
    ASSUME TypeOK, FillRight, [Next]_vars
    PROVE  FillRight'
<1>0. /\ Len(submitted) \in Nat /\ Len(issued) \in Nat
      /\ dm.queue_fill \in Nat /\ dm.dm_wfi \in {0, 1}
  BY DEF TypeOK, dm_t
<1>1. CASE Served
  <2>0. submitted' = submitted
    BY <1>1, ServedFrame
  <2>1. CASE DmStartTransfer
    <3>1. /\ dm_pc = "start" /\ dm_pc' = "back" /\ dm' = dm
          /\ issued' = Append(issued, dm.queue[dm.queue_back])
      BY <2>1 DEF DmStartTransfer, DmGoto
    <3>2. Len(issued') = Len(issued) + 1
      BY <3>1 DEF TypeOK
    <3> QED
      BY <1>0, <2>0, <3>1, <3>2 DEF FillRight, Starting
  <2>2. CASE DmDecrementFill
    <3>1. dm_pc = "fill--" /\ dm_pc' = "stat?" /\ dm'.queue_fill = dm.queue_fill - 1
      BY <2>2 DEF DmDecrementFill, DmGoto, TypeOK, dm_t
    <3>2. issued' = issued /\ dm'.dm_wfi = dm.dm_wfi
      BY <2>2 DEF DmDecrementFill, history, TypeOK, dm_t
    <3> QED
      BY <1>0, <2>0, <3>1, <3>2 DEF FillRight, Starting
  <2>3. CASE ~(DmStartTransfer \/ DmDecrementFill)
    <3>1. issued' = issued /\ dm'.queue_fill = dm.queue_fill
      BY <1>1, <2>3, ServedFields
    <3>2. /\ Starting' <=> Starting
          /\ dm_pc' = "start" => dm.queue_fill # 0
      BY <1>1, <2>3
      DEF Served, DmStep, DmCheckQueue, DmBumpBack, DmSwitchStat, DmAnswer, DmClearRequest,
          DmCheckSleep, DmAnnounceSleep, DmWakeUp, DmClearInterrupt, DmRevokeSleep,
          ClearLands, DmaComplete, core, DmGoto, LoopTop, Starting, FillRight
    <3>3. dm'.dm_wfi = IF dm_pc' \in {"wfi", "clear", "wfi--"} THEN 1 ELSE 0
      <4>0. dm.dm_wfi = IF dm_pc \in {"wfi", "clear", "wfi--"} THEN 1 ELSE 0
        BY DEF FillRight
      <4>1. CASE DmAnnounceSleep
        BY <4>0, <4>1 DEF DmAnnounceSleep, DmGoto, TypeOK, dm_t
      <4>2. CASE DmRevokeSleep
        BY <4>0, <4>2 DEF DmRevokeSleep, DmGoto, LoopTop, TypeOK, dm_t
      <4>3. CASE ~(DmAnnounceSleep \/ DmRevokeSleep)
        <5>1. dm'.dm_wfi = dm.dm_wfi
          BY <1>1, <4>3, ServedFields
        <5>2. dm_pc' \in {"wfi", "clear", "wfi--"} <=> dm_pc \in {"wfi", "clear", "wfi--"}
          BY <1>1, <2>3, <4>3
          DEF Served, DmStep, DmCheckQueue, DmBumpBack, DmSwitchStat, DmAnswer,
              DmClearRequest, DmCheckSleep, DmWakeUp, DmClearInterrupt,
              ClearLands, DmaComplete, core, DmGoto, LoopTop
        <5> QED
          BY <4>0, <5>1, <5>2
      <4> QED
        BY <4>1, <4>2, <4>3
    <3>4. dm_pc' = "start" => dm'.queue_fill > 0
      BY <1>0, <3>1, <3>2
    <3> QED
      BY <2>0, <3>1, <3>2, <3>3, <3>4 DEF FillRight
  <2> QED
    BY <2>1, <2>2, <2>3
<1>2. ASSUME NEW c \in Clients, Acts(c) PROVE FillRight'
  <2>1. dm_pc' = dm_pc /\ issued' = issued /\ dm'.dm_wfi = dm.dm_wfi
    BY <1>2, ActsFrame, ActsFields
  <2>2. CASE BumpFill(c)
    <3>1. /\ dm'.queue_fill = dm.queue_fill + 1
          /\ submitted' = Append(submitted, [id |-> Len(submitted) + 1, twod |-> twod[c]])
      BY <2>2 DEF BumpFill, TypeOK, dm_t
    <3>2. Len(submitted') = Len(submitted) + 1
      BY <3>1 DEF TypeOK
    <3> QED
      BY <1>0, <2>1, <3>1, <3>2 DEF FillRight, Starting
  <2>3. CASE ~BumpFill(c)
    <3>1. submitted' = submitted /\ dm'.queue_fill = dm.queue_fill
      BY <1>2, <2>3, ActsFrame, ActsFields
    <3> QED
      BY <2>1, <3>1 DEF FillRight, Starting
  <2> QED
    BY <2>2, <2>3
<1>3. CASE UNCHANGED vars
  BY <1>3 DEF vars, core, history, FillRight, Starting
<1> QED
  BY <1>1, <1>2, <1>3, NextSplit

(* A client that waits for an answer is inside the mutex. *)
LEMMA AskersExclude ==
    ASSUME TypeOK, LockRight, NEW c \in Clients, NEW d \in Clients,
           Asks(c) \/ pc[c] \in {"wait_req", "ready_req"},
           Asks(d) \/ pc[d] \in {"wait_req", "ready_req"}
    PROVE  c = d
BY DEF LockRight, MutualExclusion, InCritical, Asks, WaitAsks, ReadyAsks

(* Requests are answered one at a time. *)
LEMMA RequestStep ==
    ASSUME TypeOK, LockRight, RequestRight, [Next]_vars
    PROVE  RequestRight'
<1>1. CASE Served
  <2>1. pc' = pc
    BY <1>1, ServedFrame
  <2>2. \A c \in Clients : /\ WaitAsks(c)' <=> WaitAsks(c)
                           /\ ReadyAsks(c)' <=> ReadyAsks(c)
                           /\ Asks(c)' <=> Asks(c)
    BY <2>1 DEF WaitAsks, ReadyAsks, Asks
  <2>3. CASE DmSwitchStat
    <3>1. /\ dm_pc = "stat?" /\ dm' = dm
          /\ dm_pc' \in {"pvalid", "sleep?"}
          /\ dm_pc' = "pvalid" => dm.stat_q \in {"wait_idle", "ready"}
      BY <2>3 DEF DmSwitchStat, DmGoto
    <3> QED
      BY <2>1, <2>2, <3>1 DEF RequestRight, Asks
  <2>4. CASE DmAnswer
    <3>1. dm_pc = "pvalid" /\ dm_pc' = "stat0" /\ dm'.stat_pvalid = TRUE /\ dm'.stat_q = dm.stat_q
      BY <2>4 DEF DmAnswer, DmGoto, TypeOK, dm_t
    <3>2. PICK d \in Clients : Asks(d)
      BY <3>1 DEF RequestRight
    <3>3. \A c \in Clients : pc[c] \notin {"wait_req", "ready_req"}
      <4> SUFFICES ASSUME NEW c \in Clients, pc[c] \in {"wait_req", "ready_req"} PROVE FALSE
        OBVIOUS
      <4>1. c = d
        BY <3>2, AskersExclude
      <4> QED
        BY <3>2, <4>1 DEF Asks, WaitAsks, ReadyAsks
    <3> QED
      BY <2>1, <3>1, <3>3 DEF RequestRight
  <2>5. CASE DmClearRequest
    <3>1. dm_pc' = "sleep?" /\ dm'.stat_pvalid = dm.stat_pvalid /\ dm'.stat_q = "none"
      BY <2>5 DEF DmClearRequest, DmGoto, TypeOK, dm_t
    <3> QED
      BY <2>1, <3>1 DEF RequestRight
  <2>6. CASE ~(DmSwitchStat \/ DmAnswer \/ DmClearRequest)
    <3>1. dm'.stat_pvalid = dm.stat_pvalid /\ dm'.stat_q = dm.stat_q
      BY <1>1, <2>6, ServedFields
    <3>2. dm_pc' = dm_pc \/ (dm_pc # "stat0" /\ dm_pc' \notin {"stat0", "pvalid"})
      BY <1>1, <2>6
      DEF Served, DmStep, DmCheckQueue, DmStartTransfer, DmBumpBack, DmDecrementFill,
          DmCheckSleep, DmAnnounceSleep, DmWakeUp, DmClearInterrupt, DmRevokeSleep,
          ClearLands, DmaComplete, core, DmGoto, LoopTop
    <3> QED
      BY <2>1, <2>2, <3>1, <3>2 DEF RequestRight
  <2> QED
    BY <2>3, <2>4, <2>5, <2>6
<1>2. ASSUME NEW c \in Clients, Acts(c) PROVE RequestRight'
  <2>1. dm_pc' = dm_pc /\ \A d \in Clients \ {c} : pc'[d] = pc[d]
    BY <1>2, ActsFrame
  <2>2. \A d \in Clients \ {c} : /\ WaitAsks(d)' <=> WaitAsks(d)
                                 /\ ReadyAsks(d)' <=> ReadyAsks(d)
                                 /\ Asks(d)' <=> Asks(d)
    BY <2>1 DEF WaitAsks, ReadyAsks, Asks
  <2>3. CASE InvalidateAnswer(c)
    <3>1. /\ pc[c] \in {"wait_pvalid0", "ready_pvalid0"} /\ pc'[c] \in {"wait_req", "ready_req"}
          /\ dm'.stat_pvalid = FALSE /\ dm'.stat_q = dm.stat_q
      BY <2>3 DEF InvalidateAnswer, Goto, TypeOK, dm_t
    <3>2. ~Asks(c)
      BY <3>1 DEF Asks, WaitAsks, ReadyAsks
    <3> QED
      BY <2>1, <2>2, <3>1, <3>2 DEF RequestRight, Asks
  <2>4. CASE PostRequest(c)
    <3>1. dm'.stat_pvalid = dm.stat_pvalid
      BY <2>4 DEF PostRequest, TypeOK, dm_t
    <3>2. \/ pc[c] = "wait_req" /\ pc'[c] = "wait_spin2" /\ dm'.stat_q = "wait_idle"
          \/ pc[c] = "ready_req" /\ pc'[c] = "ready_spin" /\ dm'.stat_q = "ready"
          \/ pc[c] = "exit_req" /\ pc'[c] = "exit_spin" /\ dm'.stat_q = "exit"
      BY <2>4 DEF PostRequest, Goto, TypeOK, dm_t
    <3>3. ~Asks(c)
      BY <3>2 DEF Asks, WaitAsks, ReadyAsks
    <3>4. /\ WaitAsks(c)' <=> pc[c] = "wait_req"
          /\ ReadyAsks(c)' <=> pc[c] = "ready_req"
          /\ Asks(c)' <=> pc[c] \in {"wait_req", "ready_req"}
      BY <3>2 DEF Asks, WaitAsks, ReadyAsks
    <3> QED
      BY <2>1, <2>2, <3>1, <3>2, <3>3, <3>4 DEF RequestRight
  <2>5. CASE PollAnswer(c)
    <3>1. /\ pc'[c] \in {"wait_release", "ready_release"} /\ Asks(c)
          /\ dm.stat_pvalid /\ dm' = dm
      BY <2>5 DEF PollAnswer, Goto, TypeOK, Asks, WaitAsks, ReadyAsks
    <3> QED
      BY <2>1, <2>2, <3>1 DEF RequestRight
  <2>6. CASE ~(InvalidateAnswer(c) \/ PostRequest(c) \/ PollAnswer(c))
    <3>1. dm'.stat_pvalid = dm.stat_pvalid /\ dm'.stat_q = dm.stat_q
      BY <1>2, <2>6, ActsFields
    <3>2. /\ WaitAsks(c)' <=> WaitAsks(c)
          /\ ReadyAsks(c)' <=> ReadyAsks(c)
          /\ pc'[c] \notin {"wait_req", "ready_req"}
      <4>1. ASSUME NEW op \in Ops, Call(c, op) PROVE <3>2!:
        <5>1. op \in {"memcpy", "memcpy2d", "start", "wait", "ready", "exit"}
          BY DataMoverAssumption
        <5>2. Entry[op] \in {"mc_poll", "start_spin", "wait_spin", "ready_lock", "exit_req"}
          BY <5>1 DEF Entry
        <5> QED
          BY <4>1, <5>2 DEF Call, Goto, TypeOK, WaitAsks, ReadyAsks
      <4>2. CASE ClientStep(c)
        BY <2>6, <4>2
        DEF ClientStep, PollQueue, Lock, Release, InsertTask, BumpFill, BumpFront, WakeSpin,
            WakeSet, WaitQueueEmpty, WaitNoRequest, Goto, TypeOK, WaitAsks, ReadyAsks
      <4> QED
        BY <1>2, <4>1, <4>2 DEF Acts
    <3> QED
      BY <2>1, <2>2, <3>1, <3>2 DEF RequestRight, Asks
  <2> QED
    BY <2>3, <2>4, <2>5, <2>6
<1>3. CASE UNCHANGED vars
  BY <1>3 DEF vars, core, client, RequestRight, Asks, WaitAsks, ReadyAsks
<1> QED
  BY <1>1, <1>2, <1>3, NextSplit

(* What dm_wait has established stays true: the engine only completes more. *)
LEMMA WaitStep ==
    ASSUME TypeOK, LockRight, FillRight, RequestRight, WaitRight, [Next]_vars
    PROVE  WaitRight'
<1>0. /\ Len(submitted) \in Nat /\ Len(issued) \in Nat /\ Len(engine) \in Nat
      /\ \A d \in Clients : due[d] \in Nat
  BY DEF TypeOK
<1>1. \A d \in Clients : WaitRightAt(d)
  BY DEF WaitRight
<1>2. CASE Served
  <2>1. pc' = pc /\ due' = due /\ submitted' = submitted
    BY <1>2, ServedFrame
  <2>2. Len(issued') \in Nat /\ Len(issued') >= Len(issued)
        /\ Completed \in Int /\ Completed' \in Int /\ Completed' >= Completed
    <3>1. CASE DmStartTransfer
      <4>1. /\ engine' = Append(engine, dm.queue[dm.queue_back])
            /\ issued' = Append(issued, dm.queue[dm.queue_back])
        BY <3>1 DEF DmStartTransfer
      <4>2. Len(engine') = Len(engine) + 1 /\ Len(issued') = Len(issued) + 1
        BY <4>1 DEF TypeOK
      <4> QED
        BY <1>0, <4>2 DEF Completed
    <3>2. CASE DmaComplete
      <4>1. issued' = issued /\ engine # <<>> /\ engine' = Tail(engine)
        BY <3>2 DEF DmaComplete, history
      <4>2. Len(engine') = Len(engine) - 1
        BY <4>1 DEF TypeOK
      <4> QED
        BY <1>0, <4>1, <4>2 DEF Completed
    <3>3. CASE ~(DmStartTransfer \/ DmaComplete)
      <4>1. issued' = issued /\ engine' = engine
        BY <1>2, <3>3, ServedFields
      <4> QED
        BY <1>0, <4>1 DEF Completed
    <3> QED
      BY <3>1, <3>2, <3>3
  <2>3. ASSUME NEW c \in Clients, WaitAsks(c)', dm'.stat_pvalid \/ dm_pc' = "pvalid"
        PROVE  due[c] <= Completed
    <3>0. WaitAsks(c)
      BY <2>1, <2>3 DEF WaitAsks
    <3>1. CASE dm.stat_pvalid \/ dm_pc = "pvalid"
      BY <1>1, <3>0, <3>1 DEF WaitRightAt
    <3>2. CASE ~(dm.stat_pvalid \/ dm_pc = "pvalid")
      <4>1. DmSwitchStat
        BY <1>2, <2>3, <3>2, ServedFields
        DEF Served, DmStep, DmCheckQueue, DmStartTransfer, DmBumpBack, DmDecrementFill,
            DmAnswer, DmClearRequest, DmCheckSleep, DmAnnounceSleep, DmWakeUp,
            DmClearInterrupt, DmRevokeSleep, ClearLands, DmaComplete, core, DmGoto, LoopTop
      <4>2. dm_pc = "stat?" /\ dm' = dm
        BY <4>1 DEF DmSwitchStat, DmGoto
      <4>3. \/ dm.stat_q = "wait_idle" /\ engine = <<>>
            \/ dm.stat_q = "ready"
        BY <2>3, <3>2, <4>1, <4>2 DEF DmSwitchStat, DmGoto
      <4>4. dm.stat_q # "ready"
        <5> SUFFICES ASSUME dm.stat_q = "ready" PROVE FALSE
          OBVIOUS
        <5>1. PICK d \in Clients : ReadyAsks(d)
          BY <4>2 DEF RequestRight
        <5>2. c = d
          BY <3>0, <5>1, AskersExclude DEF Asks
        <5> QED
          BY <3>0, <5>1, <5>2 DEF WaitAsks, ReadyAsks
      <4>5. engine = <<>>
        BY <4>3, <4>4
      <4>6. Completed = Len(issued)
        BY <1>0, <4>5 DEF Completed
      <4>7. due[c] <= Len(issued)
        BY <1>1, <3>0 DEF WaitRightAt, WaitAsks, QueueSeenEmpty
      <4> QED
        BY <4>6, <4>7
    <3> QED
      BY <3>1, <3>2
  <2>4. ASSUME NEW c \in Clients PROVE WaitRightAt(c)'
    <3>1. due[c] <= Len(submitted)
      BY <1>1 DEF WaitRightAt
    <3>2. pc[c] \in QueueSeenEmpty => due[c] <= Len(issued')
      BY <1>0, <1>1, <2>2 DEF WaitRightAt
    <3>3. WaitAsks(c)' /\ (dm'.stat_pvalid \/ dm_pc' = "pvalid") => due[c] <= Completed'
      BY <1>0, <2>2, <2>3
    <3>4. pc[c] = "wait_release" => due[c] <= Completed'
      BY <1>0, <1>1, <2>2 DEF WaitRightAt
    <3> QED
      BY <2>1, <3>1, <3>2, <3>3, <3>4 DEF WaitRightAt
  <2> QED
    BY <2>4 DEF WaitRight
<1>3. ASSUME NEW c \in Clients, Acts(c) PROVE WaitRight'
  <2>1. /\ dm_pc' = dm_pc /\ issued' = issued /\ engine' = engine
        /\ \A d \in Clients \ {c} : pc'[d] = pc[d] /\ due'[d] = due[d]
    <3>1. \A d \in Clients \ {c} : due'[d] = due[d]
      <4>1. ASSUME NEW op \in Ops, Call(c, op) PROVE \A d \in Clients \ {c} : due'[d] = due[d]
        BY <4>1 DEF Call, TypeOK
      <4>2. Release(c) => \A d \in Clients \ {c} : due'[d] = due[d]
        BY DEF Release, TypeOK
      <4> QED
        BY <1>3, <4>1, <4>2, ActsFrame
    <3> QED
      BY <1>3, <3>1, ActsFrame
  <2>2. Completed' = Completed /\ Completed \in Int
    BY <1>0, <2>1 DEF Completed
  <2>3. Len(submitted') >= Len(submitted) /\ Len(submitted') \in Nat
    <3>1. CASE BumpFill(c)
      <4>1. submitted' = Append(submitted, [id |-> Len(submitted) + 1, twod |-> twod[c]])
        BY <3>1 DEF BumpFill
      <4>2. Len(submitted') = Len(submitted) + 1
        BY <4>1 DEF TypeOK
      <4> QED
        BY <1>0, <4>2
    <3>2. CASE ~BumpFill(c)
      BY <1>0, <1>3, <3>2, ActsFrame
    <3> QED
      BY <3>1, <3>2
  <2>4. dm'.stat_pvalid => dm.stat_pvalid
    BY <1>3, ActsFields DEF InvalidateAnswer, TypeOK, dm_t
  <2>5. ASSUME NEW d \in Clients, d # c PROVE WaitRightAt(d)'
    <3>1. due[d] <= Len(submitted')
      BY <1>0, <1>1, <2>3 DEF WaitRightAt
    <3>2. WaitAsks(d)' <=> WaitAsks(d)
      BY <2>1, <2>5 DEF WaitAsks
    <3> QED
      BY <1>1, <2>1, <2>2, <2>4, <2>5, <3>1, <3>2 DEF WaitRightAt
  <2>6. WaitRightAt(c)'
    <3>1. ASSUME due'[c] = due[c], pc'[c] \in QueueSeenEmpty => pc[c] \in QueueSeenEmpty,
                 WaitAsks(c)' => WaitAsks(c), pc'[c] = "wait_release" => pc[c] = "wait_release"
          PROVE  WaitRightAt(c)'
      <4>1. due[c] <= Len(submitted')
        BY <1>0, <1>1, <2>3 DEF WaitRightAt
      <4> QED
        BY <1>1, <2>1, <2>2, <2>4, <3>1, <4>1 DEF WaitRightAt
    <3>2. ASSUME NEW op \in Ops, Call(c, op) PROVE WaitRightAt(c)'
      <4>1. op \in {"memcpy", "memcpy2d", "start", "wait", "ready", "exit"}
        BY DataMoverAssumption
      <4>2. Entry[op] \in {"mc_poll", "start_spin", "wait_spin", "ready_lock", "exit_req"}
        BY <4>1 DEF Entry
      <4>3. pc'[c] = Entry[op] /\ due'[c] \in {due[c], Len(submitted)} /\ submitted' = submitted
        BY <3>2 DEF Call, Goto, TypeOK
      <4>4. due'[c] <= Len(submitted')
        BY <1>0, <1>1, <4>3 DEF WaitRightAt
      <4> QED
        BY <4>2, <4>3, <4>4 DEF WaitRightAt, WaitAsks, QueueSeenEmpty
    <3>3. CASE Release(c)
      <4>1. pc'[c] = "idle" /\ due'[c] = 0
        BY <3>3 DEF Release, Goto, TypeOK
      <4>2. 0 <= Len(submitted')
        BY <2>3
      <4> QED
        BY <4>1, <4>2 DEF WaitRightAt, WaitAsks, QueueSeenEmpty
    <3>4. CASE WaitQueueEmpty(c)
      <4>1. /\ pc'[c] = "wait_stat" /\ dm.queue_fill = 0
            /\ due'[c] = due[c] /\ submitted' = submitted
        BY <3>4 DEF WaitQueueEmpty, Goto, TypeOK, history
      <4>2. Len(submitted) <= Len(issued)
        BY <1>0, <4>1 DEF FillRight
      <4>3. due[c] <= Len(submitted) /\ due[c] <= Len(issued)
        BY <1>0, <1>1, <4>2 DEF WaitRightAt
      <4> QED
        BY <2>1, <4>1, <4>3 DEF WaitRightAt, WaitAsks
    <3>5. CASE PostRequest(c)
      <4>1. /\ due'[c] = due[c]
            /\ \/ pc[c] = "wait_req" /\ pc'[c] = "wait_spin2"
               \/ pc[c] = "ready_req" /\ pc'[c] = "ready_spin"
               \/ pc[c] = "exit_req" /\ pc'[c] = "exit_spin"
        BY <3>5 DEF PostRequest, Goto, TypeOK, history
      <4>2. CASE pc[c] # "wait_req"
        BY <3>1, <4>1, <4>2 DEF WaitAsks, QueueSeenEmpty
      <4>3. CASE pc[c] = "wait_req"
        <5>1. ~dm.stat_pvalid
          BY <4>3 DEF RequestRight
        <5>2. dm_pc # "pvalid"
          <6> SUFFICES ASSUME dm_pc = "pvalid" PROVE FALSE
            OBVIOUS
          <6>1. PICK d \in Clients : Asks(d)
            BY DEF RequestRight
          <6>2. c = d
            BY <4>3, <6>1, AskersExclude
          <6> QED
            BY <4>3, <6>1, <6>2 DEF Asks, WaitAsks, ReadyAsks
        <5>3. due[c] <= Len(submitted') /\ due[c] <= Len(issued)
          BY <1>0, <1>1, <2>3, <4>3 DEF WaitRightAt, QueueSeenEmpty
        <5> QED
          BY <2>1, <2>4, <4>1, <4>3, <5>1, <5>2, <5>3 DEF WaitRightAt
      <4> QED
        BY <4>2, <4>3
    <3>6. CASE PollAnswer(c)
      <4>1. /\ due'[c] = due[c] /\ dm.stat_pvalid
            /\ \/ pc[c] = "wait_poll" /\ pc'[c] = "wait_release"
               \/ pc[c] = "ready_poll" /\ pc'[c] = "ready_release"
        BY <3>6 DEF PollAnswer, Goto, TypeOK, history
      <4>2. CASE pc[c] = "ready_poll"
        BY <3>1, <4>1, <4>2 DEF WaitAsks, QueueSeenEmpty
      <4>3. CASE pc[c] = "wait_poll"
        <5>1. due[c] <= Len(submitted') /\ due[c] <= Len(issued) /\ due[c] <= Completed
          BY <1>0, <1>1, <2>3, <4>1, <4>3 DEF WaitRightAt, QueueSeenEmpty, WaitAsks
        <5> QED
          BY <2>1, <2>2, <4>1, <4>3, <5>1 DEF WaitRightAt, WaitAsks
      <4> QED
        BY <4>1, <4>2, <4>3
    <3>7. CASE ClientStep(c) /\ ~(\E op \in Ops : Call(c, op)) /\ ~Release(c)
               /\ ~WaitQueueEmpty(c) /\ ~PostRequest(c) /\ ~PollAnswer(c)
      <4>1. due' = due
        BY <1>3, <3>7, ActsFrame
      <4>2. /\ pc'[c] \in QueueSeenEmpty => pc[c] \in QueueSeenEmpty
            /\ WaitAsks(c)' => WaitAsks(c)
            /\ pc'[c] # "wait_release"
        BY <3>7
        DEF ClientStep, PollQueue, Lock, InsertTask, BumpFill, BumpFront, WakeSpin,
            WakeSet, WaitNoRequest, InvalidateAnswer, Goto, TypeOK, WaitAsks, QueueSeenEmpty
      <4> QED
        BY <3>1, <4>1, <4>2
    <3> QED
      BY <1>3, <3>2, <3>3, <3>4, <3>5, <3>6, <3>7 DEF Acts
  <2> QED
    BY <2>5, <2>6 DEF WaitRight
<1>4. CASE UNCHANGED vars
  BY <1>4 DEF vars, core, client, history, WaitRight, WaitRightAt, WaitAsks, Completed
<1> QED
  BY <1>2, <1>3, <1>4, NextSplit

(* For any number of clients, whatever they call and however they interleave:
   the mutex excludes, queue_fill counts what is queued, and a request is
   answered once and only to the client that waits for it. *)
THEOREM DataMoverInvariant == Spec => []IInv
<1>1. Init => IInv
  <2> SUFFICES ASSUME Init PROVE IInv
    OBVIOUS
  <2>1. TypeOK
    BY InitTypeOK
  <2>2. PlacesRight
    <3>1. Reserved = {} /\ Len(submitted) = 0
      BY DEF Init, Reserved
    <3> QED
      BY <3>1, FS_EmptySet, Sizes DEF PlacesRight
  <2>3. LockRight
    BY DEF Init, LockRight, MutualExclusion, InCritical
  <2>4. FillRight
    BY DEF Init, FillRight, Starting
  <2>5. RequestRight
    BY DEF Init, RequestRight, Asks, WaitAsks, ReadyAsks
  <2>6. WaitRight
    BY DEF Init, WaitRight, WaitRightAt, WaitAsks, QueueSeenEmpty
  <2> QED
    BY <2>1, <2>2, <2>3, <2>4, <2>5, <2>6 DEF IInv
<1>2. IInv /\ [Next]_vars => IInv'
  BY TypeStep, PlacesStep, LockStep, FillStep, RequestStep, WaitStep DEF IInv
<1> QED
  BY <1>1, <1>2, PTL DEF Spec

(* dm_wait returns only when every task that was queued when it was called has
   been completed by the engine, for any number of clients and also when the
   ring is overrun. *)
THEOREM WaitWaits == Spec => []WaitMeansDone
<1>1. IInv => WaitMeansDone
  <2> SUFFICES ASSUME IInv, NEW c \in Clients, pc[c] = "wait_release" PROVE Completed >= due[c]
    BY DEF WaitMeansDone
  <2>1. due[c] <= Completed
    BY DEF IInv, WaitRight, WaitRightAt
  <2>2. due[c] \in Int /\ Completed \in Int
    BY DEF IInv, TypeOK, Completed
  <2> QED
    BY <2>1, <2>2
<1> QED
  BY <1>1, DataMoverInvariant, PTL

(* The mutex excludes. *)
THEOREM MutexExcludes == Spec => []MutualExclusion
<1>1. IInv => MutualExclusion
  BY DEF IInv, LockRight
<1> QED
  BY <1>1, DataMoverInvariant, PTL
--------------------------------------------------------------------------------
(* The arithmetic of the ring. *)
LEMMA WrapNext ==
    ASSUME NEW b \in 0..(QueueSize - 1)
    PROVE  /\ Wrap(b) = b
           /\ Wrap(b + 1) \in 0..(QueueSize - 1)
           /\ (b + 1) % QueueSize = Wrap(b + 1)
<1>1. CASE b + 1 < QueueSize
  BY <1>1, Sizes DEF Wrap
<1>2. CASE b + 1 = QueueSize
  <2>1. QueueSize % QueueSize = 0
    BY Sizes
  <2> QED
    BY <1>2, <2>1, Sizes DEF Wrap
<1> QED
  BY <1>1, <1>2, Sizes

LEMMA WrapFacts ==
    ASSUME NEW b \in 0..(QueueSize - 1), NEW n \in 0..(QueueSize - 1)
    PROVE  /\ Wrap(b + n) \in 0..(QueueSize - 1)
           /\ Wrap(Wrap(b + n) + 1) = Wrap(b + n + 1)
           /\ Wrap(Wrap(b + 1) + n) = Wrap(b + n + 1)
           /\ \A i \in 0..(n - 1) : Wrap(b + i) # Wrap(b + n)
BY Sizes DEF Wrap

(* queue_fill is at most the number of tasks counted. *)
LEMMA FillBound ==
    ASSUME TypeOK, FillRight
    PROVE  /\ dm.queue_fill \in Nat /\ dm.queue_fill <= Len(submitted)
           /\ Queued \in Nat /\ Queued <= dm.queue_fill
           /\ dm.queue_fill = 0 => Queued = 0
           /\ dm_pc = "start" => Queued > 0
<1>1. Len(submitted) \in Nat /\ Len(issued) \in Nat /\ dm.queue_fill \in Nat
  BY DEF TypeOK, dm_t
<1> QED
  BY <1>1 DEF FillRight, Queued, Starting

(* With no more tasks than slots there is always room. *)
LEMMA RoomFromPlaces ==
    ASSUME TypeOK, PlacesRight, FillRight, MaxTasks <= QueueSize
    PROVE  RoomRight
<1>1. Len(submitted) \in Nat /\ Cardinality(Reserved) \in Nat /\ dm.queue_fill \in Nat
      /\ dm.queue_fill <= Len(submitted)
  BY ReservedFacts, FillBound DEF TypeOK
<1>2. dm.queue_fill <= QueueSize
  BY <1>1, Sizes DEF PlacesRight
<1>3. ASSUME NEW c \in Clients, pc[c] \in {"mc_lock", "mc_insert", "mc_fill"}
      PROVE  dm.queue_fill < QueueSize
  <2>1. Cardinality(Reserved) >= 1
    BY <1>3, ReservedFacts DEF Reserved
  <2> QED
    BY <1>1, <2>1, Sizes DEF PlacesRight
<1> QED
  BY <1>2, <1>3 DEF RoomRight

(* A single client finds the room it polled for. *)
LEMMA RoomStep ==
    ASSUME TypeOK, RoomRight, \A c, d \in Clients : c = d, [Next]_vars
    PROVE  RoomRight'
<1>0. dm.queue_fill \in Nat
  BY DEF TypeOK, dm_t
<1>1. CASE Served \/ UNCHANGED vars
  <2>1. pc' = pc
    BY <1>1, ServedFrame DEF vars, client
  <2>2. dm'.queue_fill = dm.queue_fill \/ dm'.queue_fill = dm.queue_fill - 1
    BY <1>1, ServedFields DEF DmDecrementFill, TypeOK, dm_t, vars
  <2> QED
    BY <1>0, <2>1, <2>2, Sizes DEF RoomRight
<1>2. ASSUME NEW c \in Clients, Acts(c) PROVE RoomRight'
  <2>0. Clients = {c}
    OBVIOUS
  <2>1. CASE BumpFill(c)
    <3>1. /\ pc[c] = "mc_fill" /\ pc'[c] = "mc_front"
          /\ dm'.queue_fill = dm.queue_fill + 1
      BY <2>1 DEF BumpFill, Goto, TypeOK, dm_t
    <3> QED
      BY <1>0, <2>0, <3>1, Sizes DEF RoomRight
  <2>2. CASE ~BumpFill(c)
    <3>1. dm'.queue_fill = dm.queue_fill
      BY <1>2, <2>2, ActsFields
    <3>2. pc'[c] \in {"mc_lock", "mc_insert", "mc_fill"} => dm.queue_fill < QueueSize
      <4>1. ASSUME NEW op \in Ops, Call(c, op)
            PROVE  pc'[c] \notin {"mc_lock", "mc_insert", "mc_fill"}
        <5>1. op \in {"memcpy", "memcpy2d", "start", "wait", "ready", "exit"}
          BY DataMoverAssumption
        <5>2. Entry[op] \in {"mc_poll", "start_spin", "wait_spin", "ready_lock", "exit_req"}
          BY <5>1 DEF Entry
        <5> QED
          BY <4>1, <5>2 DEF Call, Goto, TypeOK
      <4>2. CASE ClientStep(c)
        BY <2>2, <4>2
        DEF ClientStep, PollQueue, Lock, Release, InsertTask, BumpFront, WakeSpin, WakeSet,
            WaitQueueEmpty, WaitNoRequest, InvalidateAnswer, PostRequest, PollAnswer,
            Goto, TypeOK, RoomRight
      <4> QED
        BY <1>2, <4>1, <4>2 DEF Acts
    <3> QED
      BY <2>0, <3>1, <3>2 DEF RoomRight
  <2> QED
    BY <2>1, <2>2
<1> QED
  BY <1>1, <1>2, NextSplit

(* queue_fill never exceeds the ring, and a client that has polled it finds
   room when it has the mutex: with one client, or with no more tasks than slots. *)
THEOREM RingNeverOverrun ==
    ASSUME NoOverrun PROVE Spec => []RoomRight
<1>1. CASE MaxTasks <= QueueSize
  <2>1. IInv => RoomRight
    BY <1>1, RoomFromPlaces DEF IInv
  <2> QED
    BY <2>1, DataMoverInvariant, PTL
<1>2. CASE \A c, d \in Clients : c = d
  <2>1. Init => RoomRight
    BY Sizes DEF Init, RoomRight
  <2>2. IInv /\ RoomRight /\ [Next]_vars => RoomRight'
    BY <1>2, RoomStep DEF IInv
  <2> QED
    BY <2>1, <2>2, DataMoverInvariant, PTL DEF Spec
<1> QED
  BY <1>1, <1>2 DEF NoOverrun

(* The slots keep their tasks until they are started. *)
LEMMA RingStep ==
    ASSUME IInv, RoomRight, RingRight, [Next]_vars
    PROVE  RingRight'
<1> USE DEF IInv
<1>0. /\ Len(submitted) \in Nat /\ Len(issued) \in Nat
      /\ dm.queue_back \in 0..(QueueSize - 1) /\ dm.queue_front \in 0..(QueueSize - 1)
      /\ Queued \in Nat /\ Queued <= dm.queue_fill /\ dm.queue_fill <= QueueSize
      /\ dm.queue_fill \in Nat /\ Len(submitted) = Len(issued) + Queued
  BY FillBound DEF TypeOK, dm_t, RoomRight, Queued
<1>1. Back \in 0..(QueueSize - 1)
  BY <1>0, WrapNext DEF Back
<1>2. ASSUME dm'.queue = dm.queue, Back' = Back, Front' = Front,
             submitted' = submitted, issued' = issued,
             \A c \in Clients : pc'[c] = "mc_fill" =>
                 pc[c] = "mc_fill" /\ dm'.queue_front = dm.queue_front /\ twod'[c] = twod[c]
      PROVE  RingRight'
  BY <1>2 DEF RingRight, Queued
<1>3. CASE Served
  <2>1. /\ pc' = pc /\ twod' = twod /\ submitted' = submitted
        /\ dm'.queue = dm.queue /\ dm'.queue_front = dm.queue_front
    BY <1>3, ServedFrame, ServedFields
  <2>2. Front' = Front
    BY <2>1 DEF Front
  <2>3. CASE DmStartTransfer
    <3>1. /\ dm_pc = "start" /\ dm_pc' = "back" /\ dm' = dm
          /\ issued' = Append(issued, dm.queue[dm.queue_back])
      BY <2>3 DEF DmStartTransfer, DmGoto
    <3>2. /\ Len(issued') = Len(issued) + 1
          /\ issued'[Len(issued) + 1] = dm.queue[dm.queue_back]
          /\ \A i \in 1..Len(issued) : issued'[i] = issued[i]
      BY <3>1 DEF TypeOK
    <3>3. Back = dm.queue_back /\ Back' = Wrap(Back + 1)
      BY <3>1 DEF Back
    <3>4. Queued > 0 /\ Queued' = Queued - 1
      BY <1>0, <2>1, <3>1, <3>2, FillBound DEF Queued
    <3>5. \A i \in 0..(Queued - 1) : dm.queue[Wrap(Back + i)] = submitted[Len(issued) + 1 + i]
      BY DEF RingRight
    <3>6. Front = Wrap(Wrap(Back + 1) + (Queued - 1))
      <4>1. Queued - 1 \in 0..(QueueSize - 1)
        BY <1>0, <3>4, Sizes
      <4>2. Wrap(Wrap(Back + 1) + (Queued - 1)) = Wrap(Back + (Queued - 1) + 1)
        BY <1>1, <4>1, WrapFacts
      <4>3. Back + (Queued - 1) + 1 = Back + Queued
        BY <1>0, <1>1, Sizes
      <4>4. Front = Wrap(Back + Queued)
        BY DEF RingRight
      <4> QED
        BY <4>2, <4>3, <4>4
    <3>7. ASSUME NEW i \in 0..(Queued - 2)
          PROVE  dm.queue[Wrap(Wrap(Back + 1) + i)] = submitted[Len(issued) + 2 + i]
      <4>1. i \in 0..(QueueSize - 1) /\ i + 1 \in 0..(Queued - 1)
        BY <1>0, <3>4, Sizes
      <4>2. Wrap(Wrap(Back + 1) + i) = Wrap(Back + i + 1)
        BY <1>1, <4>1, WrapFacts
      <4>3. Back + i + 1 = Back + (i + 1) /\ Len(issued) + 1 + (i + 1) = Len(issued) + 2 + i
        BY <1>0, <1>1, Sizes
      <4> QED
        BY <3>5, <4>1, <4>2, <4>3
    <3>8. dm.queue[dm.queue_back] = submitted[Len(issued) + 1]
      <4>1. 0 \in 0..(Queued - 1) /\ Back + 0 = Back /\ Len(issued) + 1 + 0 = Len(issued) + 1
        BY <1>0, <1>1, <3>4, Sizes
      <4>2. Wrap(Back) = Back
        BY <1>1, WrapNext
      <4> QED
        BY <3>3, <3>5, <4>1, <4>2
    <3>9. \A i \in 1..Len(issued') : issued'[i] = submitted[i]
      <4>1. \A i \in 1..Len(issued) : issued[i] = submitted[i]
        BY DEF RingRight
      <4>2. \A i \in 1..Len(issued') : i \in 1..Len(issued) \/ i = Len(issued) + 1
        BY <1>0, <3>2
      <4> QED
        BY <3>2, <3>8, <4>1, <4>2
    <3>10. Front' = Wrap(Back' + Queued')
      BY <2>2, <3>3, <3>4, <3>6
    <3>11. \A i \in 0..(Queued' - 1) : dm'.queue[Wrap(Back' + i)] = submitted'[Len(issued') + 1 + i]
      <4>1. Queued' - 1 = Queued - 2
        BY <1>0, <3>4
      <4>2. \A i \in 0..(Queued - 2) : Len(issued') + 1 + i = Len(issued) + 2 + i
        BY <1>0, <3>2
      <4> QED
        BY <2>1, <3>3, <3>7, <4>1, <4>2
    <3>12. \A c \in Clients : pc'[c] = "mc_fill" =>
              dm'.queue[dm'.queue_front] = [id |-> Len(submitted') + 1, twod |-> twod'[c]]
      BY <2>1 DEF RingRight
    <3> QED
      BY <2>1, <3>9, <3>10, <3>11, <3>12 DEF RingRight
  <2>4. CASE DmBumpBack
    <3>1. dm_pc = "back" /\ dm_pc' = "fill--" /\ dm'.queue_back = (dm.queue_back + 1) % QueueSize
      BY <2>4 DEF DmBumpBack, DmGoto, TypeOK, dm_t
    <3>2. (dm.queue_back + 1) % QueueSize = Wrap(dm.queue_back + 1)
      BY <1>0, WrapNext
    <3>3. Back' = Back /\ issued' = issued
      BY <2>4, <3>1, <3>2 DEF Back, DmBumpBack, history
    <3> QED
      BY <1>2, <2>1, <2>2, <3>3
  <2>5. CASE ~(DmStartTransfer \/ DmBumpBack)
    <3>1. issued' = issued /\ dm'.queue_back = dm.queue_back
      BY <1>3, <2>5, ServedFields
    <3>2. dm_pc' = "back" <=> dm_pc = "back"
      BY <1>3, <2>5
      DEF Served, DmStep, DmCheckQueue, DmDecrementFill, DmSwitchStat, DmAnswer,
          DmClearRequest, DmCheckSleep, DmAnnounceSleep, DmWakeUp, DmClearInterrupt,
          DmRevokeSleep, ClearLands, DmaComplete, core, DmGoto, LoopTop
    <3>3. Back' = Back
      BY <3>1, <3>2 DEF Back
    <3> QED
      BY <1>2, <2>1, <2>2, <3>1, <3>3
  <2> QED
    BY <2>3, <2>4, <2>5
<1>4. ASSUME NEW c \in Clients, Acts(c) PROVE RingRight'
  <2>1. /\ dm_pc' = dm_pc /\ issued' = issued /\ dm'.queue_back = dm.queue_back
        /\ \A d \in Clients \ {c} : pc'[d] = pc[d] /\ twod'[d] = twod[d]
    BY <1>4, ActsFrame, ActsFields
  <2>2. Back' = Back
    BY <2>1 DEF Back
  <2>3. ASSUME pc[c] \in {"mc_insert", "mc_fill", "mc_front"}
        PROVE  \A d \in Clients \ {c} : pc[d] \notin {"mc_insert", "mc_fill", "mc_front"}
    BY <2>3 DEF LockRight, MutualExclusion, InCritical
  <2>4. CASE InsertTask(c)
    <3> DEFINE t == [id |-> Len(submitted) + 1, twod |-> twod[c]]
    <3>1. /\ pc[c] = "mc_insert" /\ pc'[c] = "mc_fill" /\ twod' = twod /\ submitted' = submitted
          /\ dm'.queue_front = dm.queue_front
          /\ dm'.queue = [dm.queue EXCEPT ![dm.queue_front] = t]
      BY <2>4 DEF InsertTask, Goto, TypeOK, dm_t, history
    <3>2. /\ dm'.queue[dm.queue_front] = t
          /\ \A j \in 0..(QueueSize - 1) : j # dm.queue_front => dm'.queue[j] = dm.queue[j]
      BY <1>0, <3>1 DEF TypeOK, dm_t
    <3> HIDE DEF t
    <3>3. Front = dm.queue_front /\ Front' = Front
      BY <2>1, <2>3, <3>1 DEF Front
    <3>4. Queued \in 0..(QueueSize - 1)
      BY <1>0, <3>1, Sizes DEF RoomRight
    <3>5. dm.queue_front = Wrap(Back + Queued)
      BY <3>3 DEF RingRight
    <3>6. ASSUME NEW i \in 0..(Queued - 1)
          PROVE  dm'.queue[Wrap(Back + i)] = submitted[Len(issued) + 1 + i]
      <4>1. i \in 0..(QueueSize - 1)
        BY <3>4, Sizes
      <4>2. Wrap(Back + i) \in 0..(QueueSize - 1) /\ Wrap(Back + i) # dm.queue_front
        BY <1>1, <3>4, <3>5, <4>1, WrapFacts
      <4> QED
        BY <3>2, <4>2 DEF RingRight
    <3>7. \A d \in Clients : pc'[d] = "mc_fill" => d = c
      BY <2>1, <2>3, <3>1
    <3>8. \A d \in Clients : pc'[d] = "mc_fill" =>
             dm'.queue[dm'.queue_front] = [id |-> Len(submitted') + 1, twod |-> twod'[d]]
      BY <3>1, <3>2, <3>7 DEF t
    <3>9. Queued' = Queued
      BY <2>1, <3>1 DEF Queued
    <3> QED
      BY <2>1, <2>2, <3>1, <3>3, <3>6, <3>8, <3>9 DEF RingRight
  <2>5. CASE BumpFill(c)
    <3> DEFINE t == [id |-> Len(submitted) + 1, twod |-> twod[c]]
    <3>1. /\ pc[c] = "mc_fill" /\ pc'[c] = "mc_front" /\ submitted' = Append(submitted, t)
          /\ dm'.queue_front = dm.queue_front /\ dm'.queue = dm.queue
      BY <2>5 DEF BumpFill, Goto, TypeOK, dm_t
    <3>2. t = dm.queue[dm.queue_front]
      BY <3>1 DEF RingRight
    <3>3. t \in Tasks
      BY <3>1, TaskType
    <3> HIDE DEF t
    <3>4. /\ Len(submitted') = Len(submitted) + 1 /\ submitted'[Len(submitted) + 1] = t
          /\ \A i \in 1..Len(submitted) : submitted'[i] = submitted[i]
      BY <3>1, <3>3 DEF TypeOK
    <3>5. Front = dm.queue_front /\ Front' = Wrap(Front + 1)
      BY <2>1, <2>3, <3>1 DEF Front
    <3>6. Queued \in 0..(QueueSize - 1) /\ Queued' = Queued + 1
      <4>1. dm.queue_fill < QueueSize
        BY <3>1 DEF RoomRight
      <4> QED
        BY <1>0, <2>1, <3>4, <4>1, Sizes DEF Queued
    <3>7. Front = Wrap(Back + Queued)
      BY DEF RingRight
    <3>8. Front' = Wrap(Back' + Queued')
      <4>1. Wrap(Wrap(Back + Queued) + 1) = Wrap(Back + Queued + 1)
        BY <1>1, <3>6, WrapFacts
      <4>2. Back + Queued + 1 = Back + (Queued + 1)
        BY <1>0, <1>1, Sizes
      <4> QED
        BY <2>2, <3>5, <3>6, <3>7, <4>1, <4>2
    <3>9. ASSUME NEW i \in 0..Queued
          PROVE  dm.queue[Wrap(Back + i)] = submitted'[Len(issued) + 1 + i]
      <4>1. CASE i = Queued
        <5>1. Len(issued) + 1 + i = Len(submitted) + 1
          BY <1>0, <4>1
        <5> QED
          BY <3>2, <3>4, <3>5, <3>7, <4>1, <5>1
      <4>2. CASE i # Queued
        <5>1. i \in 0..(Queued - 1) /\ Len(issued) + 1 + i \in 1..Len(submitted)
          BY <1>0, <4>2
        <5> QED
          BY <3>4, <5>1 DEF RingRight
      <4> QED
        BY <4>1, <4>2
    <3>10. \A i \in 0..(Queued' - 1) : dm'.queue[Wrap(Back' + i)] = submitted'[Len(issued') + 1 + i]
      <4>1. Queued' - 1 = Queued
        BY <1>0, <3>6
      <4> QED
        BY <2>1, <2>2, <3>1, <3>9, <4>1
    <3>11. \A d \in Clients : pc'[d] # "mc_fill"
      BY <2>1, <2>3, <3>1
    <3>12. \A i \in 1..Len(issued') : issued'[i] = submitted'[i]
      <4>1. \A i \in 1..Len(issued) : i \in 1..Len(submitted)
        BY <1>0
      <4> QED
        BY <2>1, <3>4, <4>1 DEF RingRight
    <3> QED
      BY <3>8, <3>10, <3>11, <3>12 DEF RingRight
  <2>6. CASE BumpFront(c)
    <3>1. /\ pc[c] = "mc_front" /\ pc'[c] = "mc_release" /\ twod' = twod /\ submitted' = submitted
          /\ dm'.queue_front = (dm.queue_front + 1) % QueueSize /\ dm'.queue = dm.queue
      BY <2>6 DEF BumpFront, Goto, TypeOK, dm_t, history
    <3>2. (dm.queue_front + 1) % QueueSize = Wrap(dm.queue_front + 1)
      BY <1>0, WrapNext
    <3>3. Front' = Front
      BY <2>1, <2>3, <3>1, <3>2 DEF Front
    <3>4. \A d \in Clients : pc'[d] # "mc_fill"
      BY <2>1, <2>3, <3>1
    <3> QED
      BY <1>2, <2>1, <2>2, <3>1, <3>3, <3>4
  <2>7. CASE ~(InsertTask(c) \/ BumpFill(c) \/ BumpFront(c))
    <3>1. dm'.queue = dm.queue /\ dm'.queue_front = dm.queue_front /\ submitted' = submitted
      BY <1>4, <2>7, ActsFrame, ActsFields
    <3>2. pc[c] # "mc_front" /\ pc'[c] \notin {"mc_fill", "mc_front"}
      <4>1. ASSUME NEW op \in Ops, Call(c, op) PROVE <3>2!:
        <5>1. op \in {"memcpy", "memcpy2d", "start", "wait", "ready", "exit"}
          BY DataMoverAssumption
        <5>2. Entry[op] \in {"mc_poll", "start_spin", "wait_spin", "ready_lock", "exit_req"}
          BY <5>1 DEF Entry
        <5> QED
          BY <4>1, <5>2 DEF Call, Goto, TypeOK
      <4>2. CASE ClientStep(c)
        BY <2>7, <4>2
        DEF ClientStep, PollQueue, Lock, Release, WakeSpin, WakeSet, WaitQueueEmpty,
            WaitNoRequest, InvalidateAnswer, PostRequest, PollAnswer, Goto, TypeOK
      <4> QED
        BY <1>4, <4>1, <4>2 DEF Acts
    <3>3. Front' = Front
      BY <2>1, <3>1, <3>2 DEF Front
    <3> QED
      BY <1>2, <2>1, <2>2, <3>1, <3>2, <3>3
  <2> QED
    BY <2>4, <2>5, <2>6, <2>7
<1>5. CASE UNCHANGED vars
  BY <1>5 DEF vars, core, client, history, RingRight, Front, Back, Queued
<1> QED
  BY <1>3, <1>4, <1>5, NextSplit

(* Where the ring cannot be overrun its slots hold the queued tasks in order. *)
THEOREM RingInvariant ==
    ASSUME NoOverrun PROVE Spec => [](IInv /\ RoomRight /\ RingRight)
<1>1. Init => RingRight
  BY Sizes DEF Init, RingRight, Front, Back, Queued, Wrap
<1>2. IInv /\ RoomRight /\ RingRight /\ [Next]_vars => RingRight'
  BY RingStep
<1> QED
  BY <1>1, <1>2, DataMoverInvariant, RingNeverOverrun, PTL DEF Spec

(* Every queued task is handed to the DMA engine exactly once, in the order of
   the calls and as it was queued, for every ring size, engine depth and number
   of tasks. *)
THEOREM TasksInOrder ==
    ASSUME NoOverrun PROVE Spec => []FifoExactlyOnce
<1>1. IInv /\ RingRight => FifoExactlyOnce
  <2> SUFFICES ASSUME IInv, RingRight PROVE FifoExactlyOnce
    OBVIOUS
  <2>1. /\ submitted \in Seq(Tasks) /\ issued \in Seq(Tasks)
        /\ Len(issued) \in Nat /\ Len(submitted) \in Nat /\ Len(issued) <= Len(submitted)
    BY DEF IInv, TypeOK, FillRight
  <2>2. /\ SubSeq(submitted, 1, Len(issued)) \in Seq(Tasks)
        /\ Len(SubSeq(submitted, 1, Len(issued))) = Len(issued)
        /\ \A i \in 1..Len(issued) : SubSeq(submitted, 1, Len(issued))[i] = submitted[i]
    BY <2>1
  <2>3. \A i \in 1..Len(issued) : issued[i] = submitted[i]
    BY DEF RingRight
  <2>4. issued = SubSeq(submitted, 1, Len(issued))
    BY <2>1, <2>2, <2>3
  <2> QED
    BY <2>1, <2>4 DEF FifoExactlyOnce
<1> QED
  BY <1>1, RingInvariant, PTL

(* queue_fill is the number of occupied slots and never exceeds the ring. *)
THEOREM FillCounts ==
    ASSUME NoOverrun PROVE Spec => []FillIsOccupancy
<1>1. IInv /\ RoomRight => FillIsOccupancy
  BY DEF IInv, FillRight, Starting, RoomRight, FillIsOccupancy
<1> QED
  BY <1>1, DataMoverInvariant, RingNeverOverrun, PTL
================================================================================
