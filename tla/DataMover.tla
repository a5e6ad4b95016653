------------------------------- MODULE DataMover --------------------------------
(***************************************************************************)
(* The data mover service of sw/runtime/src/dm.h.  The DM core runs        *)
(* dm_main: it drains a ring buffer of DM_TASK_QUEUE_SIZE copy tasks into  *)
(* the DMA engine, answers requests posted in stat_q, and sleeps in WFI    *)
(* when it sees neither.  Compute cores ("clients") call dm_memcpy_async,  *)
(* dm_memcpy2d_async, dm_start, dm_wait, dm_wait_ready and dm_exit.  Every *)
(* access to a field of dm_t, to the interrupt register or to the engine   *)
(* is one step.                                                            *)
(***************************************************************************)
EXTENDS Integers, Sequences, FiniteSets

CONSTANTS
    Clients,       \* the compute cores that use the data mover
    QueueSize,     \* DM_TASK_QUEUE_SIZE
    DmaDepth,      \* transfers the DMA engine accepts before WOULD_BLOCK
    MaxTasks,      \* bound on the number of tasks ever queued
    Ops            \* the calls the clients make

ASSUME DataMoverAssumption ==
    /\ IsFiniteSet(Clients)
    /\ QueueSize \in Nat \ {0} /\ DmaDepth \in Nat \ {0} /\ MaxTasks \in Nat
    /\ Ops \subseteq {"memcpy", "memcpy2d", "start", "wait", "ready", "exit"}

VARIABLES
    dm,            \* the dm_t in TCDM
    irq,           \* the DM core's cluster interrupt: pending, and a clear on its way
    engine,        \* the DMA engine: transfers started and not complete
    dm_pc,         \* the next access of the DM core
    do_exit,       \* dm_main's local
    pc,            \* the next access of each client
    twod,          \* the kind of task each client is queueing
    submitted,     \* history: the tasks counted in queue_fill, in order
    issued,        \* history: the tasks given to the engine, in order
    due,           \* history: tasks submitted when each client called dm_wait (0 outside it)
    asked,         \* history: tasks submitted when the DM core was last told to start
    fresh          \* tasks each client queued since it last woke the DM core

core    == <<dm_pc, do_exit>>
client  == <<pc, twod, fresh>>
history == <<submitted, issued, due, asked>>
vars    == <<dm, irq, engine, core, client, history>>

Tasks == [id : 0..MaxTasks, twod : BOOLEAN]

Requests == {"none", "wait_idle", "exit", "ready"}       \* en_stat_t

dm_t == [queue : [0..(QueueSize - 1) -> Tasks],
         queue_back : 0..(QueueSize - 1), queue_front : 0..(QueueSize - 1),
         queue_fill : Nat, mutex : {0, 1}, stat_q : Requests,
         stat_pvalid : BOOLEAN, dm_wfi : {0, 1}]

(* dm_init has cleared dm_t; the DM core enters dm_main. *)
Init ==
    /\ dm = [queue       |-> [i \in 0..(QueueSize - 1) |-> [id |-> 0, twod |-> FALSE]],
             queue_back  |-> 0,
             queue_front |-> 0,
             queue_fill  |-> 0,
             mutex       |-> 0,
             stat_q      |-> "none",
             stat_pvalid |-> FALSE,
             dm_wfi      |-> 0]
    /\ irq = [pending |-> FALSE, clearing |-> FALSE]
    /\ engine = <<>>
    /\ dm_pc = "queue?" /\ do_exit = FALSE
    /\ pc = [c \in Clients |-> "idle"]
    /\ twod = [c \in Clients |-> FALSE]
    /\ fresh = [c \in Clients |-> 0]
    /\ submitted = <<>> /\ issued = <<>>
    /\ due = [c \in Clients |-> 0] /\ asked = 0

Completed == Len(issued) - Len(engine)
--------------------------------------------------------------------------------
(***************************************************************************)
(* dm_main                                                                 *)
(***************************************************************************)

DmGoto(from, to) == dm_pc = from /\ dm_pc' = to

LoopTop == IF do_exit THEN "exited" ELSE "queue?"        \* while (!do_exit)

(* if (dm_p->queue_fill).  The LSU returns responses in order, so a load
   completes only after an earlier posted write has been acknowledged. *)
DmCheckQueue ==
    /\ ~irq.clearing
    /\ DmGoto("queue?", IF dm.queue_fill # 0 THEN "start" ELSE "stat?")
    /\ UNCHANGED <<dm, irq, engine, do_exit, client, history>>

(* while (__builtin_sdma_stat(DM_STATUS_WOULD_BLOCK)); then the start of the
   task at queue_back *)
DmStartTransfer ==
    /\ DmGoto("start", "back")
    /\ Len(engine) < DmaDepth
    /\ engine' = Append(engine, dm.queue[dm.queue_back])
    /\ issued' = Append(issued, dm.queue[dm.queue_back])
    /\ UNCHANGED <<dm, irq, do_exit, client, submitted, due, asked>>

DmBumpBack ==
    /\ DmGoto("back", "fill--")
    /\ dm' = [dm EXCEPT !.queue_back = (@ + 1) % QueueSize]
    /\ UNCHANGED <<irq, engine, do_exit, client, history>>

DmDecrementFill ==
    /\ DmGoto("fill--", "stat?")
    /\ dm' = [dm EXCEPT !.queue_fill = @ - 1]
    /\ UNCHANGED <<irq, engine, do_exit, client, history>>

\* Mutant: STAT_WAIT_IDLE is answered without looking at the engine
DmSwitchNoBusy ==
    /\ DmGoto("stat?", IF dm.stat_q \in {"wait_idle", "ready"} THEN "pvalid" ELSE "sleep?")
    /\ do_exit' = (do_exit \/ dm.stat_q = "exit")
    /\ UNCHANGED <<dm, irq, engine, client, history>>

\* Mutant: STAT_EXIT is not acted upon
DmSwitchNoExit ==
    /\ DmGoto("stat?", IF \/ dm.stat_q = "wait_idle" /\ engine = <<>>
                          \/ dm.stat_q = "ready"
                       THEN "pvalid" ELSE "sleep?")
    /\ UNCHANGED <<dm, irq, engine, do_exit, client, history>>

(* if (dm_p->stat_q) switch (dm_p->stat_q): STAT_WAIT_IDLE is answered only
   when the engine is not busy.  Only dm_main resets stat_q, so the two reads
   are one step. *)
DmSwitchStat ==
    /\ DmGoto("stat?", IF \/ dm.stat_q = "wait_idle" /\ engine = <<>>
                          \/ dm.stat_q = "ready"
                       THEN "pvalid" ELSE "sleep?")
    /\ do_exit' = (do_exit \/ dm.stat_q = "exit")
    /\ UNCHANGED <<dm, irq, engine, client, history>>

DmAnswer ==
    /\ DmGoto("pvalid", "stat0")
    /\ dm' = [dm EXCEPT !.stat_pvalid = TRUE]
    /\ UNCHANGED <<irq, engine, do_exit, client, history>>

DmClearRequest ==
    /\ DmGoto("stat0", "sleep?")
    /\ dm' = [dm EXCEPT !.stat_q = "none"]
    /\ UNCHANGED <<irq, engine, do_exit, client, history>>

\* Mutant: the DM core sleeps after one transfer, whatever is still queued
DmCheckSleepNoQueue ==
    /\ \/ DmGoto("sleep?", "sleep??")
       \/ DmGoto("sleep??", IF dm.stat_q = "none" THEN "wfi++" ELSE LoopTop)
    /\ UNCHANGED <<dm, irq, engine, do_exit, client, history>>

(* if (!dm_p->queue_fill && !dm_p->stat_q): two reads *)
DmCheckSleep ==
    /\ \/ DmGoto("sleep?", IF dm.queue_fill = 0 THEN "sleep??" ELSE LoopTop)
       \/ DmGoto("sleep??", IF dm.stat_q = "none" THEN "wfi++" ELSE LoopTop)
    /\ UNCHANGED <<dm, irq, engine, do_exit, client, history>>

\* Mutant: the DM core sleeps without announcing it in dm_wfi first
DmAnnounceSleepNot ==
    /\ DmGoto("wfi++", "wfi")
    /\ UNCHANGED <<dm, irq, engine, do_exit, client, history>>

(* wfi_dm: announce the sleep, sleep, clear the interrupt, revoke *)
DmAnnounceSleep ==
    /\ DmGoto("wfi++", "wfi")
    /\ dm' = [dm EXCEPT !.dm_wfi = @ + 1]
    /\ UNCHANGED <<irq, engine, do_exit, client, history>>

DmWakeUp ==
    /\ DmGoto("wfi", "clear")
    /\ irq.pending
    /\ UNCHANGED <<dm, irq, engine, do_exit, client, history>>

(* snrt_int_cluster_clr: a posted write, the core does not wait for it *)
DmClearInterrupt ==
    /\ DmGoto("clear", "wfi--")
    /\ irq' = [irq EXCEPT !.clearing = TRUE]
    /\ UNCHANGED <<dm, engine, do_exit, client, history>>

DmRevokeSleep ==
    /\ DmGoto("wfi--", LoopTop)
    /\ dm' = [dm EXCEPT !.dm_wfi = @ - 1]
    /\ UNCHANGED <<irq, engine, do_exit, client, history>>

DmStep ==
    \/ DmCheckQueue \/ DmStartTransfer \/ DmBumpBack \/ DmDecrementFill
    \/ DmSwitchStat \/ DmAnswer \/ DmClearRequest \/ DmCheckSleep
    \/ DmAnnounceSleep \/ DmWakeUp \/ DmClearInterrupt \/ DmRevokeSleep

(* External: a write to cl_clint_clear takes effect. *)
ClearLands ==
    /\ irq.clearing
    /\ irq' = [pending |-> FALSE, clearing |-> FALSE]
    /\ UNCHANGED <<dm, engine, core, client, history>>

(* External: the DMA engine completes its oldest transfer. *)
DmaComplete ==
    /\ engine # <<>>
    /\ engine' = Tail(engine)
    /\ UNCHANGED <<dm, irq, core, client, history>>
--------------------------------------------------------------------------------
(***************************************************************************)
(* The clients.  Goto(c, from, to) moves client c from one access to the   *)
(* next; "idle" is outside the API.                                        *)
(***************************************************************************)

Goto(c, from, to) == pc[c] = from /\ pc' = [pc EXCEPT ![c] = to]

Entry == [memcpy |-> "mc_poll", memcpy2d |-> "mc_poll", start |-> "start_spin",
          wait |-> "wait_spin", ready |-> "ready_lock", exit |-> "exit_req"]

(***************************************************************************)
(* A client enters the API.  Caller discipline: a client queues at most    *)
(* QueueSize tasks between two calls that wake the DM core (the DM core    *)
(* does not start transfers by itself), and nothing follows a dm_exit that *)
(* the DM core has still to act on, or has acted on.                       *)
(***************************************************************************)
Call(c, op) ==
    /\ Goto(c, "idle", Entry[op])
    /\ twod' = [twod EXCEPT ![c] = (op = "memcpy2d")]
    /\ due' = IF op = "wait" THEN [due EXCEPT ![c] = Len(submitted)] ELSE due
    /\ op \in {"memcpy", "memcpy2d"} =>
          /\ fresh[c] < QueueSize
          /\ Len(submitted) + Cardinality({d \in Clients :
                pc[d] \in {"mc_poll", "mc_lock", "mc_insert", "mc_fill"}}) < MaxTasks
    /\ dm.stat_q # "exit" /\ dm_pc # "exited"
    /\ UNCHANGED <<dm, irq, engine, core, fresh, submitted, issued, asked>>

\* Mutant: the poll lets one task too many through
PollQueueLate(c) ==
    /\ Goto(c, "mc_poll", "mc_lock")
    /\ dm.queue_fill <= QueueSize
    /\ UNCHANGED <<dm, irq, engine, core, twod, fresh, history>>

(* do { s = queue_fill } while (s >= DM_TASK_QUEUE_SIZE); *)
PollQueue(c) ==
    /\ Goto(c, "mc_poll", "mc_lock")
    /\ dm.queue_fill < QueueSize
    /\ UNCHANGED <<dm, irq, engine, core, twod, fresh, history>>

\* Mutant: the lock is taken although it is held
LockHeld(c) ==
    /\ \/ Goto(c, "mc_lock", "mc_insert")
       \/ Goto(c, "wait_lock", "wait_pvalid0")
       \/ Goto(c, "ready_lock", "ready_pvalid0")
    /\ dm' = [dm EXCEPT !.mutex = 1]
    /\ UNCHANGED <<irq, engine, core, twod, fresh, history>>

(* _dm_mtx_lock(): the amoswap that finds the mutex free *)
Lock(c) ==
    /\ \/ Goto(c, "mc_lock", "mc_insert")
       \/ Goto(c, "wait_lock", "wait_pvalid0")
       \/ Goto(c, "ready_lock", "ready_pvalid0")
    /\ dm.mutex = 0
    /\ dm' = [dm EXCEPT !.mutex = 1]
    /\ UNCHANGED <<irq, engine, core, twod, fresh, history>>

Release(c) ==
    /\ \/ Goto(c, "mc_release", "idle")
       \/ Goto(c, "wait_release", "idle")
       \/ Goto(c, "ready_release", "idle")
    /\ dm' = [dm EXCEPT !.mutex = 0]
    /\ due' = [due EXCEPT ![c] = 0]
    /\ UNCHANGED <<irq, engine, core, twod, fresh, submitted, issued, asked>>

\* Mutant: dm_memcpy_async leaves the twod flag of the slot as it was
InsertTaskStale(c) ==
    /\ Goto(c, "mc_insert", "mc_fill")
    /\ dm' = [dm EXCEPT !.queue[dm.queue_front] =
                 [id |-> Len(submitted) + 1, twod |-> twod[c] \/ @.twod]]
    /\ UNCHANGED <<irq, engine, core, twod, fresh, history>>

(* t = &dm_p->queue[dm_p->queue_front]; t->... = ...; *)
InsertTask(c) ==
    /\ Goto(c, "mc_insert", "mc_fill")
    /\ dm' = [dm EXCEPT !.queue[dm.queue_front] = [id |-> Len(submitted) + 1, twod |-> twod[c]]]
    /\ UNCHANGED <<irq, engine, core, twod, fresh, history>>

BumpFill(c) ==
    /\ Goto(c, "mc_fill", "mc_front")
    /\ dm' = [dm EXCEPT !.queue_fill = @ + 1]
    /\ submitted' = Append(submitted, [id |-> Len(submitted) + 1, twod |-> twod[c]])
    /\ fresh' = [fresh EXCEPT ![c] = @ + 1]
    /\ UNCHANGED <<irq, engine, core, twod, issued, due, asked>>

BumpFront(c) ==
    /\ Goto(c, "mc_front", "mc_release")
    /\ dm' = [dm EXCEPT !.queue_front = (@ + 1) % QueueSize]
    /\ UNCHANGED <<irq, engine, core, twod, fresh, history>>

(* wake_dm: while (!dm_p->dm_wfi); *)
WakeSpin(c) ==
    /\ \/ Goto(c, "start_spin", "start_set")
       \/ Goto(c, "wait_spin", "wait_set")
       \/ Goto(c, "wait_spin2", "wait_set2")
       \/ Goto(c, "ready_spin", "ready_set")
       \/ Goto(c, "exit_spin", "exit_set")
    /\ dm.dm_wfi # 0
    /\ UNCHANGED <<dm, irq, engine, core, twod, fresh, history>>

(* wake_dm: snrt_int_cluster_set(...), and what follows in the caller *)
WakeSet(c) ==
    /\ \/ Goto(c, "start_set", "idle")
       \/ Goto(c, "wait_set", "wait_fill")
       \/ Goto(c, "wait_set2", "wait_poll")
       \/ Goto(c, "ready_set", "ready_poll")
       \/ Goto(c, "exit_set", "idle")
    /\ irq' = [irq EXCEPT !.pending = TRUE]
    /\ asked' = IF pc[c] = "exit_set" THEN asked ELSE Len(submitted)
    /\ fresh' = [fresh EXCEPT ![c] = 0]
    /\ UNCHANGED <<dm, engine, core, twod, submitted, issued, due>>

(* dm_wait: do { s = queue_fill } while (s != 0); *)
WaitQueueEmpty(c) ==
    /\ Goto(c, "wait_fill", "wait_stat")
    /\ dm.queue_fill = 0
    /\ UNCHANGED <<dm, irq, engine, core, twod, fresh, history>>

(* dm_wait: while (dm_p->stat_q); *)
WaitNoRequest(c) ==
    /\ Goto(c, "wait_stat", "wait_lock")
    /\ dm.stat_q = "none"
    /\ UNCHANGED <<dm, irq, engine, core, twod, fresh, history>>

\* Mutant: the previous answer is not invalidated
InvalidateAnswerNot(c) ==
    /\ \/ Goto(c, "wait_pvalid0", "wait_req")
       \/ Goto(c, "ready_pvalid0", "ready_req")
    /\ UNCHANGED <<dm, irq, engine, core, twod, fresh, history>>

(* dm_p->stat_pvalid = 0; *)
InvalidateAnswer(c) ==
    /\ \/ Goto(c, "wait_pvalid0", "wait_req")
       \/ Goto(c, "ready_pvalid0", "ready_req")
    /\ dm' = [dm EXCEPT !.stat_pvalid = FALSE]
    /\ UNCHANGED <<irq, engine, core, twod, fresh, history>>

(* dm_p->stat_q = ...; *)
PostRequest(c) ==
    /\ \/ Goto(c, "wait_req", "wait_spin2") /\ dm' = [dm EXCEPT !.stat_q = "wait_idle"]
       \/ Goto(c, "ready_req", "ready_spin") /\ dm' = [dm EXCEPT !.stat_q = "ready"]
       \/ Goto(c, "exit_req", "exit_spin") /\ dm' = [dm EXCEPT !.stat_q = "exit"]
    /\ UNCHANGED <<irq, engine, core, twod, fresh, history>>

(* while (!dm_p->stat_pvalid); *)
PollAnswer(c) ==
    /\ \/ Goto(c, "wait_poll", "wait_release")
       \/ Goto(c, "ready_poll", "ready_release")
    /\ dm.stat_pvalid
    /\ UNCHANGED <<dm, irq, engine, core, twod, fresh, history>>

ClientStep(c) ==
    \/ PollQueue(c) \/ Lock(c) \/ Release(c)
    \/ InsertTask(c) \/ BumpFill(c) \/ BumpFront(c)
    \/ WakeSpin(c) \/ WakeSet(c)
    \/ WaitQueueEmpty(c) \/ WaitNoRequest(c)
    \/ InvalidateAnswer(c) \/ PostRequest(c) \/ PollAnswer(c)

Next ==
    \/ DmStep \/ ClearLands \/ DmaComplete
    \/ \E c \in Clients : ClientStep(c) \/ \E op \in Ops : Call(c, op)

Spec == Init /\ [][Next]_vars

(***************************************************************************)
(* Each core executes on, the engine completes what it started, a posted   *)
(* write arrives.  Nobody is obliged to call the API.                      *)
(***************************************************************************)
FairSpec ==
    /\ Spec
    /\ WF_vars(DmStep) /\ WF_vars(ClearLands) /\ WF_vars(DmaComplete)
    /\ \A c \in Clients : WF_vars(ClientStep(c))
--------------------------------------------------------------------------------
InCritical == {"mc_insert", "mc_fill", "mc_front", "mc_release",
               "wait_pvalid0", "wait_req", "wait_spin2", "wait_set2", "wait_poll",
               "wait_release", "ready_pvalid0", "ready_req", "ready_spin", "ready_set",
               "ready_poll", "ready_release"}

DmPCs == {"queue?", "start", "back", "fill--", "stat?", "pvalid", "stat0", "sleep?", "sleep??",
          "wfi++", "wfi", "clear", "wfi--", "exited"}

ClientPCs ==
    InCritical \cup
    {"idle", "mc_poll", "mc_lock", "start_spin", "start_set", "wait_spin", "wait_set",
     "wait_fill", "wait_stat", "wait_lock", "ready_lock", "exit_req", "exit_spin", "exit_set"}

(* The fields of dm_t stay in their ranges: the ring indices stay in the ring,
   queue_fill does not underflow, the DM core is counted asleep at most once,
   and the engine is never given a transfer it would block on. *)
TypeOK ==
    /\ dm \in dm_t
    /\ irq \in [pending : BOOLEAN, clearing : BOOLEAN]
    /\ engine \in Seq(Tasks) /\ Len(engine) <= DmaDepth
    /\ dm_pc \in DmPCs /\ do_exit \in BOOLEAN
    /\ pc \in [Clients -> ClientPCs]
    /\ twod \in [Clients -> BOOLEAN] /\ fresh \in [Clients -> Nat]
    /\ submitted \in Seq(Tasks) /\ issued \in Seq(Tasks)
    /\ due \in [Clients -> Nat] /\ asked \in Nat

(* The DM core hands every queued task to the DMA engine exactly once, in the
   order of the calls and as it was queued (1D or 2D), whatever slots of the
   ring it went through. *)
FifoExactlyOnce ==
    /\ Len(issued) <= Len(submitted)
    /\ issued = SubSeq(submitted, 1, Len(issued))

(* queue_fill is the number of occupied slots, except while dm_main has
   started a task it has not yet uncounted; it never exceeds the ring. *)
FillIsOccupancy ==
    /\ dm.queue_fill <= QueueSize
    /\ dm.queue_fill = Len(submitted) - Len(issued)
                       + IF dm_pc \in {"back", "fill--"} THEN 1 ELSE 0

(* When dm_wait sees stat_pvalid, every task that was queued when it was
   called has been completed by the engine ("whenever stat_pvalid is non-zero,
   the DMA has completed all transfers"). *)
WaitMeansDone ==
    \A c \in Clients : pc[c] = "wait_release" => Completed >= due[c]

(* The mutex protects the front of the ring and the request word: at most one
   client is between a lock and its release. *)
MutualExclusion ==
    \A c, d \in Clients : pc[c] \in InCritical /\ pc[d] \in InCritical => c = d

InReady == {"ready_lock", "ready_pvalid0", "ready_req", "ready_spin", "ready_set",
            "ready_poll", "ready_release"}
InExit  == {"exit_req", "exit_spin", "exit_set"}

(* dm_main has answered a request and will clear stat_q, whatever is in it. *)
Answering == dm_pc = "stat0"

(* dm_main has taken its last look, and no wake-up is pending. *)
Asleep == dm_pc \in {"wfi++", "wfi"} /\ ~irq.pending

Posted(c, spin, request) == pc[c] = spin /\ dm.stat_q = request

(* Every dm_memcpy_async, dm_memcpy2d_async, dm_start and dm_wait returns,
   whatever calls precede it.  So does dm_wait_ready, unless it posts its request
   between the two stores with which dm_main answers the request before. *)
CallsReturn == \A c \in Clients :
    /\ pc[c] \notin {"idle"} \cup InReady \cup InExit ~> pc[c] = "idle"
    /\ Posted(c, "ready_spin", "ready") /\ ~Answering ~> pc[c] = "idle"

(* dm_wait_ready always returns ("Wait for the DM core to be ready"). *)
ReadyReturns == \A c \in Clients : pc[c] = "ready_lock" ~> pc[c] = "idle"

(* Once the DM core has been woken, what was queued before is transferred,
   unless the DM core is told to abort and exit: the wake-up is not lost between
   its last look at the queue and WFI. *)
StartedTasksComplete ==
    \A k \in 1..MaxTasks : asked >= k ~> Completed >= k \/ do_exit

(* An exit request ends dm_main wherever the DM core is, unless it is posted
   between the two stores that answer the request before; and dm_exit returns if
   the DM core had no more to look at before its sleep, the one the caller waits
   for in wake_dm. *)
CleanExit == \A c \in Clients :
    /\ Posted(c, "exit_spin", "exit") /\ ~Answering ~> dm_pc = "exited"
    /\ Posted(c, "exit_spin", "exit") /\ Asleep ~> pc[c] = "idle"

(* dm_exit ends dm_main and returns, whenever it is called ("so all cores exit
   cleanly"). *)
ExitReturns == \A c \in Clients :
    pc[c] = "exit_req" ~> dm_pc = "exited" /\ pc[c] = "idle"

(* The ring buffers up to DM_TASK_QUEUE_SIZE outstanding tasks and a call that
   would exceed it blocks. *)
QueueBound == dm.queue_fill <= QueueSize

(* A client posts its request only when no other request is pending. *)
NoRequestOverwritten ==
    [][\A c \in Clients : PostRequest(c) => dm.stat_q = "none"]_vars
================================================================================
