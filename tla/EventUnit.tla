------------------------------- MODULE EventUnit --------------------------------
(***************************************************************************)
(* The event unit of sw/runtime/src/omp/eu.h as the OpenMP runtime uses    *)
(* it: core 0 is the master, cores 1..NumWorkers run eu_event_loop.  The   *)
(* master bootstraps (snrt_omp_bootstrap), dispatches parallel regions     *)
(* (parallelRegion calls eu_dispatch_push, then eu_run_empty) and ends the *)
(* session (eu_exit); it may make these calls in any order.  Every access  *)
(* to eu_t or to an interrupt register is a step.                          *)
(***************************************************************************)
EXTENDS Integers

CONSTANTS
    NumWorkers,    \* snrt_cluster_compute_core_num() - 1
    MaxRegions     \* bound on the number of pushed events

ASSUME EventUnitAssumption ==
    NumWorkers \in Nat \ {0} /\ MaxRegions \in Nat

Workers == 1..NumWorkers
Cores   == 0..NumWorkers

VARIABLES
    eu,            \* the eu_t in TCDM; fn is the number of the pushed event
    irq,           \* per worker: cluster interrupt pending, and a clear on its way
    wpc,           \* the next access of each worker
    mpc,           \* the next access of the master
    scratch,       \* eu_run_empty's copy of nthreads
    running,       \* the event each core is executing, 0 for none
    executed,      \* history: events each core has finished, as a count per event
    team           \* history: nthreads of every event run so far, 0 if not run

vars == <<eu, irq, wpc, mpc, scratch, running, executed, team>>

Events == 1..MaxRegions

WorkerPCs == {"enter", "exit?", "nthreads?", "call", "in_fn", "fini++", "wfi++", "wfi",
              "clear", "wfi--", "exited"}
MasterPCs == {"boot", "idle", "push_fn", "push_n", "fini=0", "wake", "set", "team?",
              "in_fn", "fini?", "n=0", "exit_flag", "exit_wake", "exit_set", "exited"}

(* eu_init has cleared eu_t. *)
Init ==
    /\ eu = [workers_in_loop |-> 0, exit_flag |-> 0, workers_wfi |-> 0,
             fn |-> 0, nthreads |-> 0, fini_count |-> 0]
    /\ irq = [w \in Workers |-> [pending |-> FALSE, clearing |-> FALSE]]
    /\ wpc = [w \in Workers |-> "enter"]
    /\ mpc = "boot"
    /\ scratch = 0
    /\ running = [c \in Cores |-> 0]
    /\ executed = [c \in Cores |-> [e \in Events |-> 0]]
    /\ team = [e \in Events |-> 0]
--------------------------------------------------------------------------------
(***************************************************************************)
(* eu_event_loop                                                           *)
(***************************************************************************)

WGoto(w, from, to) == wpc[w] = from /\ wpc' = [wpc EXCEPT ![w] = to]

(* __atomic_add_fetch(&eu_p->workers_in_loop, 1); enable IRQ_M_CLUSTER *)
EnterLoop(w) ==
    /\ WGoto(w, "enter", "exit?")
    /\ eu' = [eu EXCEPT !.workers_in_loop = @ + 1]
    /\ UNCHANGED <<irq, mpc, scratch, running, executed, team>>

\* Mutant: the load overtakes the posted write that clears the interrupt
CheckExitEarly(w) ==
    /\ WGoto(w, "exit?", IF eu.exit_flag = 1 THEN "exited" ELSE "nthreads?")
    /\ UNCHANGED <<eu, irq, mpc, scratch, running, executed, team>>

(* if (eu_p->exit_flag) return;  The load completes after the posted clear of
   the interrupt has been acknowledged (responses are in order). *)
CheckExit(w) ==
    /\ ~irq[w].clearing
    /\ WGoto(w, "exit?", IF eu.exit_flag = 1 THEN "exited" ELSE "nthreads?")
    /\ UNCHANGED <<eu, irq, mpc, scratch, running, executed, team>>

(* if (cluster_core_idx < eu_p->e.nthreads) *)
CheckTeam(w) ==
    /\ WGoto(w, "nthreads?", IF w < eu.nthreads THEN "call" ELSE "fini++")
    /\ UNCHANGED <<eu, irq, mpc, scratch, running, executed, team>>

(* eu_p->e.fn(eu_p->e.data, eu_p->e.argc); enter and leave the function *)
WorkerCall(w) ==
    /\ WGoto(w, "call", "in_fn")
    /\ running' = [running EXCEPT ![w] = eu.fn]
    /\ UNCHANGED <<eu, irq, mpc, scratch, executed, team>>

WorkerReturn(w) ==
    /\ WGoto(w, "in_fn", "fini++")
    /\ executed' = [executed EXCEPT ![w][running[w]] = @ + 1]
    /\ running' = [running EXCEPT ![w] = 0]
    /\ UNCHANGED <<eu, irq, mpc, scratch, team>>

(* __atomic_add_fetch(&eu_p->e.fini_count, 1) *)
CountFinished(w) ==
    /\ WGoto(w, "fini++", "wfi++")
    /\ eu' = [eu EXCEPT !.fini_count = @ + 1]
    /\ UNCHANGED <<irq, mpc, scratch, running, executed, team>>

(* worker_wfi: announce the sleep, sleep, clear the interrupt, revoke *)
AnnounceSleep(w) ==
    /\ WGoto(w, "wfi++", "wfi")
    /\ eu' = [eu EXCEPT !.workers_wfi = @ + 1]
    /\ UNCHANGED <<irq, mpc, scratch, running, executed, team>>

WakeUp(w) ==
    /\ WGoto(w, "wfi", "clear")
    /\ irq[w].pending
    /\ UNCHANGED <<eu, irq, mpc, scratch, running, executed, team>>

(* snrt_int_cluster_clr: a posted write, the worker does not wait for it *)
ClearInterrupt(w) ==
    /\ WGoto(w, "clear", "wfi--")
    /\ irq' = [irq EXCEPT ![w].clearing = TRUE]
    /\ UNCHANGED <<eu, mpc, scratch, running, executed, team>>

RevokeSleep(w) ==
    /\ WGoto(w, "wfi--", "exit?")
    /\ eu' = [eu EXCEPT !.workers_wfi = @ - 1]
    /\ UNCHANGED <<irq, mpc, scratch, running, executed, team>>

(* External: the write to cl_clint_clear takes effect. *)
ClearLands(w) ==
    /\ irq[w].clearing
    /\ irq' = [irq EXCEPT ![w] = [pending |-> FALSE, clearing |-> FALSE]]
    /\ UNCHANGED <<eu, wpc, mpc, scratch, running, executed, team>>

WorkerStep(w) ==
    \/ EnterLoop(w) \/ CheckExit(w) \/ CheckTeam(w) \/ WorkerCall(w) \/ WorkerReturn(w)
    \/ CountFinished(w) \/ AnnounceSleep(w) \/ WakeUp(w) \/ ClearInterrupt(w)
    \/ RevokeSleep(w)
--------------------------------------------------------------------------------
(***************************************************************************)
(* The master (core 0)                                                     *)
(***************************************************************************)

MGoto(from, to) == mpc = from /\ mpc' = to

AllAsleep == eu.workers_wfi = eu.workers_in_loop         \* wait_worker_wfi

(* snrt_omp_bootstrap: while (eu_get_workers_in_wfi() != compute cores - 1); *)
Bootstrap ==
    /\ MGoto("boot", "idle")
    /\ eu.workers_wfi = NumWorkers
    /\ UNCHANGED <<eu, irq, wpc, scratch, running, executed, team>>

(* eu_dispatch_push: wait_worker_wfi(); then the fields of the event *)
PushWait ==
    /\ MGoto("idle", "push_fn")
    /\ eu.fn < MaxRegions
    /\ AllAsleep
    /\ UNCHANGED <<eu, irq, wpc, scratch, running, executed, team>>

PushFn ==
    /\ MGoto("push_fn", "push_n")
    /\ eu' = [eu EXCEPT !.fn = @ + 1]
    /\ UNCHANGED <<irq, wpc, scratch, running, executed, team>>

PushThreads(n) ==
    /\ MGoto("push_n", "idle")
    /\ eu' = [eu EXCEPT !.nthreads = n]
    /\ UNCHANGED <<irq, wpc, scratch, running, executed, team>>

(* eu_run_empty: scratch = nthreads; if (!scratch) return; *)
RunEmpty ==
    /\ MGoto("idle", IF eu.nthreads = 0 THEN "idle" ELSE "fini=0")
    /\ scratch' = eu.nthreads
    /\ team' = IF eu.nthreads = 0 THEN team ELSE [team EXCEPT ![eu.fn] = eu.nthreads]
    /\ UNCHANGED <<eu, irq, wpc, running, executed>>

(* eu_p->e.fini_count = 0; if (scratch > 1) ... *)
ResetFinished ==
    /\ MGoto("fini=0", IF scratch > 1 THEN "wake" ELSE "team?")
    /\ eu' = [eu EXCEPT !.fini_count = 0]
    /\ UNCHANGED <<irq, wpc, scratch, running, executed, team>>

(* wake_workers: wait_worker_wfi(), and the set of all workers' interrupts *)
WakeWait ==
    /\ \/ MGoto("wake", "set")
       \/ MGoto("exit_wake", "exit_set")
    /\ AllAsleep
    /\ UNCHANGED <<eu, irq, wpc, scratch, running, executed, team>>

\* Mutant: the wake-up mask misses the last worker
WakeSetShort ==
    /\ \/ MGoto("set", "team?")
       \/ MGoto("exit_set", "exited")
    /\ irq' = [w \in Workers |-> [irq[w] EXCEPT !.pending = @ \/ w # NumWorkers]]
    /\ UNCHANGED <<eu, wpc, scratch, running, executed, team>>

WakeSet ==
    /\ \/ MGoto("set", "team?")
       \/ MGoto("exit_set", "exited")
    /\ irq' = [w \in Workers |-> [irq[w] EXCEPT !.pending = TRUE]]
    /\ UNCHANGED <<eu, wpc, scratch, running, executed, team>>

(* if (core_idx < eu_p->e.nthreads) eu_p->e.fn(...): enter and leave *)
MasterCall ==
    /\ MGoto("team?", "in_fn")
    /\ 0 < eu.nthreads
    /\ running' = [running EXCEPT ![0] = eu.fn]
    /\ UNCHANGED <<eu, irq, wpc, scratch, executed, team>>

MasterReturn ==
    /\ MGoto("in_fn", IF scratch > 1 THEN "fini?" ELSE "n=0")
    /\ executed' = [executed EXCEPT ![0][running[0]] = @ + 1]
    /\ running' = [running EXCEPT ![0] = 0]
    /\ UNCHANGED <<eu, irq, wpc, scratch, team>>

\* Mutant: the master waits for its team only, not for all workers in the loop
WaitFinishedTeam ==
    /\ MGoto("fini?", "n=0")
    /\ eu.fini_count >= scratch - 1
    /\ UNCHANGED <<eu, irq, wpc, scratch, running, executed, team>>

(* while (fini_count != eu_get_workers_in_loop()); *)
WaitFinished ==
    /\ MGoto("fini?", "n=0")
    /\ eu.fini_count = eu.workers_in_loop
    /\ UNCHANGED <<eu, irq, wpc, scratch, running, executed, team>>

(* eu_p->e.nthreads = 0; *)
ClearThreads ==
    /\ MGoto("n=0", "idle")
    /\ eu' = [eu EXCEPT !.nthreads = 0]
    /\ UNCHANGED <<irq, wpc, scratch, running, executed, team>>

(* eu_exit: if (!nthreads) eu_run_empty(...), which then returns at once; and
   wait_worker_wfi() *)
ExitWait ==
    /\ MGoto("idle", "exit_flag")
    /\ AllAsleep
    /\ UNCHANGED <<eu, irq, wpc, scratch, running, executed, team>>

\* Mutant: the workers are sent to exit without the flag
ExitFlagNot ==
    /\ MGoto("exit_flag", "exit_wake")
    /\ UNCHANGED <<eu, irq, wpc, scratch, running, executed, team>>

ExitFlag ==
    /\ MGoto("exit_flag", "exit_wake")
    /\ eu' = [eu EXCEPT !.exit_flag = 1]
    /\ UNCHANGED <<irq, wpc, scratch, running, executed, team>>

MasterStep ==
    \/ Bootstrap \/ PushWait \/ PushFn \/ (\E n \in 1..(NumWorkers + 1) : PushThreads(n))
    \/ RunEmpty \/ ResetFinished \/ WakeWait \/ WakeSet \/ MasterCall \/ MasterReturn
    \/ WaitFinished \/ ClearThreads \/ ExitWait \/ ExitFlag

Next == MasterStep \/ \E w \in Workers : WorkerStep(w) \/ ClearLands(w)

Spec == Init /\ [][Next]_vars

(***************************************************************************)
(* Every core keeps executing and posted writes arrive.                    *)
(***************************************************************************)
FairSpec ==
    /\ Spec
    /\ WF_vars(MasterStep)
    /\ \A w \in Workers : WF_vars(WorkerStep(w)) /\ WF_vars(ClearLands(w))
--------------------------------------------------------------------------------
(* The fields of eu_t stay in their ranges: no worker counts itself asleep, in
   the loop or finished twice, although each count is changed by several cores. *)
TypeOK ==
    /\ eu \in [workers_in_loop : 0..NumWorkers, exit_flag : {0, 1},
               workers_wfi : 0..NumWorkers, fn : 0..MaxRegions,
               nthreads : 0..(NumWorkers + 1), fini_count : 0..NumWorkers]
    /\ irq \in [Workers -> [pending : BOOLEAN, clearing : BOOLEAN]]
    /\ wpc \in [Workers -> WorkerPCs]
    /\ mpc \in MasterPCs
    /\ scratch \in 0..(NumWorkers + 1)
    /\ running \in [Cores -> 0..MaxRegions]
    /\ executed \in [Cores -> [Events -> Nat]]
    /\ team \in [Events -> 0..(NumWorkers + 1)]

(* When the master returns from a parallel region, every core of its team has
   executed the event exactly once and no other core has: no worker missed the
   wake-up, none ran the event again before nthreads was reset, and none is
   still in it. *)
ExactlyOnce ==
    mpc \in {"n=0", "idle"} =>
        \A e \in Events, c \in Cores : executed[c][e] = IF c < team[e] THEN 1 ELSE 0

(* A worker only calls into an event while the master waits for it in
   eu_run_empty: it can not see a half-written event or one being replaced. *)
NoTornEvent ==
    \A w \in Workers :
        wpc[w] \in {"call", "in_fn"} => mpc \in {"team?", "in_fn", "fini?"}

(* Every dispatched region comes back to the master. *)
RegionCompletes == mpc = "fini=0" ~> mpc = "idle"

(* eu_exit sends every worker out of its loop, and leaves no interrupt behind
   that would end a later WFI of that core. *)
WorkersExit ==
    mpc = "exited" ~> \A w \in Workers : wpc[w] = "exited" /\ ~irq[w].pending

(* When the exit flag is raised no event is pending ("make sure queue is
   empty"). *)
ExitDrainsQueue == eu.exit_flag = 1 => eu.nthreads = 0
================================================================================
