---------------------------- MODULE EventUnitProofs -----------------------------
(***************************************************************************)
(* For every number of workers and of events: the counters of eu_t count   *)
(* what their names say, the workers of the event loop are in the phase    *)
(* the master's progress allows, and so every core of a team executes the  *)
(* event exactly once and no worker sees an event that is being written.   *)
(***************************************************************************)
EXTENDS EventUnit, FiniteSetTheorems, TLAPS

(* The workers that have entered the loop, that announce themselves asleep,
   and that have nothing left to do for the current event. *)
InLoop  == {w \in Workers : wpc[w] # "enter"}
Asleep  == {w \in Workers : wpc[w] \in {"wfi", "clear", "wfi--"}}
Idle(w) == wpc[w] \in {"wfi++", "wfi"} /\ ~irq[w].pending
Done    == {w \in Workers : Idle(w)}

(* The master is inside eu_run_empty with the event published; it has the
   whole team running; it has not started the team. *)
Running    == mpc \in {"team?", "in_fn", "fini?"}
Collective == Running /\ scratch > 1
Preparing  == mpc \in {"fini=0", "wake", "set"}

(* The counters that several cores change are the sizes of these sets. *)
CountsRight ==
    /\ eu.workers_in_loop = Cardinality(InLoop)
    /\ eu.workers_wfi = Cardinality(Asleep)
    /\ (mpc = "boot" \/ Collective) => eu.fini_count = Cardinality(Done)
    /\ mpc \in {"wake", "set"} => eu.fini_count = 0

(* An interrupt is pending from the wake-up until its clear has landed, and the
   clear is under way only between the worker's write and its next load. *)
IrqRight(w) ==
    /\ irq[w].clearing => irq[w].pending /\ wpc[w] \in {"wfi--", "exit?"}
    /\ irq[w].pending => wpc[w] \in {"wfi", "clear"} \/ irq[w].clearing
    /\ wpc[w] = "clear" => irq[w].pending

(* Where a worker can be while the master is at its pc. *)
PhaseRight(w) ==
    /\ mpc = "boot" => /\ ~irq[w].pending
                       /\ wpc[w] \in {"enter", "exit?", "nthreads?", "fini++", "wfi++", "wfi"}
    /\ (mpc \notin {"boot", "exited"} /\ ~Collective) => Idle(w)
    /\ mpc \in {"set", "exit_set"} => wpc[w] = "wfi"
    /\ Collective => wpc[w] \notin {"enter", "exited"}
    /\ mpc = "exited" => /\ wpc[w] \in {"wfi", "clear", "wfi--", "exit?", "exited"}
                         /\ wpc[w] = "wfi" => irq[w].pending

(* The master's own copy and the history agree with the published event. *)
EventRight ==
    /\ eu.exit_flag = 1 <=> mpc \in {"exit_wake", "exit_set", "exited"}
    /\ mpc = "boot" => eu.nthreads = 0
    /\ mpc = "push_fn" => eu.fn < MaxRegions
    /\ mpc = "push_n" => eu.fn \in Events /\ team[eu.fn] = 0
    /\ mpc \in {"idle", "push_fn"} /\ eu.nthreads # 0 => eu.fn \in Events /\ team[eu.fn] = 0
    /\ (Running \/ Preparing \/ mpc = "n=0") =>
          /\ eu.fn \in Events
          /\ scratch = eu.nthreads /\ team[eu.fn] = eu.nthreads /\ eu.nthreads > 0
    /\ mpc \in {"wake", "set", "fini?"} => scratch > 1
    /\ \A e \in Events : e > eu.fn => team[e] = 0

(* Who has run which event.  All events but the one being run are complete. *)
Ran(c, e) == executed[c][e] = IF c < team[e] THEN 1 ELSE 0

MasterRan ==
    /\ \A e \in Events : (e # eu.fn \/ ~(Running \/ Preparing)) => Ran(0, e)
    /\ Preparing \/ mpc \in {"team?", "in_fn"} => executed[0][eu.fn] = 0
    /\ mpc = "fini?" => executed[0][eu.fn] = 1
    /\ mpc = "in_fn" => running[0] = eu.fn

WorkerRan(w) ==
    /\ wpc[w] \in {"call", "in_fn"} => w < eu.nthreads /\ Running
    /\ wpc[w] = "in_fn" => running[w] = eu.fn
    /\ \A e \in Events : (e # eu.fn \/ ~(Running \/ Preparing)) => Ran(w, e)
    /\ Preparing => executed[w][eu.fn] = 0
    /\ Running => executed[w][eu.fn] =
                    IF w < eu.nthreads /\ (wpc[w] = "fini++" \/ Idle(w)) THEN 1 ELSE 0

IInv ==
    /\ TypeOK
    /\ CountsRight
    /\ EventRight
    /\ MasterRan
    /\ \A w \in Workers : IrqRight(w) /\ PhaseRight(w) /\ WorkerRan(w)
--------------------------------------------------------------------------------
(* A set of workers has at most NumWorkers members, and all of them only if it
   is the set of all workers: why a master that waits for a count waits for
   everybody. *)
LEMMA SetSize ==
    ASSUME NEW S \in SUBSET Workers
    PROVE  /\ IsFiniteSet(S)
           /\ Cardinality(S) \in 0..NumWorkers
           /\ Cardinality(S) = NumWorkers <=> S = Workers
<1>1. IsFiniteSet(Workers) /\ Cardinality(Workers) = NumWorkers
  BY EventUnitAssumption, FS_Interval DEF Workers
<1>2. IsFiniteSet(S) /\ Cardinality(S) <= NumWorkers
      /\ (Cardinality(S) = NumWorkers => S = Workers)
  BY <1>1, FS_Subset
<1>3. Cardinality(S) \in Nat
  BY <1>2, FS_CardinalityType
<1> QED
  BY <1>1, <1>2, <1>3, EventUnitAssumption

(* A worker that joins or leaves one of the counted sets changes its size by
   one, and the size stays within the range of its counter. *)
LEMMA SetChange ==
    ASSUME NEW S \in SUBSET Workers, NEW w \in Workers
    PROVE  /\ w \notin S => /\ Cardinality(S \cup {w}) = Cardinality(S) + 1
                            /\ Cardinality(S) + 1 \in 0..NumWorkers
           /\ w \in S => /\ Cardinality(S \ {w}) = Cardinality(S) - 1
                         /\ Cardinality(S) - 1 \in 0..NumWorkers
<1>1. IsFiniteSet(S)
  BY SetSize
<1>2. w \notin S => Cardinality(S \cup {w}) = Cardinality(S) + 1
  BY <1>1, FS_AddElement
<1>3. w \in S => Cardinality(S \ {w}) = Cardinality(S) - 1
  BY <1>1, FS_RemoveElement
<1>4. Cardinality(S \cup {w}) \in 0..NumWorkers /\ Cardinality(S \ {w}) \in 0..NumWorkers
  <2>1. S \cup {w} \in SUBSET Workers /\ S \ {w} \in SUBSET Workers
    OBVIOUS
  <2> QED
    BY <2>1, SetSize
<1> QED
  BY <1>2, <1>3, <1>4

(* Nothing has happened: every counter and every set is empty. *)
LEMMA InitIInv == Init => IInv
<1> SUFFICES ASSUME Init PROVE IInv
  OBVIOUS
<1> USE EventUnitAssumption DEF Init
<1>1. InLoop = {} /\ Asleep = {} /\ Done = {}
  BY DEF InLoop, Asleep, Done, Idle
<1>2. CountsRight
  BY <1>1, FS_EmptySet DEF CountsRight, Collective, Running
<1>3. TypeOK
  BY DEF TypeOK, WorkerPCs, MasterPCs, Workers, Cores, Events
<1>4. EventRight /\ MasterRan
  BY DEF EventRight, MasterRan, Running, Preparing, Ran, Events, Cores
<1>5. \A w \in Workers : IrqRight(w) /\ PhaseRight(w) /\ WorkerRan(w)
  BY DEF IrqRight, PhaseRight, WorkerRan, Idle, Collective, Running, Preparing, Ran,
         Workers, Cores
<1> QED
  BY <1>2, <1>3, <1>4, <1>5 DEF IInv

(* Outside the boot phase everybody is in the loop, so a master that finds all
   workers of the loop asleep, or finished, finds all workers so. *)
LEMMA Everybody ==
    ASSUME IInv, \A w \in Workers : wpc[w] # "enter"
    PROVE  /\ AllAsleep => Asleep = Workers
           /\ Collective /\ eu.fini_count = eu.workers_in_loop => Done = Workers
<1>1. InLoop = Workers
  BY DEF InLoop
<1>2. eu.workers_in_loop = NumWorkers
  BY <1>1, SetSize DEF IInv, CountsRight
<1>3. Asleep \in SUBSET Workers /\ Done \in SUBSET Workers
  BY DEF Asleep, Done
<1> QED
  BY <1>2, <1>3, SetSize DEF IInv, CountsRight, AllAsleep

(* Core 0 is the master, all other cores are workers. *)
LEMMA CoreFacts ==
    0 \in Cores /\ \A w \in Workers : w \in Cores /\ w # 0 /\ w \in Nat /\ w > 0
BY EventUnitAssumption DEF Cores, Workers

(* What a step of worker w leaves alone: the master, the event and the other
   workers. *)
OnlyWorker(w) ==
    /\ UNCHANGED <<mpc, scratch, team>>
    /\ eu'.fn = eu.fn /\ eu'.nthreads = eu.nthreads /\ eu'.exit_flag = eu.exit_flag
    /\ running'[0] = running[0] /\ executed'[0] = executed[0]
    /\ \A v \in Workers : v # w => /\ wpc'[v] = wpc[v] /\ irq'[v] = irq[v]
                                  /\ running'[v] = running[v] /\ executed'[v] = executed[v]

(* Such a step preserves the invariant if it does so for w and the counters. *)
LEMMA WorkerFrame ==
    ASSUME IInv, NEW w \in Workers, OnlyWorker(w),
           TypeOK', CountsRight', IrqRight(w)' /\ PhaseRight(w)' /\ WorkerRan(w)'
    PROVE  IInv'
<1>1. EventRight' /\ MasterRan'
  <2>1. EventRight /\ MasterRan
    BY DEF IInv
  <2>2. EventRight'
    BY <2>1 DEF OnlyWorker, EventRight, Running, Preparing
  <2>3. MasterRan'
    BY <2>1 DEF OnlyWorker, MasterRan, Running, Preparing, Ran
  <2> QED
    BY <2>2, <2>3
<1>2. ASSUME NEW v \in Workers, v # w
      PROVE  IrqRight(v)' /\ PhaseRight(v)' /\ WorkerRan(v)'
  <2>1. IrqRight(v) /\ PhaseRight(v) /\ WorkerRan(v)
    BY DEF IInv
  <2>2. /\ wpc'[v] = wpc[v] /\ irq'[v] = irq[v]
        /\ running'[v] = running[v] /\ executed'[v] = executed[v]
        /\ UNCHANGED <<mpc, scratch, team>>
        /\ eu'.fn = eu.fn /\ eu'.nthreads = eu.nthreads
    BY <1>2 DEF OnlyWorker
  <2>3. IrqRight(v)' /\ PhaseRight(v)'
    BY <2>1, <2>2 DEF IrqRight, PhaseRight, Idle, Collective, Running
  <2>4. WorkerRan(v)'
    BY <2>1, <2>2 DEF WorkerRan, Idle, Running, Preparing, Ran
  <2> QED
    BY <2>3, <2>4
<1> QED
  BY <1>1, <1>2 DEF IInv

(* A worker enters the loop: it is counted once. *)
LEMMA EnterLoopStep ==
    ASSUME IInv, NEW w \in Workers, EnterLoop(w)
    PROVE  IInv'
<1> USE EventUnitAssumption, CoreFacts
<1>1. TypeOK /\ CountsRight /\ EventRight /\ IrqRight(w) /\ PhaseRight(w) /\ WorkerRan(w)
  BY DEF IInv
<1>2. InLoop' = InLoop \cup {w} /\ Asleep' = Asleep /\ Done' = Done 
      /\ InLoop \in SUBSET Workers /\ w \notin InLoop
  BY <1>1 DEF EnterLoop, WGoto, TypeOK, WorkerPCs, IrqRight, InLoop, Asleep, Done, Idle
<1>3. eu.workers_in_loop + 1 \in 0..NumWorkers /\ Cardinality(InLoop') = eu.workers_in_loop + 1
  BY <1>1, <1>2, SetChange DEF CountsRight
<1>4. /\ wpc'[w] = "exit?" /\ irq'[w] = irq[w]
      /\ running'[w] = running[w]
      /\ executed'[w] = executed[w]
  BY <1>1 DEF EnterLoop, WGoto, TypeOK
<1>5. TypeOK'
  BY <1>1, <1>3 DEF EnterLoop, WGoto, TypeOK, WorkerPCs
<1>6. CountsRight'
  BY <1>1, <1>2, <1>3 DEF EnterLoop, WGoto, CountsRight, TypeOK, Collective, Running
<1>7. OnlyWorker(w)
  BY <1>1 DEF EnterLoop, WGoto, OnlyWorker, TypeOK
<1>8. IrqRight(w)' /\ PhaseRight(w)'
  BY <1>1, <1>4, <1>7 DEF EnterLoop, WGoto, OnlyWorker, TypeOK, IrqRight, PhaseRight, WorkerRan, EventRight,
         Idle, Collective, Running
<1>9. WorkerRan(w)'
  BY <1>1, <1>4, <1>7 DEF EnterLoop, WGoto, OnlyWorker, TypeOK, IrqRight, PhaseRight, WorkerRan, EventRight,
         Idle, Collective, Running, Preparing, Ran
<1> QED
  BY <1>5, <1>6, <1>7, <1>8, <1>9, WorkerFrame

(* The exit flag is only seen after eu_exit has raised it. *)
LEMMA CheckExitStep ==
    ASSUME IInv, NEW w \in Workers, CheckExit(w)
    PROVE  IInv'
<1> USE EventUnitAssumption, CoreFacts
<1>1. TypeOK /\ CountsRight /\ EventRight /\ IrqRight(w) /\ PhaseRight(w) /\ WorkerRan(w)
  BY DEF IInv
<1>2. InLoop' = InLoop /\ Asleep' = Asleep /\ Done' = Done
  BY <1>1 DEF CheckExit, WGoto, TypeOK, WorkerPCs, IrqRight, InLoop, Asleep, Done, Idle
<1>4. /\ wpc'[w] = (IF eu.exit_flag = 1 THEN "exited" ELSE "nthreads?") /\ irq'[w] = irq[w]
      /\ running'[w] = running[w]
      /\ executed'[w] = executed[w]
  BY <1>1 DEF CheckExit, WGoto, TypeOK
<1>5. TypeOK'
  BY <1>1, <1>4 DEF CheckExit, WGoto, TypeOK, WorkerPCs
<1>6. CountsRight'
  BY <1>1, <1>2 DEF CheckExit, WGoto, CountsRight, TypeOK, Collective, Running
<1>7. OnlyWorker(w)
  BY <1>1 DEF CheckExit, WGoto, OnlyWorker, TypeOK
<1>8. IrqRight(w)' /\ PhaseRight(w)'
  BY <1>1, <1>4, <1>7 DEF CheckExit, WGoto, OnlyWorker, TypeOK, IrqRight, PhaseRight, WorkerRan, EventRight,
         Idle, Collective, Running
<1>9. WorkerRan(w)'
  BY <1>1, <1>4, <1>7 DEF CheckExit, WGoto, OnlyWorker, TypeOK, IrqRight, PhaseRight, WorkerRan, EventRight,
         Idle, Collective, Running, Preparing, Ran
<1> QED
  BY <1>5, <1>6, <1>7, <1>8, <1>9, WorkerFrame

(* nthreads is read while the master is in the region, or is still zero. *)
LEMMA CheckTeamStep ==
    ASSUME IInv, NEW w \in Workers, CheckTeam(w)
    PROVE  IInv'
<1> USE EventUnitAssumption, CoreFacts
<1>1. TypeOK /\ CountsRight /\ EventRight /\ IrqRight(w) /\ PhaseRight(w) /\ WorkerRan(w)
  BY DEF IInv
<1>2. InLoop' = InLoop /\ Asleep' = Asleep /\ Done' = Done
  BY <1>1 DEF CheckTeam, WGoto, TypeOK, WorkerPCs, IrqRight, InLoop, Asleep, Done, Idle
<1>4. /\ wpc'[w] = (IF w < eu.nthreads THEN "call" ELSE "fini++") /\ irq'[w] = irq[w]
      /\ running'[w] = running[w]
      /\ executed'[w] = executed[w]
  BY <1>1 DEF CheckTeam, WGoto, TypeOK
<1>5. TypeOK'
  BY <1>1, <1>4 DEF CheckTeam, WGoto, TypeOK, WorkerPCs
<1>6. CountsRight'
  BY <1>1, <1>2 DEF CheckTeam, WGoto, CountsRight, TypeOK, Collective, Running
<1>7. OnlyWorker(w)
  BY <1>1 DEF CheckTeam, WGoto, OnlyWorker, TypeOK
<1>a. mpc = "boot" => wpc'[w] = "fini++"
  <2>1. mpc = "boot" => eu.nthreads = 0
    BY <1>1 DEF EventRight
  <2>2. w \in Nat /\ w > 0
    BY CoreFacts
  <2>3. ~(w < 0)
    BY <2>2
  <2> QED
    BY <2>1, <2>3, <1>4
<1>b. /\ mpc = "boot" \/ Collective
      /\ irq[w] \in [pending : BOOLEAN, clearing : BOOLEAN]
      /\ ~irq[w].pending /\ ~irq[w].clearing
  BY <1>1 DEF CheckTeam, WGoto, TypeOK, PhaseRight, IrqRight, Idle
<1>8. IrqRight(w)' /\ PhaseRight(w)'
  <2>1. /\ wpc'[w] \in {"call", "fini++"} /\ irq'[w] = irq[w]
        /\ mpc' = mpc /\ Collective' = Collective
    BY <1>4, <1>7 DEF OnlyWorker, Collective, Running
  <2> QED
    BY <1>a, <1>b, <2>1 DEF IrqRight, PhaseRight, Idle, Collective, Running
<1>9. WorkerRan(w)'
  <2>1. wpc'[w] = "call" => w < eu.nthreads /\ Running
    BY <1>4, <1>a, <1>b DEF Collective
  <2>2. wpc'[w] = "fini++" => ~(w < eu.nthreads)
    BY <1>4
  <2>3. wpc'[w] \in {"call", "fini++"} /\ ~Idle(w)' /\ ~Idle(w) /\ wpc[w] = "nthreads?"
    BY <1>4 DEF Idle, CheckTeam, WGoto
  <2> QED
    BY <1>1, <1>4, <1>7, <2>1, <2>2, <2>3 DEF OnlyWorker, WorkerRan, Running, Preparing, Ran
<1> QED
  BY <1>5, <1>6, <1>7, <1>8, <1>9, WorkerFrame

(* The event called is the published one. *)
LEMMA WorkerCallStep ==
    ASSUME IInv, NEW w \in Workers, WorkerCall(w)
    PROVE  IInv'
<1> USE EventUnitAssumption, CoreFacts
<1>1. TypeOK /\ CountsRight /\ EventRight /\ IrqRight(w) /\ PhaseRight(w) /\ WorkerRan(w)
  BY DEF IInv
<1>2. InLoop' = InLoop /\ Asleep' = Asleep /\ Done' = Done
  BY <1>1 DEF WorkerCall, WGoto, TypeOK, WorkerPCs, IrqRight, InLoop, Asleep, Done, Idle
<1>4. /\ wpc'[w] = "in_fn" /\ irq'[w] = irq[w]
      /\ running'[w] = eu.fn
      /\ executed'[w] = executed[w]
  BY <1>1 DEF WorkerCall, WGoto, TypeOK
<1>5. TypeOK'
  BY <1>1, <1>4 DEF WorkerCall, WGoto, TypeOK, WorkerPCs
<1>6. CountsRight'
  BY <1>1, <1>2 DEF WorkerCall, WGoto, CountsRight, TypeOK, Collective, Running
<1>7. OnlyWorker(w)
  BY <1>1 DEF WorkerCall, WGoto, OnlyWorker, TypeOK
<1>8. IrqRight(w)' /\ PhaseRight(w)'
  BY <1>1, <1>4, <1>7 DEF WorkerCall, WGoto, OnlyWorker, TypeOK, IrqRight, PhaseRight, WorkerRan, EventRight,
         Idle, Collective, Running
<1>9. WorkerRan(w)'
  BY <1>1, <1>4, <1>7 DEF WorkerCall, WGoto, OnlyWorker, TypeOK, IrqRight, PhaseRight, WorkerRan, EventRight,
         Idle, Collective, Running, Preparing, Ran
<1> QED
  BY <1>5, <1>6, <1>7, <1>8, <1>9, WorkerFrame

(* The event counted as executed is the one that was published at the call. *)
LEMMA WorkerReturnStep ==
    ASSUME IInv, NEW w \in Workers, WorkerReturn(w)
    PROVE  IInv'
<1> USE EventUnitAssumption, CoreFacts
<1>1. TypeOK /\ CountsRight /\ EventRight /\ IrqRight(w) /\ PhaseRight(w) /\ WorkerRan(w)
  BY DEF IInv
<1>2. InLoop' = InLoop /\ Asleep' = Asleep /\ Done' = Done
  BY <1>1 DEF WorkerReturn, WGoto, TypeOK, WorkerPCs, IrqRight, InLoop, Asleep, Done, Idle
<1>4. /\ wpc'[w] = "fini++" /\ irq'[w] = irq[w]
      /\ running'[w] = 0
      /\ executed'[w] = [executed[w] EXCEPT ![eu.fn] = @ + 1]
  BY <1>1 DEF WorkerReturn, WGoto, TypeOK, EventRight, WorkerRan, Running, Preparing, Events
<1>5. TypeOK'
  <2>1. executed[w] \in [Events -> Nat] /\ running[w] = eu.fn /\ eu.fn \in Events
    BY <1>1 DEF WorkerReturn, WGoto, TypeOK, EventRight, WorkerRan
  <2>2. executed' = [executed EXCEPT ![w] = [executed[w] EXCEPT ![eu.fn] = executed[w][eu.fn] + 1]]
    BY <2>1 DEF WorkerReturn
  <2>3. [executed[w] EXCEPT ![eu.fn] = executed[w][eu.fn] + 1] \in [Events -> Nat]
    BY <2>1
  <2>4. executed' \in [Cores -> [Events -> Nat]]
    BY <1>1, <2>2, <2>3 DEF TypeOK
  <2>5. running' \in [Cores -> 0..MaxRegions]
    <3>1. running' = [running EXCEPT ![w] = 0] /\ running \in [Cores -> 0..MaxRegions]
      BY <1>1 DEF WorkerReturn, TypeOK
    <3> QED
      BY <3>1
  <2>6. wpc' \in [Workers -> WorkerPCs]
    BY <1>1 DEF WorkerReturn, WGoto, TypeOK, WorkerPCs
  <2> QED
    BY <1>1, <2>4, <2>5, <2>6 DEF WorkerReturn, TypeOK
<1>6. CountsRight'
  BY <1>1, <1>2 DEF WorkerReturn, WGoto, CountsRight, TypeOK, Collective, Running
<1>7. OnlyWorker(w)
  BY <1>1 DEF WorkerReturn, WGoto, OnlyWorker, TypeOK
<1>8. IrqRight(w)' /\ PhaseRight(w)'
  BY <1>1, <1>4, <1>7 DEF WorkerReturn, WGoto, OnlyWorker, TypeOK, IrqRight, PhaseRight, WorkerRan, EventRight,
         Idle, Collective, Running
<1>9. WorkerRan(w)'
  <2>1. /\ executed[w] \in [Events -> Nat] /\ eu.fn \in Events
        /\ Running /\ w < eu.nthreads /\ executed[w][eu.fn] = 0
    BY <1>1 DEF WorkerReturn, WGoto, TypeOK, EventRight, WorkerRan, Idle
  <2>2. /\ executed'[w][eu.fn] = 1
        /\ \A e \in Events : e # eu.fn => executed'[w][e] = executed[w][e]
    BY <2>1, <1>4
  <2>3. Running' /\ ~Preparing'
    BY <2>1, <1>7 DEF Running, Preparing, OnlyWorker
  <2> QED
    BY <1>1, <1>4, <1>7, <2>1, <2>2, <2>3 DEF OnlyWorker, WorkerRan, Ran
<1> QED
  BY <1>5, <1>6, <1>7, <1>8, <1>9, WorkerFrame

(* A worker counts itself finished only once per region. *)
LEMMA CountFinishedStep ==
    ASSUME IInv, NEW w \in Workers, CountFinished(w)
    PROVE  IInv'
<1> USE EventUnitAssumption, CoreFacts
<1>1. TypeOK /\ CountsRight /\ EventRight /\ IrqRight(w) /\ PhaseRight(w) /\ WorkerRan(w)
  BY DEF IInv
<1>2. InLoop' = InLoop /\ Asleep' = Asleep /\ Done' = Done \cup {w} 
      /\ Done \in SUBSET Workers /\ w \notin Done
  BY <1>1 DEF CountFinished, WGoto, TypeOK, WorkerPCs, IrqRight, InLoop, Asleep, Done, Idle
<1>a. mpc = "boot" \/ Collective
  BY <1>1 DEF PhaseRight, Idle, CountFinished, WGoto
<1>3. eu.fini_count + 1 \in 0..NumWorkers /\ Cardinality(Done') = eu.fini_count + 1
  BY <1>1, <1>2, <1>a, SetChange DEF CountsRight
<1>4. /\ wpc'[w] = "wfi++" /\ irq'[w] = irq[w]
      /\ running'[w] = running[w]
      /\ executed'[w] = executed[w]
  BY <1>1 DEF CountFinished, WGoto, TypeOK
<1>5. TypeOK'
  BY <1>1, <1>3 DEF CountFinished, WGoto, TypeOK, WorkerPCs
<1>6. CountsRight'
  BY <1>1, <1>2, <1>a, <1>3 DEF CountFinished, WGoto, CountsRight, TypeOK, Collective, Running
<1>7. OnlyWorker(w)
  BY <1>1 DEF CountFinished, WGoto, OnlyWorker, TypeOK
<1>8. IrqRight(w)' /\ PhaseRight(w)'
  BY <1>1, <1>4, <1>7 DEF CountFinished, WGoto, OnlyWorker, TypeOK, IrqRight, PhaseRight, WorkerRan, EventRight,
         Idle, Collective, Running
<1>9. WorkerRan(w)'
  BY <1>1, <1>4, <1>7 DEF CountFinished, WGoto, OnlyWorker, TypeOK, IrqRight, PhaseRight, WorkerRan, EventRight,
         Idle, Collective, Running, Preparing, Ran
<1> QED
  BY <1>5, <1>6, <1>7, <1>8, <1>9, WorkerFrame

(* A worker announces its sleep only when it is not counted asleep. *)
LEMMA AnnounceSleepStep ==
    ASSUME IInv, NEW w \in Workers, AnnounceSleep(w)
    PROVE  IInv'
<1> USE EventUnitAssumption, CoreFacts
<1>1. TypeOK /\ CountsRight /\ EventRight /\ IrqRight(w) /\ PhaseRight(w) /\ WorkerRan(w)
  BY DEF IInv
<1>2. InLoop' = InLoop /\ Asleep' = Asleep \cup {w} /\ Done' = Done 
      /\ Asleep \in SUBSET Workers /\ w \notin Asleep
  BY <1>1 DEF AnnounceSleep, WGoto, TypeOK, WorkerPCs, IrqRight, InLoop, Asleep, Done, Idle
<1>3. eu.workers_wfi + 1 \in 0..NumWorkers /\ Cardinality(Asleep') = eu.workers_wfi + 1
  BY <1>1, <1>2, SetChange DEF CountsRight
<1>4. /\ wpc'[w] = "wfi" /\ irq'[w] = irq[w]
      /\ running'[w] = running[w]
      /\ executed'[w] = executed[w]
  BY <1>1 DEF AnnounceSleep, WGoto, TypeOK
<1>5. TypeOK'
  BY <1>1, <1>3 DEF AnnounceSleep, WGoto, TypeOK, WorkerPCs
<1>6. CountsRight'
  BY <1>1, <1>2, <1>3 DEF AnnounceSleep, WGoto, CountsRight, TypeOK, Collective, Running
<1>7. OnlyWorker(w)
  BY <1>1 DEF AnnounceSleep, WGoto, OnlyWorker, TypeOK
<1>8. IrqRight(w)' /\ PhaseRight(w)'
  BY <1>1, <1>4, <1>7 DEF AnnounceSleep, WGoto, OnlyWorker, TypeOK, IrqRight, PhaseRight, WorkerRan, EventRight,
         Idle, Collective, Running
<1>9. WorkerRan(w)'
  BY <1>1, <1>4, <1>7 DEF AnnounceSleep, WGoto, OnlyWorker, TypeOK, IrqRight, PhaseRight, WorkerRan, EventRight,
         Idle, Collective, Running, Preparing, Ran
<1> QED
  BY <1>5, <1>6, <1>7, <1>8, <1>9, WorkerFrame

(* An interrupt ends the sleep; the worker stays counted asleep. *)
LEMMA WakeUpStep ==
    ASSUME IInv, NEW w \in Workers, WakeUp(w)
    PROVE  IInv'
<1> USE EventUnitAssumption, CoreFacts
<1>1. TypeOK /\ CountsRight /\ EventRight /\ IrqRight(w) /\ PhaseRight(w) /\ WorkerRan(w)
  BY DEF IInv
<1>2. InLoop' = InLoop /\ Asleep' = Asleep /\ Done' = Done
  BY <1>1 DEF WakeUp, WGoto, TypeOK, WorkerPCs, IrqRight, InLoop, Asleep, Done, Idle
<1>4. /\ wpc'[w] = "clear" /\ irq'[w] = irq[w]
      /\ running'[w] = running[w]
      /\ executed'[w] = executed[w]
  BY <1>1 DEF WakeUp, WGoto, TypeOK
<1>5. TypeOK'
  BY <1>1, <1>4 DEF WakeUp, WGoto, TypeOK, WorkerPCs
<1>6. CountsRight'
  BY <1>1, <1>2 DEF WakeUp, WGoto, CountsRight, TypeOK, Collective, Running
<1>7. OnlyWorker(w)
  BY <1>1 DEF WakeUp, WGoto, OnlyWorker, TypeOK
<1>8. IrqRight(w)' /\ PhaseRight(w)'
  BY <1>1, <1>4, <1>7 DEF WakeUp, WGoto, OnlyWorker, TypeOK, IrqRight, PhaseRight, WorkerRan, EventRight,
         Idle, Collective, Running
<1>a. ~Idle(w) /\ ~Idle(w)' /\ wpc'[w] \notin {"call", "in_fn", "fini++"} /\ wpc[w] # "fini++"
  BY <1>1, <1>4 DEF WakeUp, WGoto, TypeOK, IrqRight, Idle
<1>9. WorkerRan(w)'
  BY <1>1, <1>4, <1>7, <1>a DEF OnlyWorker, WorkerRan, Running, Preparing, Ran
<1> QED
  BY <1>5, <1>6, <1>7, <1>8, <1>9, WorkerFrame

(* The posted clear is on its way. *)
LEMMA ClearInterruptStep ==
    ASSUME IInv, NEW w \in Workers, ClearInterrupt(w)
    PROVE  IInv'
<1> USE EventUnitAssumption, CoreFacts
<1>1. TypeOK /\ CountsRight /\ EventRight /\ IrqRight(w) /\ PhaseRight(w) /\ WorkerRan(w)
  BY DEF IInv
<1>2. InLoop' = InLoop /\ Asleep' = Asleep /\ Done' = Done
  BY <1>1 DEF ClearInterrupt, WGoto, TypeOK, WorkerPCs, IrqRight, InLoop, Asleep, Done, Idle
<1>4. /\ wpc'[w] = "wfi--" /\ irq'[w] = [irq[w] EXCEPT !.clearing = TRUE]
      /\ running'[w] = running[w]
      /\ executed'[w] = executed[w]
  BY <1>1 DEF ClearInterrupt, WGoto, TypeOK
<1>5. TypeOK'
  BY <1>1, <1>4 DEF ClearInterrupt, WGoto, TypeOK, WorkerPCs
<1>6. CountsRight'
  BY <1>1, <1>2 DEF ClearInterrupt, WGoto, CountsRight, TypeOK, Collective, Running
<1>7. OnlyWorker(w)
  BY <1>1 DEF ClearInterrupt, WGoto, OnlyWorker, TypeOK
<1>8. IrqRight(w)' /\ PhaseRight(w)'
  BY <1>1, <1>4, <1>7 DEF ClearInterrupt, WGoto, OnlyWorker, TypeOK, IrqRight, PhaseRight, WorkerRan, EventRight,
         Idle, Collective, Running
<1>9. WorkerRan(w)'
  BY <1>1, <1>4, <1>7 DEF ClearInterrupt, WGoto, OnlyWorker, TypeOK, IrqRight, PhaseRight, WorkerRan, EventRight,
         Idle, Collective, Running, Preparing, Ran
<1> QED
  BY <1>5, <1>6, <1>7, <1>8, <1>9, WorkerFrame

(* A worker that wakes up takes back its own announcement. *)
LEMMA RevokeSleepStep ==
    ASSUME IInv, NEW w \in Workers, RevokeSleep(w)
    PROVE  IInv'
<1> USE EventUnitAssumption, CoreFacts
<1>1. TypeOK /\ CountsRight /\ EventRight /\ IrqRight(w) /\ PhaseRight(w) /\ WorkerRan(w)
  BY DEF IInv
<1>2. InLoop' = InLoop /\ Asleep' = Asleep \ {w} /\ Done' = Done 
      /\ Asleep \in SUBSET Workers /\ w \in Asleep
  BY <1>1 DEF RevokeSleep, WGoto, TypeOK, WorkerPCs, IrqRight, InLoop, Asleep, Done, Idle
<1>3. eu.workers_wfi - 1 \in 0..NumWorkers /\ Cardinality(Asleep') = eu.workers_wfi - 1
  BY <1>1, <1>2, SetChange DEF CountsRight
<1>4. /\ wpc'[w] = "exit?" /\ irq'[w] = irq[w]
      /\ running'[w] = running[w]
      /\ executed'[w] = executed[w]
  BY <1>1 DEF RevokeSleep, WGoto, TypeOK
<1>5. TypeOK'
  BY <1>1, <1>3 DEF RevokeSleep, WGoto, TypeOK, WorkerPCs
<1>6. CountsRight'
  BY <1>1, <1>2, <1>3 DEF RevokeSleep, WGoto, CountsRight, TypeOK, Collective, Running
<1>7. OnlyWorker(w)
  BY <1>1 DEF RevokeSleep, WGoto, OnlyWorker, TypeOK
<1>8. IrqRight(w)' /\ PhaseRight(w)'
  BY <1>1, <1>4, <1>7 DEF RevokeSleep, WGoto, OnlyWorker, TypeOK, IrqRight, PhaseRight, WorkerRan, EventRight,
         Idle, Collective, Running
<1>9. WorkerRan(w)'
  BY <1>1, <1>4, <1>7 DEF RevokeSleep, WGoto, OnlyWorker, TypeOK, IrqRight, PhaseRight, WorkerRan, EventRight,
         Idle, Collective, Running, Preparing, Ran
<1> QED
  BY <1>5, <1>6, <1>7, <1>8, <1>9, WorkerFrame

(* The clear lands before the worker's next load, so it never removes a later wake-up. *)
LEMMA ClearLandsStep ==
    ASSUME IInv, NEW w \in Workers, ClearLands(w)
    PROVE  IInv'
<1> USE EventUnitAssumption, CoreFacts
<1>1. TypeOK /\ CountsRight /\ EventRight /\ IrqRight(w) /\ PhaseRight(w) /\ WorkerRan(w)
  BY DEF IInv
<1>2. InLoop' = InLoop /\ Asleep' = Asleep /\ Done' = Done
  BY <1>1 DEF ClearLands, TypeOK, WorkerPCs, IrqRight, InLoop, Asleep, Done, Idle
<1>4. /\ wpc'[w] = wpc[w] /\ irq'[w] = [pending |-> FALSE, clearing |-> FALSE]
      /\ running'[w] = running[w]
      /\ executed'[w] = executed[w]
  BY <1>1 DEF ClearLands, TypeOK
<1>5. TypeOK'
  BY <1>1, <1>4 DEF ClearLands, TypeOK, WorkerPCs
<1>6. CountsRight'
  BY <1>1, <1>2 DEF ClearLands, CountsRight, TypeOK, Collective, Running
<1>7. OnlyWorker(w)
  BY <1>1 DEF ClearLands, OnlyWorker, TypeOK
<1>8. IrqRight(w)' /\ PhaseRight(w)'
  BY <1>1, <1>4, <1>7 DEF ClearLands, OnlyWorker, TypeOK, IrqRight, PhaseRight, WorkerRan, EventRight,
         Idle, Collective, Running
<1>a. ~Idle(w) /\ ~Idle(w)' /\ wpc'[w] \notin {"call", "in_fn", "fini++"} /\ wpc[w] # "fini++"
  BY <1>1, <1>4 DEF ClearLands, TypeOK, IrqRight, Idle
<1>9. WorkerRan(w)'
  BY <1>1, <1>4, <1>7, <1>a DEF OnlyWorker, WorkerRan, Running, Preparing, Ran
<1> QED
  BY <1>5, <1>6, <1>7, <1>8, <1>9, WorkerFrame

(* No access of the master but the wake-up changes a counted set. *)
LEMMA MasterCounts ==
    ASSUME UNCHANGED <<wpc, irq>>
    PROVE  InLoop' = InLoop /\ Asleep' = Asleep /\ Done' = Done
BY DEF InLoop, Asleep, Done, Idle

(* The master leaves the bootstrap when all workers sleep for the first time. *)
LEMMA BootstrapStep ==
    ASSUME IInv, Bootstrap
    PROVE  IInv'
<1> USE EventUnitAssumption, CoreFacts
<1>1. TypeOK /\ CountsRight /\ EventRight /\ MasterRan
  BY DEF IInv
<1>2. \A v \in Workers : IrqRight(v) /\ PhaseRight(v) /\ WorkerRan(v)
  BY DEF IInv
<1>3. Asleep = Workers
  <2>1. Asleep \in SUBSET Workers /\ Cardinality(Asleep) = NumWorkers
    BY <1>1 DEF Bootstrap, CountsRight, Asleep
  <2> QED
    BY <2>1, SetSize
<1>4. \A v \in Workers : Idle(v)
  BY <1>2, <1>3 DEF Bootstrap, MGoto, Asleep, PhaseRight, Idle
<1>5. TypeOK'
  BY <1>1 DEF Bootstrap, MGoto, TypeOK, MasterPCs
<1>6. CountsRight'
  BY <1>1, MasterCounts, <1>4 DEF Bootstrap, MGoto, CountsRight, TypeOK, EventRight, Collective,
         Running, Preparing
<1>7. EventRight'
  BY <1>1, <1>4 DEF Bootstrap, MGoto, TypeOK, EventRight, Running, Preparing, Events
<1>8. MasterRan'
  BY <1>1, <1>4 DEF Bootstrap, MGoto, TypeOK, EventRight, MasterRan, Running, Preparing, Ran, Events
<1>9. ASSUME NEW v \in Workers
      PROVE  IrqRight(v)' /\ PhaseRight(v)' /\ WorkerRan(v)'
  <2>1. IrqRight(v) /\ PhaseRight(v) /\ WorkerRan(v)
    BY <1>2
  <2>2. IrqRight(v)' /\ PhaseRight(v)'
    BY <1>1, <2>1, <1>4 DEF Bootstrap, MGoto, TypeOK, EventRight, IrqRight, PhaseRight, Idle, Collective,
           Running
  <2>3. WorkerRan(v)'
    BY <1>1, <2>1, <1>4 DEF Bootstrap, MGoto, TypeOK, EventRight, PhaseRight, WorkerRan, Idle, Collective,
           Running, Preparing, Ran, Events
  <2> QED
    BY <2>2, <2>3
<1> QED
  BY <1>5, <1>6, <1>7, <1>8, <1>9 DEF IInv

(* Waiting for the workers before the event is written. *)
LEMMA PushWaitStep ==
    ASSUME IInv, PushWait
    PROVE  IInv'
<1> USE EventUnitAssumption, CoreFacts
<1>1. TypeOK /\ CountsRight /\ EventRight /\ MasterRan
  BY DEF IInv
<1>2. \A v \in Workers : IrqRight(v) /\ PhaseRight(v) /\ WorkerRan(v)
  BY DEF IInv
<1>5. TypeOK'
  BY <1>1 DEF PushWait, MGoto, TypeOK, MasterPCs
<1>6. CountsRight'
  BY <1>1, MasterCounts DEF PushWait, MGoto, CountsRight, TypeOK, EventRight, Collective,
         Running, Preparing
<1>7. EventRight'
  BY <1>1 DEF PushWait, MGoto, TypeOK, EventRight, Running, Preparing, Events
<1>8. MasterRan'
  BY <1>1 DEF PushWait, MGoto, TypeOK, EventRight, MasterRan, Running, Preparing, Ran, Events
<1>9. ASSUME NEW v \in Workers
      PROVE  IrqRight(v)' /\ PhaseRight(v)' /\ WorkerRan(v)'
  <2>1. IrqRight(v) /\ PhaseRight(v) /\ WorkerRan(v)
    BY <1>2
  <2>2. IrqRight(v)' /\ PhaseRight(v)'
    BY <1>1, <2>1 DEF PushWait, MGoto, TypeOK, EventRight, IrqRight, PhaseRight, Idle, Collective,
           Running
  <2>3. WorkerRan(v)'
    BY <1>1, <2>1 DEF PushWait, MGoto, TypeOK, EventRight, PhaseRight, WorkerRan, Idle, Collective,
           Running, Preparing, Ran, Events
  <2> QED
    BY <2>2, <2>3
<1> QED
  BY <1>5, <1>6, <1>7, <1>8, <1>9 DEF IInv

(* The function of the next event: an event nobody has run. *)
LEMMA PushFnStep ==
    ASSUME IInv, PushFn
    PROVE  IInv'
<1> USE EventUnitAssumption, CoreFacts
<1>1. TypeOK /\ CountsRight /\ EventRight /\ MasterRan
  BY DEF IInv
<1>2. \A v \in Workers : IrqRight(v) /\ PhaseRight(v) /\ WorkerRan(v)
  BY DEF IInv
<1>3. eu.fn \in Nat /\ eu.fn + 1 \in Events /\ eu.fn + 1 \in 0..MaxRegions
  <2>1. eu.fn \in 0..MaxRegions /\ eu.fn < MaxRegions
    BY <1>1 DEF PushFn, MGoto, TypeOK, EventRight
  <2> QED
    BY <2>1 DEF Events
<1>4. /\ eu'.fn = eu.fn + 1 /\ eu'.exit_flag = eu.exit_flag /\ eu'.nthreads = eu.nthreads
      /\ mpc = "push_fn" /\ mpc' = "push_n" /\ team' = team
  BY <1>1 DEF PushFn, MGoto, TypeOK
<1>5. TypeOK'
  BY <1>1, <1>3 DEF PushFn, MGoto, TypeOK, MasterPCs
<1>6. CountsRight'
  BY <1>1, MasterCounts DEF PushFn, MGoto, CountsRight, TypeOK, EventRight, Collective,
         Running, Preparing
<1>7. EventRight'
  <2>1. \A e \in Events : e \in Nat
    BY DEF Events
  <2>2. \A e \in Events : e > eu.fn => team[e] = 0
    BY <1>1 DEF EventRight
  <2>3. team[eu.fn + 1] = 0 /\ \A e \in Events : e > eu.fn + 1 => team[e] = 0
    BY <1>3, <2>1, <2>2
  <2> QED
    BY <1>1, <1>3, <1>4, <2>3 DEF EventRight, Running, Preparing
<1>8. MasterRan'
  BY <1>1 DEF PushFn, MGoto, TypeOK, EventRight, MasterRan, Running, Preparing, Ran, Events
<1>9. ASSUME NEW v \in Workers
      PROVE  IrqRight(v)' /\ PhaseRight(v)' /\ WorkerRan(v)'
  <2>1. IrqRight(v) /\ PhaseRight(v) /\ WorkerRan(v)
    BY <1>2
  <2>2. IrqRight(v)' /\ PhaseRight(v)'
    BY <1>1, <2>1 DEF PushFn, MGoto, TypeOK, EventRight, IrqRight, PhaseRight, Idle, Collective,
           Running
  <2>3. WorkerRan(v)'
    BY <1>1, <2>1 DEF PushFn, MGoto, TypeOK, EventRight, PhaseRight, WorkerRan, Idle, Collective,
           Running, Preparing, Ran, Events
  <2> QED
    BY <2>2, <2>3
<1> QED
  BY <1>5, <1>6, <1>7, <1>8, <1>9 DEF IInv

(* The size of the team of the pushed event. *)
LEMMA PushThreadsStep ==
    ASSUME IInv, NEW n \in 1..(NumWorkers + 1), PushThreads(n)
    PROVE  IInv'
<1> USE EventUnitAssumption, CoreFacts
<1>1. TypeOK /\ CountsRight /\ EventRight /\ MasterRan
  BY DEF IInv
<1>2. \A v \in Workers : IrqRight(v) /\ PhaseRight(v) /\ WorkerRan(v)
  BY DEF IInv
<1>3. n \in 0..(NumWorkers + 1)
  OBVIOUS
<1>5. TypeOK'
  BY <1>1, <1>3 DEF PushThreads, MGoto, TypeOK, MasterPCs
<1>6. CountsRight'
  BY <1>1, MasterCounts DEF PushThreads, MGoto, CountsRight, TypeOK, EventRight, Collective,
         Running, Preparing
<1>7. EventRight'
  BY <1>1 DEF PushThreads, MGoto, TypeOK, EventRight, Running, Preparing, Events
<1>8. MasterRan'
  BY <1>1 DEF PushThreads, MGoto, TypeOK, EventRight, MasterRan, Running, Preparing, Ran, Events
<1>9. ASSUME NEW v \in Workers
      PROVE  IrqRight(v)' /\ PhaseRight(v)' /\ WorkerRan(v)'
  <2>1. IrqRight(v) /\ PhaseRight(v) /\ WorkerRan(v)
    BY <1>2
  <2>2. IrqRight(v)' /\ PhaseRight(v)'
    BY <1>1, <2>1 DEF PushThreads, MGoto, TypeOK, EventRight, IrqRight, PhaseRight, Idle, Collective,
           Running
  <2>3. WorkerRan(v)'
    BY <1>1, <2>1 DEF PushThreads, MGoto, TypeOK, EventRight, PhaseRight, WorkerRan, Idle, Collective,
           Running, Preparing, Ran, Events
  <2> QED
    BY <2>2, <2>3
<1> QED
  BY <1>5, <1>6, <1>7, <1>8, <1>9 DEF IInv

(* The team of the event is fixed when the region starts. *)
LEMMA RunEmptyStep ==
    ASSUME IInv, RunEmpty
    PROVE  IInv'
<1> USE EventUnitAssumption, CoreFacts
<1>1. TypeOK /\ CountsRight /\ EventRight /\ MasterRan
  BY DEF IInv
<1>2. \A v \in Workers : IrqRight(v) /\ PhaseRight(v) /\ WorkerRan(v)
  BY DEF IInv
<1>5. TypeOK'
  BY <1>1 DEF RunEmpty, MGoto, TypeOK, MasterPCs
<1>6. CountsRight'
  BY <1>1, MasterCounts DEF RunEmpty, MGoto, CountsRight, TypeOK, EventRight, Collective,
         Running, Preparing
<1>7. EventRight'
  BY <1>1 DEF RunEmpty, MGoto, TypeOK, EventRight, Running, Preparing, Events
<1>8. MasterRan'
  BY <1>1 DEF RunEmpty, MGoto, TypeOK, EventRight, MasterRan, Running, Preparing, Ran, Events
<1>9. ASSUME NEW v \in Workers
      PROVE  IrqRight(v)' /\ PhaseRight(v)' /\ WorkerRan(v)'
  <2>1. IrqRight(v) /\ PhaseRight(v) /\ WorkerRan(v)
    BY <1>2
  <2>2. IrqRight(v)' /\ PhaseRight(v)'
    BY <1>1, <2>1 DEF RunEmpty, MGoto, TypeOK, EventRight, IrqRight, PhaseRight, Idle, Collective,
           Running
  <2>3. WorkerRan(v)'
    <3>1. CASE eu.nthreads = 0
      BY <1>1, <2>1, <3>1 DEF RunEmpty, MGoto, WorkerRan, Idle, Running, Preparing, Ran
    <3>2. CASE eu.nthreads # 0
      <4>1. /\ eu.fn \in Events /\ team[eu.fn] = 0 /\ mpc = "idle" /\ mpc' = "fini=0"
            /\ \A e \in Events : e # eu.fn => team'[e] = team[e]
            /\ eu' = eu /\ executed' = executed /\ wpc' = wpc
        BY <1>1, <3>2 DEF RunEmpty, MGoto, EventRight, TypeOK
      <4>2. executed[v][eu.fn] = 0
        <5>1. Ran(v, eu.fn)
          BY <2>1, <4>1 DEF WorkerRan, Running, Preparing
        <5>2. ~(v < 0)
          OBVIOUS
        <5> QED
          BY <5>1, <5>2, <4>1 DEF Ran
      <4>3. ~Running' /\ Preparing' /\ ~Running /\ ~Preparing
        BY <4>1 DEF Running, Preparing
      <4> QED
        BY <2>1, <4>1, <4>2, <4>3 DEF WorkerRan, Ran
    <3> QED
      BY <3>1, <3>2
  <2> QED
    BY <2>2, <2>3
<1> QED
  BY <1>5, <1>6, <1>7, <1>8, <1>9 DEF IInv

(* Nobody is between two counts when the finish counter is reset. *)
LEMMA ResetFinishedStep ==
    ASSUME IInv, ResetFinished
    PROVE  IInv'
<1> USE EventUnitAssumption, CoreFacts
<1>1. TypeOK /\ CountsRight /\ EventRight /\ MasterRan
  BY DEF IInv
<1>2. \A v \in Workers : IrqRight(v) /\ PhaseRight(v) /\ WorkerRan(v)
  BY DEF IInv
<1>5. TypeOK'
  BY <1>1 DEF ResetFinished, MGoto, TypeOK, MasterPCs
<1>6. CountsRight'
  BY <1>1, MasterCounts DEF ResetFinished, MGoto, CountsRight, TypeOK, EventRight, Collective,
         Running, Preparing
<1>7. EventRight'
  BY <1>1 DEF ResetFinished, MGoto, TypeOK, EventRight, Running, Preparing, Events
<1>8. MasterRan'
  BY <1>1 DEF ResetFinished, MGoto, TypeOK, EventRight, MasterRan, Running, Preparing, Ran, Events
<1>9. ASSUME NEW v \in Workers
      PROVE  IrqRight(v)' /\ PhaseRight(v)' /\ WorkerRan(v)'
  <2>1. IrqRight(v) /\ PhaseRight(v) /\ WorkerRan(v)
    BY <1>2
  <2>2. IrqRight(v)' /\ PhaseRight(v)'
    BY <1>1, <2>1 DEF ResetFinished, MGoto, TypeOK, EventRight, IrqRight, PhaseRight, Idle, Collective,
           Running
  <2>3. WorkerRan(v)'
    <3>1. /\ eu'.fn = eu.fn /\ eu'.nthreads = eu.nthreads /\ Preparing
          /\ Idle(v) /\ UNCHANGED <<wpc, irq, team, executed, running>>
      BY <1>1, <2>1 DEF ResetFinished, MGoto, TypeOK, Preparing, PhaseRight, Collective, Running
    <3>2. mpc' = "wake" \/ (mpc' = "team?" /\ ~(v < eu.nthreads))
      BY <1>1 DEF ResetFinished, MGoto, TypeOK, EventRight, Preparing
    <3>3. executed[v][eu.fn] = 0 /\ wpc[v] \notin {"call", "in_fn"}
      BY <2>1, <3>1 DEF WorkerRan, Idle
    <3> QED
      BY <2>1, <3>1, <3>2, <3>3 DEF WorkerRan, Running, Preparing, Ran
  <2> QED
    BY <2>2, <2>3
<1> QED
  BY <1>5, <1>6, <1>7, <1>8, <1>9 DEF IInv

(* All workers sleep when the interrupts are about to be set. *)
LEMMA WakeWaitStep ==
    ASSUME IInv, WakeWait
    PROVE  IInv'
<1> USE EventUnitAssumption, CoreFacts
<1>1. TypeOK /\ CountsRight /\ EventRight /\ MasterRan
  BY DEF IInv
<1>2. \A v \in Workers : IrqRight(v) /\ PhaseRight(v) /\ WorkerRan(v)
  BY DEF IInv
<1>3. \A v \in Workers : Idle(v)
  BY <1>2 DEF WakeWait, MGoto, PhaseRight, Collective, Running
<1>4. \A v \in Workers : wpc[v] = "wfi"
  <2>1. \A v \in Workers : wpc[v] # "enter"
    BY <1>3 DEF Idle
  <2>2. Asleep = Workers
    BY <2>1, Everybody DEF WakeWait
  <2> QED
    BY <1>3, <2>2 DEF Asleep, Idle
<1>5. TypeOK'
  BY <1>1 DEF WakeWait, MGoto, TypeOK, MasterPCs
<1>6. CountsRight'
  BY <1>1, MasterCounts, <1>4 DEF WakeWait, MGoto, CountsRight, TypeOK, EventRight, Collective,
         Running, Preparing
<1>7. EventRight'
  BY <1>1, <1>4 DEF WakeWait, MGoto, TypeOK, EventRight, Running, Preparing, Events
<1>8. MasterRan'
  BY <1>1, <1>4 DEF WakeWait, MGoto, TypeOK, EventRight, MasterRan, Running, Preparing, Ran, Events
<1>9. ASSUME NEW v \in Workers
      PROVE  IrqRight(v)' /\ PhaseRight(v)' /\ WorkerRan(v)'
  <2>1. IrqRight(v) /\ PhaseRight(v) /\ WorkerRan(v)
    BY <1>2
  <2>2. IrqRight(v)' /\ PhaseRight(v)'
    BY <1>1, <2>1, <1>4 DEF WakeWait, MGoto, TypeOK, EventRight, IrqRight, PhaseRight, Idle, Collective,
           Running
  <2>3. WorkerRan(v)'
    BY <1>1, <2>1, <1>4 DEF WakeWait, MGoto, TypeOK, EventRight, PhaseRight, WorkerRan, Idle, Collective,
           Running, Preparing, Ran, Events
  <2> QED
    BY <2>2, <2>3
<1> QED
  BY <1>5, <1>6, <1>7, <1>8, <1>9 DEF IInv

(* Every worker is woken, and nobody has finished yet. *)
LEMMA WakeSetStep ==
    ASSUME IInv, WakeSet
    PROVE  IInv'
<1> USE EventUnitAssumption, CoreFacts
<1>1. TypeOK /\ CountsRight /\ EventRight /\ MasterRan
  BY DEF IInv
<1>2. \A v \in Workers : IrqRight(v) /\ PhaseRight(v) /\ WorkerRan(v)
  BY DEF IInv
<1>3. /\ \A v \in Workers : /\ wpc[v] = "wfi" /\ ~irq[v].clearing
                            /\ irq'[v] = [irq[v] EXCEPT !.pending = TRUE]
                            /\ irq'[v].pending /\ ~irq'[v].clearing
      /\ wpc' = wpc
  <2>1. /\ mpc \in {"set", "exit_set"} /\ wpc' = wpc
        /\ irq' = [w \in Workers |-> [irq[w] EXCEPT !.pending = TRUE]]
        /\ irq \in [Workers -> [pending : BOOLEAN, clearing : BOOLEAN]]
    BY <1>1 DEF WakeSet, MGoto, TypeOK
  <2>2. ASSUME NEW v \in Workers
        PROVE  /\ wpc[v] = "wfi" /\ ~irq[v].clearing
               /\ irq'[v] = [irq[v] EXCEPT !.pending = TRUE]
               /\ irq'[v].pending /\ ~irq'[v].clearing
    <3>1. wpc[v] = "wfi"
      BY <1>2, <2>1 DEF PhaseRight
    <3>2. ~irq[v].clearing
      BY <1>2, <3>1 DEF IrqRight
    <3> QED
      BY <2>1, <3>1, <3>2
  <2> QED
    BY <2>1, <2>2
<1>4. InLoop' = InLoop /\ Asleep' = Asleep /\ Done' = {}
  BY <1>3 DEF InLoop, Asleep, Done, Idle
<1>6. CountsRight'
  BY <1>1, <1>4, FS_EmptySet DEF WakeSet, MGoto, CountsRight, TypeOK, Collective, Running
<1>5. TypeOK'
  BY <1>1 DEF WakeSet, MGoto, TypeOK, MasterPCs
<1>7. EventRight'
  BY <1>1, <1>3 DEF WakeSet, MGoto, TypeOK, EventRight, Running, Preparing, Events
<1>8. MasterRan'
  BY <1>1, <1>3 DEF WakeSet, MGoto, TypeOK, EventRight, MasterRan, Running, Preparing, Ran, Events
<1>9. ASSUME NEW v \in Workers
      PROVE  IrqRight(v)' /\ PhaseRight(v)' /\ WorkerRan(v)'
  <2>1. IrqRight(v) /\ PhaseRight(v) /\ WorkerRan(v)
    BY <1>2
  <2>2. IrqRight(v)' /\ PhaseRight(v)'
    BY <1>1, <2>1, <1>3 DEF WakeSet, MGoto, TypeOK, EventRight, IrqRight, PhaseRight, Idle, Collective,
           Running
  <2>3. WorkerRan(v)'
    BY <1>1, <2>1, <1>3 DEF WakeSet, MGoto, TypeOK, EventRight, PhaseRight, WorkerRan, Idle, Collective,
           Running, Preparing, Ran, Events
  <2> QED
    BY <2>2, <2>3
<1> QED
  BY <1>5, <1>6, <1>7, <1>8, <1>9 DEF IInv

(* The master calls the event it has published. *)
LEMMA MasterCallStep ==
    ASSUME IInv, MasterCall
    PROVE  IInv'
<1> USE EventUnitAssumption, CoreFacts
<1>1. TypeOK /\ CountsRight /\ EventRight /\ MasterRan
  BY DEF IInv
<1>2. \A v \in Workers : IrqRight(v) /\ PhaseRight(v) /\ WorkerRan(v)
  BY DEF IInv
<1>5. TypeOK'
  BY <1>1 DEF MasterCall, MGoto, TypeOK, MasterPCs
<1>6. CountsRight'
  BY <1>1, MasterCounts DEF MasterCall, MGoto, CountsRight, TypeOK, EventRight, Collective,
         Running, Preparing
<1>7. EventRight'
  BY <1>1 DEF MasterCall, MGoto, TypeOK, EventRight, Running, Preparing, Events
<1>8. MasterRan'
  BY <1>1 DEF MasterCall, MGoto, TypeOK, EventRight, MasterRan, Running, Preparing, Ran, Events
<1>9. ASSUME NEW v \in Workers
      PROVE  IrqRight(v)' /\ PhaseRight(v)' /\ WorkerRan(v)'
  <2>1. IrqRight(v) /\ PhaseRight(v) /\ WorkerRan(v)
    BY <1>2
  <2>2. IrqRight(v)' /\ PhaseRight(v)'
    BY <1>1, <2>1 DEF MasterCall, MGoto, TypeOK, EventRight, IrqRight, PhaseRight, Idle, Collective,
           Running
  <2>3. WorkerRan(v)'
    BY <1>1, <2>1 DEF MasterCall, MGoto, TypeOK, EventRight, PhaseRight, WorkerRan, Idle, Collective,
           Running, Preparing, Ran, Events
  <2> QED
    BY <2>2, <2>3
<1> QED
  BY <1>5, <1>6, <1>7, <1>8, <1>9 DEF IInv

(* The master's own share of the event. *)
LEMMA MasterReturnStep ==
    ASSUME IInv, MasterReturn
    PROVE  IInv'
<1> USE EventUnitAssumption, CoreFacts
<1>1. TypeOK /\ CountsRight /\ EventRight /\ MasterRan
  BY DEF IInv
<1>2. \A v \in Workers : IrqRight(v) /\ PhaseRight(v) /\ WorkerRan(v)
  BY DEF IInv
<1>3. /\ executed[0] \in [Events -> Nat] /\ running[0] = eu.fn /\ eu.fn \in Events
      /\ executed[0][eu.fn] = 0 /\ eu.nthreads \in Nat /\ eu.nthreads > 0
      /\ scratch = eu.nthreads /\ team[eu.fn] = eu.nthreads /\ mpc = "in_fn"
  <2>1. mpc = "in_fn"
    BY DEF MasterReturn, MGoto
  <2>2. executed[0] \in [Events -> Nat] /\ eu.nthreads \in Nat
    BY <1>1 DEF TypeOK
  <2>3. running[0] = eu.fn /\ executed[0][eu.fn] = 0
    BY <1>1, <2>1 DEF MasterRan
  <2>4. /\ eu.fn \in Events /\ eu.nthreads > 0
        /\ scratch = eu.nthreads /\ team[eu.fn] = eu.nthreads
    BY <1>1, <2>1 DEF EventRight, Running
  <2> QED
    BY <2>1, <2>2, <2>3, <2>4
<1>4. /\ executed' = [executed EXCEPT ![0] = [executed[0] EXCEPT ![eu.fn] = 1]]
      /\ running' = [running EXCEPT ![0] = 0]
      /\ mpc' \in {"fini?", "n=0"}
      /\ UNCHANGED <<eu, irq, wpc, scratch, team>>
  <2>1. executed' = [executed EXCEPT ![0][eu.fn] = @ + 1]
    BY <1>3 DEF MasterReturn
  <2>2. executed' = [executed EXCEPT ![0] = [executed[0] EXCEPT ![eu.fn] = executed[0][eu.fn] + 1]]
    BY <2>1
  <2>3. executed[0][eu.fn] + 1 = 1
    <3>1. executed[0][eu.fn] = 0
      BY <1>3
    <3> QED
      BY <3>1
  <2>4. mpc' \in {"fini?", "n=0"}
    BY DEF MasterReturn, MGoto
  <2>5. running' = [running EXCEPT ![0] = 0] /\ UNCHANGED <<eu, irq, wpc, scratch, team>>
    BY DEF MasterReturn
  <2> QED
    BY <2>2, <2>3, <2>4, <2>5
<1>5. TypeOK'
  <2>1. [executed[0] EXCEPT ![eu.fn] = 1] \in [Events -> Nat]
    BY <1>3
  <2>2. executed' \in [Cores -> [Events -> Nat]]
    BY <1>1, <1>4, <2>1 DEF TypeOK
  <2>3. running' \in [Cores -> 0..MaxRegions]
    BY <1>1, <1>4 DEF TypeOK
  <2> QED
    BY <1>1, <1>4, <2>2, <2>3 DEF TypeOK, MasterPCs
<1>6. CountsRight'
  BY <1>1, MasterCounts DEF MasterReturn, MGoto, CountsRight, TypeOK, EventRight, Collective,
         Running, Preparing
<1>7. EventRight'
  BY <1>1 DEF MasterReturn, MGoto, TypeOK, EventRight, Running, Preparing, Events
<1>8. MasterRan'
  <2>1. /\ executed'[0][eu.fn] = 1
        /\ \A e \in Events : e # eu.fn => executed'[0][e] = executed[0][e]
    BY <1>1, <1>3, <1>4 DEF TypeOK
  <2>2. \A e \in Events : Ran(0, e)'
    BY <1>1, <1>3, <1>4, <2>1 DEF MasterRan, Ran
  <2> QED
    BY <1>4, <2>1, <2>2 DEF MasterRan, Preparing
<1>9. ASSUME NEW v \in Workers
      PROVE  IrqRight(v)' /\ PhaseRight(v)' /\ WorkerRan(v)'
  <2>1. IrqRight(v) /\ PhaseRight(v) /\ WorkerRan(v)
    BY <1>2
  <2>2. IrqRight(v)' /\ PhaseRight(v)'
    BY <1>1, <2>1 DEF MasterReturn, MGoto, TypeOK, EventRight, IrqRight, PhaseRight, Idle, Collective,
           Running
  <2>3. WorkerRan(v)'
    BY <1>1, <2>1 DEF MasterReturn, MGoto, TypeOK, EventRight, PhaseRight, WorkerRan, Idle, Collective,
           Running, Preparing, Ran, Events
  <2> QED
    BY <2>2, <2>3
<1> QED
  BY <1>5, <1>6, <1>7, <1>8, <1>9 DEF IInv

(* The master leaves the region only when every worker has counted itself. *)
LEMMA WaitFinishedStep ==
    ASSUME IInv, WaitFinished
    PROVE  IInv'
<1> USE EventUnitAssumption, CoreFacts
<1>1. TypeOK /\ CountsRight /\ EventRight /\ MasterRan
  BY DEF IInv
<1>2. \A v \in Workers : IrqRight(v) /\ PhaseRight(v) /\ WorkerRan(v)
  BY DEF IInv
<1>3. Collective /\ \A v \in Workers : wpc[v] # "enter"
  BY <1>1, <1>2 DEF WaitFinished, MGoto, EventRight, PhaseRight, Collective, Running
<1>4. \A v \in Workers : Idle(v)
  BY <1>3, Everybody DEF WaitFinished, Done
<1>5. TypeOK'
  BY <1>1 DEF WaitFinished, MGoto, TypeOK, MasterPCs
<1>6. CountsRight'
  BY <1>1, MasterCounts, <1>4 DEF WaitFinished, MGoto, CountsRight, TypeOK, EventRight, Collective,
         Running, Preparing
<1>7. EventRight'
  BY <1>1, <1>4 DEF WaitFinished, MGoto, TypeOK, EventRight, Running, Preparing, Events
<1>8. MasterRan'
  BY <1>1, <1>4 DEF WaitFinished, MGoto, TypeOK, EventRight, MasterRan, Running, Preparing, Ran, Events
<1>9. ASSUME NEW v \in Workers
      PROVE  IrqRight(v)' /\ PhaseRight(v)' /\ WorkerRan(v)'
  <2>1. IrqRight(v) /\ PhaseRight(v) /\ WorkerRan(v)
    BY <1>2
  <2>2. IrqRight(v)' /\ PhaseRight(v)'
    BY <1>1, <2>1, <1>4 DEF WaitFinished, MGoto, TypeOK, EventRight, IrqRight, PhaseRight, Idle, Collective,
           Running
  <2>3. WorkerRan(v)'
    BY <1>1, <2>1, <1>4 DEF WaitFinished, MGoto, TypeOK, EventRight, PhaseRight, WorkerRan, Idle, Collective,
           Running, Preparing, Ran, Events
  <2> QED
    BY <2>2, <2>3
<1> QED
  BY <1>5, <1>6, <1>7, <1>8, <1>9 DEF IInv

(* The event is withdrawn. *)
LEMMA ClearThreadsStep ==
    ASSUME IInv, ClearThreads
    PROVE  IInv'
<1> USE EventUnitAssumption, CoreFacts
<1>1. TypeOK /\ CountsRight /\ EventRight /\ MasterRan
  BY DEF IInv
<1>2. \A v \in Workers : IrqRight(v) /\ PhaseRight(v) /\ WorkerRan(v)
  BY DEF IInv
<1>5. TypeOK'
  BY <1>1 DEF ClearThreads, MGoto, TypeOK, MasterPCs
<1>6. CountsRight'
  BY <1>1, MasterCounts DEF ClearThreads, MGoto, CountsRight, TypeOK, EventRight, Collective,
         Running, Preparing
<1>7. EventRight'
  BY <1>1 DEF ClearThreads, MGoto, TypeOK, EventRight, Running, Preparing, Events
<1>8. MasterRan'
  BY <1>1 DEF ClearThreads, MGoto, TypeOK, EventRight, MasterRan, Running, Preparing, Ran, Events
<1>9. ASSUME NEW v \in Workers
      PROVE  IrqRight(v)' /\ PhaseRight(v)' /\ WorkerRan(v)'
  <2>1. IrqRight(v) /\ PhaseRight(v) /\ WorkerRan(v)
    BY <1>2
  <2>2. IrqRight(v)' /\ PhaseRight(v)'
    BY <1>1, <2>1 DEF ClearThreads, MGoto, TypeOK, EventRight, IrqRight, PhaseRight, Idle, Collective,
           Running
  <2>3. WorkerRan(v)'
    BY <1>1, <2>1 DEF ClearThreads, MGoto, TypeOK, EventRight, PhaseRight, WorkerRan, Idle, Collective,
           Running, Preparing, Ran, Events
  <2> QED
    BY <2>2, <2>3
<1> QED
  BY <1>5, <1>6, <1>7, <1>8, <1>9 DEF IInv

(* eu_exit waits for the workers. *)
LEMMA ExitWaitStep ==
    ASSUME IInv, ExitWait
    PROVE  IInv'
<1> USE EventUnitAssumption, CoreFacts
<1>1. TypeOK /\ CountsRight /\ EventRight /\ MasterRan
  BY DEF IInv
<1>2. \A v \in Workers : IrqRight(v) /\ PhaseRight(v) /\ WorkerRan(v)
  BY DEF IInv
<1>5. TypeOK'
  BY <1>1 DEF ExitWait, MGoto, TypeOK, MasterPCs
<1>6. CountsRight'
  BY <1>1, MasterCounts DEF ExitWait, MGoto, CountsRight, TypeOK, EventRight, Collective,
         Running, Preparing
<1>7. EventRight'
  BY <1>1 DEF ExitWait, MGoto, TypeOK, EventRight, Running, Preparing, Events
<1>8. MasterRan'
  BY <1>1 DEF ExitWait, MGoto, TypeOK, EventRight, MasterRan, Running, Preparing, Ran, Events
<1>9. ASSUME NEW v \in Workers
      PROVE  IrqRight(v)' /\ PhaseRight(v)' /\ WorkerRan(v)'
  <2>1. IrqRight(v) /\ PhaseRight(v) /\ WorkerRan(v)
    BY <1>2
  <2>2. IrqRight(v)' /\ PhaseRight(v)'
    BY <1>1, <2>1 DEF ExitWait, MGoto, TypeOK, EventRight, IrqRight, PhaseRight, Idle, Collective,
           Running
  <2>3. WorkerRan(v)'
    BY <1>1, <2>1 DEF ExitWait, MGoto, TypeOK, EventRight, PhaseRight, WorkerRan, Idle, Collective,
           Running, Preparing, Ran, Events
  <2> QED
    BY <2>2, <2>3
<1> QED
  BY <1>5, <1>6, <1>7, <1>8, <1>9 DEF IInv

(* The exit flag is raised while everybody sleeps. *)
LEMMA ExitFlagStep ==
    ASSUME IInv, ExitFlag
    PROVE  IInv'
<1> USE EventUnitAssumption, CoreFacts
<1>1. TypeOK /\ CountsRight /\ EventRight /\ MasterRan
  BY DEF IInv
<1>2. \A v \in Workers : IrqRight(v) /\ PhaseRight(v) /\ WorkerRan(v)
  BY DEF IInv
<1>5. TypeOK'
  BY <1>1 DEF ExitFlag, MGoto, TypeOK, MasterPCs
<1>6. CountsRight'
  BY <1>1, MasterCounts DEF ExitFlag, MGoto, CountsRight, TypeOK, EventRight, Collective,
         Running, Preparing
<1>7. EventRight'
  BY <1>1 DEF ExitFlag, MGoto, TypeOK, EventRight, Running, Preparing, Events
<1>8. MasterRan'
  BY <1>1 DEF ExitFlag, MGoto, TypeOK, EventRight, MasterRan, Running, Preparing, Ran, Events
<1>9. ASSUME NEW v \in Workers
      PROVE  IrqRight(v)' /\ PhaseRight(v)' /\ WorkerRan(v)'
  <2>1. IrqRight(v) /\ PhaseRight(v) /\ WorkerRan(v)
    BY <1>2
  <2>2. IrqRight(v)' /\ PhaseRight(v)'
    BY <1>1, <2>1 DEF ExitFlag, MGoto, TypeOK, EventRight, IrqRight, PhaseRight, Idle, Collective,
           Running
  <2>3. WorkerRan(v)'
    BY <1>1, <2>1 DEF ExitFlag, MGoto, TypeOK, EventRight, PhaseRight, WorkerRan, Idle, Collective,
           Running, Preparing, Ran, Events
  <2> QED
    BY <2>2, <2>3
<1> QED
  BY <1>5, <1>6, <1>7, <1>8, <1>9 DEF IInv

(* Every step of a core, and the arrival of a posted write, preserves the
   invariant. *)
LEMMA NextIInv == IInv /\ [Next]_vars => IInv'
<1> SUFFICES ASSUME IInv, [Next]_vars PROVE IInv'
  OBVIOUS
<1>1. CASE MasterStep
  BY <1>1, BootstrapStep, PushWaitStep, PushFnStep, PushThreadsStep, RunEmptyStep,
     ResetFinishedStep, WakeWaitStep, WakeSetStep, MasterCallStep, MasterReturnStep,
     WaitFinishedStep, ClearThreadsStep, ExitWaitStep, ExitFlagStep DEF MasterStep
<1>2. ASSUME NEW w \in Workers, WorkerStep(w) PROVE IInv'
  BY <1>2, EnterLoopStep, CheckExitStep, CheckTeamStep, WorkerCallStep, WorkerReturnStep,
     CountFinishedStep, AnnounceSleepStep, WakeUpStep, ClearInterruptStep, RevokeSleepStep
  DEF WorkerStep
<1>3. ASSUME NEW w \in Workers, ClearLands(w) PROVE IInv'
  BY <1>3, ClearLandsStep
<1>4. CASE UNCHANGED vars
  <2>1. TypeOK' /\ EventRight' /\ MasterRan'
    BY <1>4 DEF vars, IInv, TypeOK, EventRight, MasterRan, Running, Preparing, Ran
  <2>2. CountsRight'
    BY <1>4, MasterCounts DEF vars, IInv, CountsRight, Collective, Running
  <2>3. ASSUME NEW w \in Workers PROVE IrqRight(w)' /\ PhaseRight(w)' /\ WorkerRan(w)'
    <3>1. IrqRight(w) /\ PhaseRight(w) /\ WorkerRan(w)
      BY DEF IInv
    <3> QED
      BY <1>4, <3>1 DEF vars, IrqRight, PhaseRight, WorkerRan, Idle, Collective, Running,
                        Preparing, Ran
  <2> QED
    BY <2>1, <2>2, <2>3 DEF IInv
<1> QED
  BY <1>1, <1>2, <1>3, <1>4 DEF Next
--------------------------------------------------------------------------------
(* The event unit never leaves IInv: for any number of workers and events the
   counters of eu_t are the sizes of the sets of workers they stand for, and
   every worker is where the progress of the master allows it to be. *)
THEOREM EventUnitInvariant == Spec => []IInv
BY InitIInv, NextIInv, PTL DEF Spec

(* When the master is back from a region, each core of the team has executed
   the event exactly once and no other core has (eu_run_empty, eu_event_loop). *)
THEOREM EachCoreOnce == Spec => []ExactlyOnce
<1>1. IInv => ExactlyOnce
  <2> SUFFICES ASSUME IInv, mpc \in {"n=0", "idle"}, NEW e \in Events, NEW c \in Cores
               PROVE  Ran(c, e)
    BY DEF ExactlyOnce, Ran
  <2>1. ~Running /\ ~Preparing
    BY DEF Running, Preparing
  <2>2. c = 0 \/ c \in Workers
    BY EventUnitAssumption DEF Cores, Workers
  <2> QED
    BY <2>1, <2>2 DEF IInv, MasterRan, WorkerRan
<1> QED
  BY <1>1, EventUnitInvariant, PTL

(* No worker is in, or about to call, an event that the master is replacing
   (eu_dispatch_push and eu_event_loop share eu_p->e without a lock). *)
THEOREM EventsAreNotTorn == Spec => []NoTornEvent
<1>1. IInv => NoTornEvent
  BY DEF IInv, WorkerRan, Running, NoTornEvent
<1> QED
  BY <1>1, EventUnitInvariant, PTL
================================================================================
