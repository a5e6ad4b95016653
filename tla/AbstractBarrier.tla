---------------------------- MODULE AbstractBarrier ----------------------------
(***************************************************************************)
(* What a barrier of the Snitch runtime promises to its callers, whatever  *)
(* implements it: a participant that has arrived is released only by an    *)
(* opening of the barrier, and the barrier opens only when every           *)
(* participant has arrived.  A released participant may return and arrive  *)
(* for the next round while slower ones have not returned yet.             *)
(***************************************************************************)
CONSTANT Participants

VARIABLE stage     \* where each participant stands with respect to the barrier

Stages == {"outside", "waiting", "released"}

TypeOK == stage \in [Participants -> Stages]

Init == stage = [p \in Participants |-> "outside"]

Arrive(p) ==
    /\ stage[p] = "outside"
    /\ stage' = [stage EXCEPT ![p] = "waiting"]

Open ==
    /\ \A p \in Participants : stage[p] = "waiting"
    /\ stage' = [p \in Participants |-> "released"]

Leave(p) ==
    /\ stage[p] = "released"
    /\ stage' = [stage EXCEPT ![p] = "outside"]

Next ==
    \/ Open
    \/ \E p \in Participants : Arrive(p) \/ Leave(p)

Spec == Init /\ [][Next]_stage
================================================================================
