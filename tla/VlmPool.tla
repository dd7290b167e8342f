------------------------------ MODULE VlmPool ------------------------------
(***************************************************************************)
(* What the VLM request scheduler promises: a pool of calls with a bound   *)
(* on those accepted and not started, and a bound on those that run.       *)
(* Each call runs at most once.  Module VlmScheduler implements this.      *)
(***************************************************************************)
EXTENDS Naturals, FiniteSets

CONSTANTS Request, MaxRunning, MaxAccepted

VARIABLE phase

Init == phase = [r \in Request |-> "new"]

InPhase(p) == {r \in Request : phase[r] = p}

Move(r, from, to) ==
    /\ phase[r] = from
    /\ phase' = [phase EXCEPT ![r] = to]

Accept(r) ==
    /\ Cardinality(InPhase("accepted")) < MaxAccepted
    /\ Move(r, "new", "accepted")

Abandon(r) == Move(r, "new", "ended")

Start(r) ==
    /\ Cardinality(InPhase("running")) < MaxRunning
    /\ Move(r, "accepted", "running")

End(r) == Move(r, "running", "ended")

Next == \E r \in Request : Accept(r) \/ Abandon(r) \/ Start(r) \/ End(r)

Spec == Init /\ [][Next]_phase
=============================================================================
