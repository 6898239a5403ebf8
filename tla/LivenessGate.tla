----------------------------- MODULE LivenessGate -----------------------------
(***************************************************************************)
(* What registration and password recovery rely on when they hold the      *)
(* liveness service: per binding key a run of challenges that advances one *)
(* at a time, disappears with its last challenge, can be replaced by a new *)
(* run at any time and can lapse at any time. Liveness.tla implements it.  *)
(***************************************************************************)
EXTENDS Naturals

CONSTANTS
    Keys,           \* binding keys: a registration token, "forgot:<wallet>"
    Total,          \* challenges of a run
    None            \* no run

VARIABLE run        \* run[k]: how many challenges of the current run are done

GateTypeOK == run \in [Keys -> 0..(Total - 1) \cup {None}]

GateInit == run = [k \in Keys |-> None]

StartRun(k) == run' = [run EXCEPT ![k] = 0]

Advance(k) ==
    /\ run[k] # None
    /\ run[k] + 1 < Total
    /\ run' = [run EXCEPT ![k] = @ + 1]

\* The last challenge: the run is over and its key is free.
Finish(k) ==
    /\ run[k] # None
    /\ run[k] + 1 = Total
    /\ run' = [run EXCEPT ![k] = None]

LapseRuns(S) == run' = [k \in Keys |-> IF k \in S THEN None ELSE run[k]]

GateNext ==
    \/ \E k \in Keys : StartRun(k) \/ Advance(k) \/ Finish(k)
    \/ \E S \in SUBSET Keys : LapseRuns(S)

GateSpec == GateInit /\ [][GateNext]_run
===============================================================================
