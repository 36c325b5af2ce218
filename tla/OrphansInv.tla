------------------------------ MODULE OrphansInv ------------------------------
(***************************************************************************)
(* The inductive invariant behind SparesHealing: what is left of the grace *)
(* period covers the next self-check of every suspect that heals itself.   *)
(***************************************************************************)
EXTENDS Orphans

\* A self-check is late by less than what CONFIRM_DELAY adds to the interval.
LatenessAssumption ==
    /\ CheckInterval \in Nat
    /\ Lateness \in 0..1
    /\ MaxWipes \in Nat /\ MaxRefreshes \in Nat

\* A daemon whose self-check puts a lost registration right.
SelfHeals(d) == state[d] = "serving" /\ binary[d] = "new"

\* While refresh waits, a suspect that heals itself has been registered since
\* the scan, or comes to its self-check two seconds before the grace is over.
GraceInv ==
    refresh = "confirm" =>
        \A d \in suspects : SelfHeals(d) => d \in seen \/ due[d] + 2 <= wait

IInv == TypeOK /\ GraceInv
=============================================================================
