----------------------------- MODULE GateSweep ------------------------------
(***************************************************************************)
(* The gate's verdict over every estate up to a size: what rounding the    *)
(* percentage before comparing it can and cannot do.  It can let an estate *)
(* pass that is short of the threshold: 113 of 119 is less than 95% and    *)
(* rounds to 95.0.                                                         *)
(***************************************************************************)
EXTENDS CoverageGate

CONSTANTS
  MaxInScope,   \* bound: subjects in scope
  Thresholds    \* values of cca_min_coverage

ASSUME SweepAssumption == MaxInScope \in Nat \ {0} /\ Thresholds \subseteq 0..100

VARIABLES inScope, collected, threshold, verdict

vars == <<inScope, collected, threshold, verdict>>

Init ==
  /\ inScope \in 1..MaxInScope
  /\ collected \in 0..inScope
  /\ threshold \in Thresholds
  /\ verdict = "none"

Judge ==
  /\ verdict = "none"
  /\ \E tenths \in Tenths(collected, inScope) :
       verdict' = IF Meets(tenths, threshold) THEN "passes" ELSE "refuses"
  /\ UNCHANGED <<inScope, collected, threshold>>

Next == Judge

Spec == Init /\ [][Next]_vars

\* The gate is never more than a twentieth of a percent kinder than its
\* threshold says (coverage_gate.yml 62-63 rounds, 74 compares), and a
\* threshold of 100 lets no subject be missing from an estate of under 2000.
PassIsNearlyEarned ==
  verdict = "passes" =>
    /\ 2000 * collected + inScope >= 20 * threshold * inScope
    /\ threshold = 100 /\ inScope < 2000 => collected = inScope

\* What is refused was missed by more than rounding: an estate at or above its
\* threshold in exact arithmetic is refused by no more than rounding, and one
\* that was reached completely never.
RefusalIsEarned ==
  verdict = "refuses" =>
    /\ 2000 * collected < 20 * threshold * inScope + inScope
    /\ collected < inScope

=============================================================================
