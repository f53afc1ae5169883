---------------------------- MODULE CoverageGate ----------------------------
(***************************************************************************)
(* The arithmetic of playbooks/coverage_gate.yml.  Coverage is a           *)
(* percentage rounded to one decimal before it is compared, so it is kept  *)
(* here in tenths of a percent.                                            *)
(***************************************************************************)
EXTENDS Integers

\* round(1) of 100 * collected / inScope.  A tie goes to either neighbour:
\* which one depends on how the quotient is represented in binary.
Tenths(collected, inScope) ==
  LET low == (1000 * collected) \div inScope
  IN  {k \in {low, low + 1} :
         /\ 2 * (1000 * collected - k * inScope) <= inScope
         /\ 2 * (k * inScope - 1000 * collected) <= inScope}

\* The gate's comparison, made a whole percent too kind.
MeetsAlmost(tenths, threshold) == tenths + 10 >= 10 * threshold

\* The gate's comparison, with the threshold itself not enough.
MeetsStrictly(tenths, threshold) == tenths > 10 * threshold

\* The comparison of the gate's assertion.
Meets(tenths, threshold) == tenths >= 10 * threshold

=============================================================================
