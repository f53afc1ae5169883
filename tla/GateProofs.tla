----------------------------- MODULE GateProofs -----------------------------
(***************************************************************************)
(* The gate's arithmetic for every estate and threshold: GateSweep checks  *)
(* the same two invariants over estates of bounded size.                   *)
(***************************************************************************)
EXTENDS GateSweep, CoverageGateLemmas

\* The inductive invariant: inputs in range, and a verdict that some rounding
\* of them gave.
Sound ==
  /\ inScope \in Nat \ {0}
  /\ collected \in 0..inScope
  /\ threshold \in 0..100
  /\ verdict \in {"none", "passes", "refuses"}
  /\ verdict = "passes" =>
       \E k \in Tenths(collected, inScope) : Meets(k, threshold)
  /\ verdict = "refuses" =>
       \E k \in Tenths(collected, inScope) : ~Meets(k, threshold)

LEMMA SoundIsInvariant == Spec => []Sound
<1>1. Init => Sound
  BY SweepAssumption DEF Init, Sound
<1>2. Sound /\ [Next]_vars => Sound'
  <2> SUFFICES ASSUME Sound, [Next]_vars PROVE Sound'
    OBVIOUS
  <2>1. CASE Judge
    <3>1. PICK k \in Tenths(collected, inScope) :
            verdict' = IF Meets(k, threshold) THEN "passes" ELSE "refuses"
      BY <2>1 DEF Judge
    <3>2. UNCHANGED <<inScope, collected, threshold>>
      BY <2>1 DEF Judge
    <3>3. Tenths(collected, inScope)' = Tenths(collected, inScope)
      BY <3>2 DEF Tenths
    <3>4. CASE Meets(k, threshold)
      BY <3>1, <3>2, <3>3, <3>4 DEF Sound, Meets
    <3>5. CASE ~Meets(k, threshold)
      BY <3>1, <3>2, <3>3, <3>5 DEF Sound, Meets
    <3> QED
      BY <3>4, <3>5
  <2>2. CASE UNCHANGED vars
    BY <2>2 DEF vars, Sound, Tenths, Meets
  <2> QED
    BY <2>1, <2>2 DEF Next
<1> QED
  BY <1>1, <1>2, PTL DEF Spec

\* Whatever the size of the estate and the threshold, the gate passes only
\* what is within a twentieth of a percent of its threshold; at a threshold of
\* 100 an estate of under 2000 subjects must have been reached completely.
THEOREM PassIsNearlyEarnedAlways == Spec => []PassIsNearlyEarned
<1>1. Sound => PassIsNearlyEarned
  <2> SUFFICES ASSUME Sound, verdict = "passes"
      PROVE  /\ 2000 * collected + inScope >= 20 * threshold * inScope
             /\ threshold = 100 /\ inScope < 2000 => collected = inScope
    BY DEF PassIsNearlyEarned
  <2>1. PICK k \in Tenths(collected, inScope) : Meets(k, threshold)
    BY DEF Sound
  <2>2. /\ collected \in Nat /\ inScope \in Nat \ {0} /\ threshold \in Nat
        /\ collected <= inScope
    BY DEF Sound
  <2>3. 2000 * collected + inScope >= 20 * threshold * inScope
    BY <2>1, <2>2, MeetingIsEarned
  <2>4. threshold = 100 /\ inScope < 2000 => collected = inScope
    BY <2>2, <2>3
  <2> QED
    BY <2>3, <2>4
<1> QED
  BY <1>1, SoundIsInvariant, PTL

\* Whatever the size of the estate and the threshold, what the gate refuses
\* was short of it but for rounding, and had a subject missing.
THEOREM RefusalIsEarnedAlways == Spec => []RefusalIsEarned
<1>1. Sound => RefusalIsEarned
  <2> SUFFICES ASSUME Sound, verdict = "refuses"
      PROVE  /\ 2000 * collected < 20 * threshold * inScope + inScope
             /\ collected < inScope
    BY DEF RefusalIsEarned
  <2>1. PICK k \in Tenths(collected, inScope) : ~Meets(k, threshold)
    BY DEF Sound
  <2>2. /\ collected \in Nat /\ inScope \in Nat \ {0}
        /\ threshold \in Nat /\ threshold <= 100
        /\ collected <= inScope
    BY DEF Sound
  <2>3. 2000 * collected < 20 * threshold * inScope + inScope
    BY <2>1, <2>2, MissingIsEarned
  <2>4. collected # inScope
    <3> SUFFICES ASSUME collected = inScope PROVE FALSE
      OBVIOUS
    <3>1. /\ k \in Int
          /\ 2000 * inScope - 2 * (inScope * k) <= inScope
      BY <2>1, <2>2, TenthsAreNear
    <3>2. k < 1000
      BY <2>1, <2>2, <3>1 DEF Meets
    <3>3. inScope * 999 >= inScope * k
      BY <3>1, <3>2, <2>2, ScaledInequality
    <3>4. inScope * k \in Int
      BY <2>2, <3>1
    <3> QED
      BY <2>2, <3>1, <3>3, <3>4
  <2> QED
    BY <2>2, <2>3, <2>4
<1> QED
  BY <1>1, SoundIsInvariant, PTL

=============================================================================
