------------------------------ MODULE Contract ------------------------------
(***************************************************************************)
(* The vocabulary every other part of the pipeline speaks:                 *)
(* tools/nobytes_cca/contract.py.  A check judges one bundle of facts and  *)
(* answers with a result; a result that is not one of the three            *)
(* determinate statuses says why no determination was made.                *)
(*                                                                         *)
(* Facts are abstracted to what a verdict can tell apart: whether the key  *)
(* was collected at all (the domain of a bundle's fact map), whether its   *)
(* collector called it partial, and an opaque value.  Wording (detail) is  *)
(* left out; the facts a verdict cites are kept, as the set of their keys. *)
(***************************************************************************)
EXTENDS Integers, FiniteSets

CONSTANTS
  FactKeys,     \* the keys collectors record facts under
  FactValues    \* what a fact's value can be, as far as an evaluator can tell

-----------------------------------------------------------------------------
(* Statuses, confidences, reasons.                                         *)

Determinate == {"satisfied", "not-satisfied", "not-applicable"}

Statuses == Determinate \cup {"unassessed", "error"}

\* Status.emits_finding.
EmitsFinding(status) == status \in Determinate

Confidences == {"direct", "proxy", "partial", "attested"}

\* Confidence.rank: the lower the rank, the stronger the claim.
Rank == [c \in Confidences |-> CASE c = "direct"  -> 0
                                 [] c = "proxy"   -> 1
                                 [] c = "partial" -> 2
                                 [] OTHER         -> 3]

\* Confidence.capped_by: whichever is the weaker claim.
CappedBy(c, ceiling) == IF Rank[c] >= Rank[ceiling] THEN c ELSE ceiling

Reasons ==
  {"not-implemented", "out-of-scope", "unreachable", "insufficient-privilege",
   "insufficient-history", "partial-population", "unsupported-platform",
   "collection-error", "requires-attestation", "no-subject-in-scope",
   "evaluation-error", "requires-interview", "requires-external-system",
   "evidence-expired", "deferred-by-policy"}

\* Python's None, where a confidence or a reason is not given.
None == "none"

-----------------------------------------------------------------------------
(* Facts and bundles.                                                      *)

Fact == [partial : BOOLEAN, value : FactValues]

\* A bundle's fact map: only the keys that were collected are in its domain.
FactMaps == UNION {[S -> Fact] : S \in SUBSET FactKeys}

Missing(facts, keys) == {k \in keys : k \notin DOMAIN facts}

Incomplete(facts, keys) == {k \in keys \ Missing(facts, keys) : facts[k].partial}

\* Every required fact was collected, and none of them only in part.
Complete(facts, keys) == Missing(facts, keys) = {} /\ Incomplete(facts, keys) = {}

-----------------------------------------------------------------------------
(* Results and the constructors that build them.                           *)

Result == [status     : Statuses,
           confidence : Confidences \cup {None},
           reason     : Reasons \cup {None},
           cites      : SUBSET FactKeys]

Verdict(status, confidence, cites) ==
  [status |-> status, confidence |-> confidence, reason |-> None, cites |-> cites]

NotApplicable(cites) == Verdict("not-applicable", None, cites)

Unassessed(reason) ==
  [status |-> "unassessed", confidence |-> None, reason |-> reason, cites |-> {}]

ErrorResult ==
  [status |-> "error", confidence |-> None, reason |-> "evaluation-error", cites |-> {}]

\* What FactBundle.require returns when every key is there and complete.
NoResult == Verdict(None, None, {})

\* FactBundle.require without its second half: partial facts slip through.
RequireIgnoringPartial(facts, keys) ==
  IF Missing(facts, keys) # {} THEN Unassessed("collection-error") ELSE NoResult

\* FactBundle.require: the result an evaluator must return at once, if any.
Require(facts, keys) ==
  IF Missing(facts, keys) # {} THEN Unassessed("collection-error")
  ELSE IF Incomplete(facts, keys) # {} THEN Unassessed("partial-population")
  ELSE NoResult

\* FactHistory.spans, over the collection times (hours) of earlier bundles.
Spans(history, days) ==
  \/ days <= 0
  \/ \E first, last \in history : last - first >= 24 * days

\* CheckResult.with_confidence_ceiling: a result without a confidence is
\* returned as it is.
WithConfidenceCeiling(result, ceiling) ==
  IF result.confidence = None THEN result
  ELSE [result EXCEPT !.confidence = CappedBy(result.confidence, ceiling)]

=============================================================================
