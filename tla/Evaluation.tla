----------------------------- MODULE Evaluation -----------------------------
(***************************************************************************)
(* Facts in, verdicts out: tools/nobytes_cca/evaluate.py, with the parts   *)
(* of tools/nobytes_cca/registry.py it reads.                              *)
(*                                                                         *)
(* An evaluator is a pure function of a bundle's facts, so the evaluators  *)
(* are one constant operator, Judge.  The list of evaluations a run builds *)
(* is a set of records that carry their place in it (the bundle's position *)
(* and, within a bundle, the check's): order matters to one thing only,    *)
(* which reason is quoted for a control nothing determined.                *)
(***************************************************************************)
EXTENDS Contract

CONSTANTS
  Controls,     \* control identifiers
  Subjects,     \* asset identifiers
  Platforms,    \* platform families of subjects; "" where a bundle names none
  Checks,       \* check identifiers
  CheckPos,     \* the place of a check in the registry's sorted order
  Automated,    \* is_automated, per check
  Platform,     \* platform_family, per check; "common" fits every subject
  Binds,        \* the controls a check is bound to
  Required,     \* required_facts, per check
  Window,       \* history_window_days, per check
  Ceiling,      \* confidence, per check
  Scope,        \* "subject" or "aggregate", per check
  Freshness,    \* freshness_hours, per check
  Judge(_, _)   \* what the check's evaluator does with a map of facts

\* What an evaluator can do: build one of the results, or raise.
Outcome == [says       : Statuses \cup {"raises"},
            confidence : Confidences,
            reason     : Reasons,
            cites      : SUBSET FactKeys]

ASSUME RegistryAssumption ==
  /\ IsFiniteSet(Checks)
  /\ CheckPos \in [Checks -> Nat]
  /\ \A c, d \in Checks : CheckPos[c] = CheckPos[d] => c = d
  /\ Automated \in [Checks -> BOOLEAN]
  /\ Binds \in [Checks -> SUBSET Controls]
  /\ Required \in [Checks -> SUBSET FactKeys]
  /\ Window \in [Checks -> Nat]
  /\ Ceiling \in [Checks -> Confidences]
  /\ Scope \in [Checks -> {"subject", "aggregate"}]
  /\ Freshness \in [Checks -> Nat]

ASSUME JudgeAssumption ==
  \A c \in Checks, facts \in FactMaps : Judge(c, facts) \in Outcome

\* One subject's evidence.  `collected` is in hours.
Bundle == [subject : Subjects, platform : Platforms, collected : Nat, facts : FactMaps]

-----------------------------------------------------------------------------
(* One check against one bundle.                                           *)

\* The result constructors with their evidence guard taken out.
ConstructUnguarded(outcome) ==
  CASE outcome.says \in {"satisfied", "not-satisfied"} ->
         Verdict(outcome.says, outcome.confidence, outcome.cites)
    [] outcome.says = "not-applicable" -> NotApplicable(outcome.cites)
    [] outcome.says = "unassessed"     -> Unassessed(outcome.reason)
    [] OTHER                           -> ErrorResult

\* What comes back from calling an evaluator.  satisfied() and not_satisfied()
\* raise when they are handed no facts, and whatever the evaluator raises is
\* caught and becomes an error.
Construct(outcome) ==
  CASE outcome.says \in {"satisfied", "not-satisfied"} ->
         IF outcome.cites = {} THEN ErrorResult
         ELSE Verdict(outcome.says, outcome.confidence, outcome.cites)
    [] outcome.says = "not-applicable" -> NotApplicable(outcome.cites)
    [] outcome.says = "unassessed"     -> Unassessed(outcome.reason)
    [] OTHER                           -> ErrorResult

\* The result evaluate_check reaches: three guards before the evaluator, then
\* the registry's ceiling over whatever came back.
JudgeCheck(c, facts, history) ==
  LET guard == Require(facts, Required[c])
  IN  WithConfidenceCeiling(
        IF ~Automated[c] THEN Unassessed("requires-attestation")
        ELSE IF guard # NoResult THEN guard
        ELSE IF Window[c] # 0 /\ ~Spans(history, Window[c])
             THEN Unassessed("insufficient-history")
        ELSE Construct(Judge(c, facts)),
        Ceiling[c])

\* evaluate_check: the evaluation of check c on the bundle at place i.
EvaluateCheck(i, c, bundle, history) ==
  [at        |-> i,
   check     |-> c,
   subject   |-> bundle.subject,
   result    |-> JudgeCheck(c, bundle.facts, history),
   collected |-> bundle.collected,
   expires   |-> bundle.collected + Freshness[c]]

-----------------------------------------------------------------------------
(* Every applicable check against one bundle.                              *)

\* The filters of evaluate_bundle.
Applies(c, bundle, baseline) ==
  /\ Automated[c]
  /\ \/ bundle.platform = ""
     \/ Platform[c] \in {"common", bundle.platform}
  /\ Binds[c] \cap baseline # {}

\* evaluate_bundle as `cca evaluate` calls it: no history is ever passed.
EvaluateBundle(i, bundle, baseline) ==
  {EvaluateCheck(i, c, bundle, {}) : c \in {d \in Checks : Applies(d, bundle, baseline)}}

-----------------------------------------------------------------------------
(* What was not determined, and why.                                       *)

\* Registry.automated_controls and Registry.attested_controls.
AutomatedControls == UNION {Binds[c] : c \in {d \in Checks : Automated[d]}}
AttestedControls  == UNION {Binds[c] : c \in {d \in Checks : ~Automated[d]}}

\* The evaluations that reached a determination.
Determined(evals) == {e \in evals : EmitsFinding(e.result.status)}

\* The evaluations of checks bound to a control.
Contributing(evals, control) == {e \in evals : control \in Binds[e.check]}

DeterminedControls(evals) == UNION {Binds[e.check] : e \in Determined(evals)}

\* The order a run produces evaluations in.
Before(e, f) ==
  \/ e.at < f.at
  \/ e.at = f.at /\ CheckPos[e.check] < CheckPos[f.check]

\* The first reason given, in the order the evaluations were made.
FirstReason(evals) ==
  LET told == {e \in evals : e.result.reason # None}
  IN  IF told = {} THEN "evaluation-error"
      ELSE (CHOOSE e \in told : \A f \in told : e = f \/ Before(e, f)).result.reason

\* unassessed_controls before it told an absent platform from broken code.
ReasonBlamingCode(evals, control) ==
  CASE control \in AttestedControls \ AutomatedControls -> "requires-attestation"
    [] control \notin AutomatedControls                 -> "not-implemented"
    [] OTHER -> FirstReason(Contributing(evals, control))

\* unassessed_controls, for one control nothing determined.
ReasonFor(evals, control) ==
  CASE control \in AttestedControls \ AutomatedControls -> "requires-attestation"
    [] control \notin AutomatedControls \cup AttestedControls -> "not-implemented"
    [] OTHER ->
         IF Contributing(evals, control) = {} THEN "no-subject-in-scope"
         ELSE FirstReason(Contributing(evals, control))

\* unassessed_controls.
UnassessedControls(baseline, evals) ==
  [x \in baseline \ DeterminedControls(evals) |-> ReasonFor(evals, x)]

\* coverage_summary: intent, not outcome.  by_confidence counts bindings.
CoverageSummary(baseline) ==
  LET automated == baseline \cap AutomatedControls
      attested  == (baseline \cap AttestedControls) \ AutomatedControls
  IN  [withCheck    |-> automated,
       attested     |-> attested,
       uncovered    |-> baseline \ (automated \cup attested),
       byConfidence |->
         [k \in Confidences |->
            Cardinality({p \in Checks \X baseline :
                           /\ Automated[p[1]]
                           /\ Ceiling[p[1]] = k
                           /\ p[2] \in Binds[p[1]]})]]

=============================================================================
