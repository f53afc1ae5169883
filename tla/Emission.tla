------------------------------ MODULE Emission ------------------------------
(***************************************************************************)
(* Evaluations in, OSCAL documents out: tools/nobytes_cca/oscal/emit.py.   *)
(* The assessment plan declares every control of the baseline, the results *)
(* hold one observation per evaluation and a finding per control that was  *)
(* determined, and the POA&M is made from the results.                     *)
(*                                                                         *)
(* Wording and catalog text are left out.  A document carries, as `by`,    *)
(* the number of the invocation that wrote it; no code reads it.           *)
(***************************************************************************)
EXTENDS Evaluation

\* A population total that was not given on the command line (Python's None).
NotGiven == -1

-----------------------------------------------------------------------------
(* oscal/ids.py.  An identifier is derived from what it names, and from     *)
(* nothing else: two are equal when these are.  The system is always one.   *)

ResultId(run) == <<"result", run>>

ObservationId(result, check, subject) == <<"observation", result, check, subject>>

\* A finding's identifier if it were that of the next run's too.
FindingIdOfControl(result, control, baseline) == <<"finding", control, baseline>>

FindingId(result, control, baseline) == <<"finding", result, control, baseline>>

\* An item's identifier if it were made from the finding's, and so of one run.
PoamItemIdOfRun(run, control, baseline) == <<"poam", run, control, baseline>>

\* Not of a run: an item is the same item tomorrow.
PoamItemId(run, control, baseline) == <<"poam", control, baseline>>

-----------------------------------------------------------------------------
(* emit_assessment_plan: intent, the whole baseline in three selections.   *)

Plan(job, baseline) ==
  LET withCheck == baseline \cap AutomatedControls
      attested  == (baseline \cap AttestedControls) \ AutomatedControls
  IN  [by           |-> job,
       withCheck    |-> withCheck,
       attestedOnly |-> attested,
       withoutCheck |-> baseline \ (withCheck \cup attested),
       activities   |-> {c \in Checks : Binds[c] \cap baseline # {}}]

-----------------------------------------------------------------------------
(* The figures of one control, counted in distinct subjects.               *)

SubjectsOf(evals) == {e.subject : e \in evals}

WithStatus(evals, status) == {e \in evals : e.result.status = status}

\* A subject is not-applicable only when every determination for it says so.
NotApplicableSubjects(determined) ==
  {s \in SubjectsOf(determined) :
     \A e \in determined : e.subject = s => e.result.status = "not-applicable"}

\* _population when it counted evaluations: two checks on one host made two.
PopulationOfEvaluations(determined, estate) ==
  LET assessed == Cardinality(SubjectsOf(determined))
  IN  [total        |-> IF estate > assessed THEN estate ELSE assessed,
       assessed     |-> assessed,
       failing      |-> Cardinality(WithStatus(determined, "not-satisfied")),
       na           |-> Cardinality(WithStatus(determined, "not-applicable")),
       observations |-> Cardinality(determined)]

\* _population.
Population(determined, estate) ==
  LET assessed == Cardinality(SubjectsOf(determined))
  IN  [total        |-> IF estate > assessed THEN estate ELSE assessed,
       assessed     |-> assessed,
       failing      |-> Cardinality(SubjectsOf(WithStatus(determined, "not-satisfied"))),
       na           |-> Cardinality(NotApplicableSubjects(determined)),
       observations |-> Cardinality(determined)]

-----------------------------------------------------------------------------
(* _finding: one verdict for a control, out of every determination.        *)

\* A verdict that one passing subject is enough for.
StateByBest(determined) ==
  IF \E e \in determined : e.result.status = "satisfied"
  THEN "satisfied" ELSE "not-satisfied"

\* The verdict of whichever evaluation came first.
StateOfFirst(determined) ==
  IF \E e \in determined : /\ e.result.status = "not-satisfied"
                           /\ \A f \in determined : e = f \/ Before(e, f)
  THEN "not-satisfied" ELSE "satisfied"

\* A control is satisfied when nothing that was determined failed it.
State(determined) ==
  IF WithStatus(determined, "not-satisfied") = {} THEN "satisfied" ELSE "not-satisfied"

\* OSCAL has no not-applicable state; the assessment-status prop does.
StatusProp(determined) ==
  IF \A e \in determined : e.result.status = "not-applicable"
  THEN "not-applicable" ELSE State(determined)

ConfidencesOf(determined) == {e.result.confidence : e \in determined} \ {None}

\* The strongest of the contributing confidences.
StrongestConfidence(determined) ==
  IF ConfidencesOf(determined) = {} THEN "direct"
  ELSE CHOOSE c \in ConfidencesOf(determined) :
         \A d \in ConfidencesOf(determined) : Rank[c] <= Rank[d]

\* The weakest of the contributing confidences; "direct" when, every
\* determination being not-applicable, there is none.
WeakestConfidence(determined) ==
  IF ConfidencesOf(determined) = {} THEN "direct"
  ELSE CHOOSE c \in ConfidencesOf(determined) :
         \A d \in ConfidencesOf(determined) : Rank[d] <= Rank[c]

\* The finding for control x; `contributing` has a determination in it.
Finding(result, baseline, x, contributing, estate) ==
  LET determined    == Determined(contributing)
      aggregateOnly == \A e \in determined : Scope[e.check] = "aggregate"
      population    == Population(determined,
                         IF aggregateOnly THEN Cardinality(determined) ELSE estate)
  IN  [id            |-> FindingId(result, x, baseline),
       state         |-> State(determined),
       status        |-> StatusProp(determined),
       reason        |-> IF State(determined) = "satisfied" THEN "pass" ELSE "fail",
       notApplicable |-> StatusProp(determined) = "not-applicable",
       confidence    |-> WeakestConfidence(determined),
       basis         |-> IF aggregateOnly THEN "aggregate-subject" ELSE "subject",
       population    |-> population,
       saysPartial   |-> population.assessed < population.total,
       related       |-> {ObservationId(result, e.check, e.subject) : e \in determined}]

-----------------------------------------------------------------------------
(* emit_assessment_results.                                                *)

\* How many subjects were in scope: inventory's answer, when it was given.
EstateTotal(evals, total) ==
  IF total = NotGiven THEN Cardinality(SubjectsOf(evals)) ELSE total

\* A finding per determined control, the ones outside the baseline included.
Findings(run, baseline, evals, total) ==
  [x \in DeterminedControls(evals) |->
     Finding(ResultId(run), baseline, x, Contributing(evals, x), EstateTotal(evals, total))]

Results(job, run, baseline, evals, total) ==
  LET findings == Findings(run, baseline, evals, total)
  IN  [by                 |-> job,
       id                 |-> ResultId(run),
       run                |-> run,
       reviewed           |-> baseline,
       observations       |-> evals,
       findings           |-> findings,
       undetermined       |-> UnassessedControls(baseline, evals),
       controlsDetermined |-> Cardinality(DOMAIN findings),
       controlsUnassessed |-> Cardinality(baseline \ DOMAIN findings),
       subjectsInScope    |-> EstateTotal(evals, total),
       subjectsAssessed   |-> Cardinality(SubjectsOf(evals))]

-----------------------------------------------------------------------------
(* emit_poam.                                                              *)

\* One item per control that was determined not-satisfied; a placeholder when
\* there is none, because the model wants at least one.
Poam(job, results) ==
  LET open == {x \in DOMAIN results.findings :
                 results.findings[x].state = "not-satisfied"}
  IN  [by          |-> job,
       items       |-> [x \in open |->
                          [id      |-> PoamItemId(results.run, x, results.reviewed),
                           related |-> results.findings[x].id]],
       placeholder |-> open = {}]

=============================================================================
