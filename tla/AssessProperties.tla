-------------------------- MODULE AssessProperties --------------------------
(***************************************************************************)
(* What the documents and the report promise about the evidence they were  *)
(* made from (docs/ASSURANCE-PRINCIPLES.md).  Every property goes back to  *)
(* the bundles an invocation was given and asks what an evaluator is       *)
(* entitled to say of each, without using the code's own intermediate      *)
(* evaluations.                                                            *)
(***************************************************************************)
EXTENDS Assess

\* What check c has to say of a bundle: nothing while a fact it requires is
\* missing or partial, while it needs a history it is never given, or when it
\* offers no evidence for a verdict.
Says(b, c) ==
  LET outcome == Judge(c, b.facts)
  IN  IF \/ ~Complete(b.facts, Required[c])
         \/ Window[c] > 0
         \/ outcome.says \in {"satisfied", "not-satisfied"} /\ outcome.cites = {}
      THEN "nothing"
      ELSE outcome.says

\* The bundles of an invocation, and the checks that have business with them.
Bundles(job) == {job.files[i] : i \in 1..Len(job.files)}

Looks(job) ==
  {p \in Bundles(job) \X Checks :
     /\ Automated[p[2]]
     /\ p[1].platform = "" \/ Platform[p[2]] \in {"common", p[1].platform}
     /\ Binds[p[2]] \cap job.baseline # {}}

LooksAt(job, x) == {p \in Looks(job) : x \in Binds[p[2]]}

Verdicts(job, x) == {Says(p[1], p[2]) : p \in LooksAt(job, x)}

\* The invocation a document comes from.
JobOf(doc) == jobs[doc.by]

ResultsOnDisk == IsWhole(results)

Reported == report.resultsBy > 0

Annexed == annex.resultsBy > 0

-----------------------------------------------------------------------------
(* The state is what it should be.                                         *)

\* Every variable holds what the code keeps there: the step of `cca evaluate`,
\* the evaluations so far, documents that name a past invocation.
TypeOK ==
  /\ now \in 0..MaxHour
  /\ jobs \in Seq([run : Runs, baseline : Baselines, files : FileLists, total : Totals])
  /\ Len(jobs) <= MaxJobs
  /\ pc \in {"idle", "evaluating", "writing-results", "writing-poam"}
  /\ pc # "idle" => Len(jobs) > 0
  /\ cursor \in Nat
  /\ pc # "idle" => cursor <= Len(Current.files)
  /\ plan.by \in -1..Len(jobs)
  /\ results.by \in -1..Len(jobs)
  /\ poam.by \in -1..Len(jobs)
  /\ reader.kind \in {"nothing", "report", "annex"}
  /\ reader.plan.by \in 0..Len(jobs)
  /\ report.resultsBy \in 0..Len(jobs)
  /\ annex.resultsBy \in 0..Len(jobs)

-----------------------------------------------------------------------------
(* Verdicts.                                                               *)

\* Principle 1, absence of evidence is not compliance: a control reads
\* satisfied in the results, in a report (report/model.py build) or in the
\* annex only if a check bound to it looked at a bundle of that very
\* invocation and said so, or said that it does not apply.
SatisfiedIsObserved ==
  /\ ResultsOnDisk =>
       \A x \in DOMAIN results.findings :
         results.findings[x].state = "satisfied" =>
           Verdicts(JobOf(results), x) \cap {"satisfied", "not-applicable"} # {}
  /\ Reported =>
       \A x \in DOMAIN report.rows :
         report.rows[x].status = "satisfied" =>
           "satisfied" \in Verdicts(jobs[report.resultsBy], x)
  /\ Annexed =>
       \A x \in TemplateControls :
         annex.cells[x] = "Effective" =>
           "satisfied" \in Verdicts(jobs[annex.resultsBy], x)

\* A failure on one subject is never outvoted or dropped on the way
\* (emit.py _finding, emit_poam; report/model.py build; annex.py status_for):
\* what any check of the invocation said not-satisfied of is a not-satisfied
\* finding, an item of its POA&M, and in no report or annex anything better.
FailureIsNeverHidden ==
  /\ ResultsOnDisk =>
       \A x \in Controls :
         "not-satisfied" \in Verdicts(JobOf(results), x) =>
           /\ x \in DOMAIN results.findings
           /\ results.findings[x].state = "not-satisfied"
           /\ results.findings[x].population.failing > 0
           /\ IsWhole(poam) /\ poam.by = results.by => x \in DOMAIN poam.items
  /\ Reported =>
       \A x \in DOMAIN report.rows :
         "not-satisfied" \in Verdicts(jobs[report.resultsBy], x) =>
           report.rows[x].status = "not-satisfied"
  /\ Annexed =>
       \A x \in TemplateControls :
         /\ "not-satisfied" \in Verdicts(jobs[annex.resultsBy], x)
         /\ annex.cells[x] # Untouched
         => annex.cells[x] = "Ineffective"

\* Principle 2, only an observation fails a control: nothing is called
\* not-satisfied, and no POA&M item is opened, because a fact was missing, a
\* collector partial or an evaluator broken (contract.py require,
\* evaluate.py evaluate_check).
FailureIsObserved ==
  /\ ResultsOnDisk =>
       \A x \in DOMAIN results.findings :
         results.findings[x].state = "not-satisfied" =>
           "not-satisfied" \in Verdicts(JobOf(results), x)
  /\ IsWhole(poam) =>
       \A x \in DOMAIN poam.items : "not-satisfied" \in Verdicts(JobOf(poam), x)

\* A finding is no more confident than any verdict behind it, nor than the
\* ceiling of any check that contributed one (registry confidence, Principle
\* 4; emit.py _finding takes the weakest).
ConfidenceIsTheWeakest ==
  ResultsOnDisk =>
    \A x \in DOMAIN results.findings :
      \A p \in LooksAt(JobOf(results), x) :
        Says(p[1], p[2]) \in {"satisfied", "not-satisfied"} =>
          /\ Rank[results.findings[x].confidence] >= Rank[Ceiling[p[2]]]
          /\ Rank[results.findings[x].confidence]
               >= Rank[Judge(p[2], p[1].facts).confidence]

-----------------------------------------------------------------------------
(* What was not determined.                                                *)

\* Reason r is true of what check c met in bundle b: what kept it from its
\* evaluator, the evaluator breaking, or the reason the evaluator gave itself.
Explains(b, c, r) ==
  LET outcome == Judge(c, b.facts)
  IN  \/ r = "collection-error" /\ Missing(b.facts, Required[c]) # {}
      \/ r = "partial-population" /\ Incomplete(b.facts, Required[c]) # {}
      \/ r = "insufficient-history" /\ Window[c] > 0
      \/ /\ r = "evaluation-error"
         /\ Complete(b.facts, Required[c])
         /\ \/ outcome.says \in {"raises", "error"}
            \/ outcome.says \in {"satisfied", "not-satisfied"} /\ outcome.cites = {}
      \/ Says(b, c) = "unassessed" /\ outcome.reason = r

\* Reason r tells the truth of a control that an invocation left undetermined:
\* nobody could have looked, or somebody looked and this is what came of it.
ReasonHolds(job, x, r) ==
  \/ r = "requires-attestation" /\ x \in AttestedControls \ AutomatedControls
  \/ r = "not-implemented" /\ \A c \in Checks : x \notin Binds[c]
  \/ r = "no-subject-in-scope" /\ x \in AutomatedControls /\ LooksAt(job, x) = {}
  \/ \E p \in LooksAt(job, x) : Explains(p[1], p[2], r)

\* reviewed-controls minus findings is exactly what the results list as
\* undetermined, each with a reason that is true of the evidence
\* (evaluate.py unassessed_controls, ADR 0006).
UndeterminedIsAccountedFor ==
  ResultsOnDisk =>
    LET job == JobOf(results)
    IN  /\ DOMAIN results.undetermined = job.baseline \ DOMAIN results.findings
        /\ \A x \in DOMAIN results.undetermined :
             ReasonHolds(job, x, results.undetermined[x])

\* A report of one invocation has a row for every control of its baseline,
\* and tells of each row without a verdict a reason that is true of the
\* evidence (report/model.py build, its order of precedence).
ReportTellsTheReason ==
  Reported /\ report.planBy = report.resultsBy =>
    LET job == jobs[report.resultsBy]
    IN  /\ DOMAIN report.rows = job.baseline
        /\ \A x \in DOMAIN report.rows :
             report.rows[x].status = "undetermined" =>
               ReasonHolds(job, x, report.rows[x].reason)

\* The annex keeps what an agency wrote about controls outside the assessed
\* baseline, and fills in every control inside it (annex.py populate).
AnnexKeepsOtherRows ==
  Annexed =>
    \A x \in TemplateControls :
      annex.cells[x] # Untouched <=> x \in jobs[annex.planBy].baseline

-----------------------------------------------------------------------------
(* Figures.                                                                *)

\* The subjects on which some check answered for control x in one of `ways`.
SubjectsWhere(job, x, ways) ==
  {p[1].subject : p \in {q \in LooksAt(job, x) : Says(q[1], q[2]) \in ways}}

\* The population figures count subjects, of the evidence, for this control
\* (emit.py _population): a subject is never counted twice, one that was not
\* determined is in no figure but the total, and where the denominator came
\* from inventory the finding says so when it does not cover it.
PopulationIsHonest ==
  ResultsOnDisk =>
    \A x \in DOMAIN results.findings :
      LET job     == JobOf(results)
          figures == results.findings[x].population
          judged  == SubjectsWhere(job, x, Determinate)
          failing == SubjectsWhere(job, x, {"not-satisfied"})
          passing == SubjectsWhere(job, x, {"satisfied"})
          all     == {b.subject : b \in Bundles(job)}
      IN  /\ figures.assessed = Cardinality(judged)
          /\ figures.failing = Cardinality(failing)
          /\ figures.na = Cardinality(judged \ (failing \cup passing))
          /\ figures.assessed <= figures.total
          /\ /\ results.findings[x].basis = "subject"
             /\ job.total >= Cardinality(all)
             => /\ figures.total = job.total
                /\ all # judged => results.findings[x].saysPartial

-----------------------------------------------------------------------------
(* Documents in time.                                                      *)

\* The POA&M is written last (cli.py cmd_evaluate): whoever finds one of some
\* invocation finds results and plan of that invocation, or newer, or torn by
\* a newer one.
PoamIsLast ==
  IsWhole(poam) => /\ plan.by \in {-1} \cup poam.by..Len(jobs)
                   /\ results.by \in {-1} \cup poam.by..Len(jobs)

\* The finding that has identifier i, if the results have one.
FindingsNamed(i) == {x \in DOMAIN results.findings : results.findings[x].id = i}

\* Identifiers lead where they should (oscal/ids.py, emit.py 427-434, 649): a
\* finding cites exactly the determinations of its control; an item of the POA&M
\* that was made from these results leads to the failure it stands for; and next
\* to the results of a run called otherwise, which a crash can leave there, it
\* leads nowhere rather than to another run's verdict.
LinksLead ==
  ResultsOnDisk =>
    /\ \A x \in DOMAIN results.findings :
         {e \in results.observations :
            ObservationId(results.id, e.check, e.subject) \in results.findings[x].related}
           = {e \in results.observations :
                x \in Binds[e.check] /\ e.result.status \in Determinate}
    /\ IsWhole(poam) => \A x \in DOMAIN poam.items :
         LET leads == FindingsNamed(poam.items[x].related)
         IN  IF poam.by = results.by
             THEN leads = {x} /\ results.findings[x].state = "not-satisfied"
             ELSE leads # {} => JobOf(poam).run = JobOf(results).run

\* What is open keeps its identity over runs, for first-observed dates, streaks
\* and tickets to hang on (ids.py 11-13), and what is no longer open is
\* accounted for beside the new POA&M: the results it was made from have the
\* control satisfied, or list it as undetermined.
ItemsAreFollowedUp ==
  [][IsWhole(poam) /\ IsWhole(poam') /\ poam' # poam
       /\ JobOf(poam).baseline = jobs'[poam'.by].baseline =>
     \A x \in DOMAIN poam.items :
       IF x \in DOMAIN poam'.items
       THEN poam'.items[x].id = poam.items[x].id
       ELSE /\ results'.by = poam'.by
            /\ \/ x \in DOMAIN results'.findings /\ results'.findings[x].state = "satisfied"
               \/ x \in DOMAIN results'.undetermined]_vars

\* The same bundles, whatever order they were listed in, give the same
\* findings (playbooks/evaluate.yml 4-6, the `find` of 41-45).
SameEvidence(i, j) ==
  /\ Bundles(jobs[i]) = Bundles(jobs[j])
  /\ Len(jobs[i].files) = Len(jobs[j].files)
  /\ jobs[i].baseline = jobs[j].baseline
  /\ jobs[i].total = jobs[j].total

\* Re-evaluating stored evidence never changes a verdict: results that replace
\* results of the same bundles have the same findings, figures included.
SameEvidenceSameFindings ==
  [][(IsWhole(results) /\ IsWhole(results') /\ results' # results) =>
       (SameEvidence(results.by, results'.by) /\ results'.run = results.run
          => results'.findings = results.findings)]_vars

-----------------------------------------------------------------------------
(* What the documentation says and the code does not do.                   *)

\* docs/ASSURANCE-PRINCIPLES.md 114-119: expiry is enforced when the report is
\* generated.  model.py build reads no `expires`, and nothing calls is_fresh.
ReportShowsOnlyFreshEvidence ==
  Reported =>
    \A x \in DOMAIN report.rows :
      report.rows[x].status \in {"satisfied", "not-satisfied"} =>
        \E p \in LooksAt(jobs[report.resultsBy], x) :
          /\ Says(p[1], p[2]) = report.rows[x].status
          /\ report.at < p[1].collected + Freshness[p[2]]

\* cli.py 177-180: the report cannot drift from the assessment it describes.
\* Its plan and its results can be two invocations', and nothing looks.
ReportDescribesOneAssessment ==
  Reported => DOMAIN report.rows = jobs[report.resultsBy].baseline

=============================================================================
