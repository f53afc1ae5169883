----------------------------- MODULE Reporting ------------------------------
(***************************************************************************)
(* OSCAL documents in, a report out: tools/nobytes_cca/report/model.py and *)
(* the status column of report/annex.py.  The report is built from the     *)
(* plan and the results, two files that are read one after the other.      *)
(*                                                                         *)
(* model.py also looks for a reason on the observations, by the href of    *)
(* their evidence.  emit.py writes no href there (emit.py 275-281), so     *)
(* that reason is never found in a document this code emits, and the       *)
(* undetermined props are what the report quotes.                          *)
(***************************************************************************)
EXTENDS Emission

CONSTANT
  TemplateControls   \* the controls that have a row in ASD's annex template

\* reviewed, in build: every control of every selection of the plan.
Reviewed(plan) == plan.withCheck \cup plan.attestedOnly \cup plan.withoutCheck

\* reason_by_control: the plan's blanket reasons.
PlanReason(plan, x) ==
  CASE x \in plan.withoutCheck -> "not-implemented"
    [] x \in plan.attestedOnly -> "requires-attestation"
    [] OTHER                   -> "no-determination-recorded"

UndeterminedRow(reason) ==
  [status |-> "undetermined", confidence |-> None, reason |-> reason, finding |-> FALSE]

\* A row that trusts the plan's reason before the results' own.
RowPlanFirst(plan, results, x) ==
  IF x \in DOMAIN results.findings
  THEN [status     |-> results.findings[x].status,
        confidence |-> results.findings[x].confidence,
        reason     |-> None,
        finding    |-> TRUE]
  ELSE UndeterminedRow(PlanReason(plan, x))

\* One ControlRow.
Row(plan, results, x) ==
  IF x \in DOMAIN results.findings
  THEN [status     |-> results.findings[x].status,
        confidence |-> results.findings[x].confidence,
        reason     |-> None,
        finding    |-> TRUE]
  ELSE UndeterminedRow(IF x \in DOMAIN results.undetermined
                       THEN results.undetermined[x]
                       ELSE PlanReason(plan, x))

\* build: a row for every control the plan set out to review.
Build(plan, results) == [x \in Reviewed(plan) |-> Row(plan, results, x)]

\* ControlRow.is_determined.
IsDetermined(row) == row.status \in {"satisfied", "not-satisfied"}

-----------------------------------------------------------------------------
(* The annex.                                                              *)

AsdStatuses ==
  {"Not Assessed", "Effective", "Alternate Control", "Not Implemented",
   "Ineffective", "No Visibility", "Not Applicable"}

\* REASON_STATUS, with the answer for a reason it does not list.
ReasonStatus(reason) ==
  CASE reason \in {"requires-attestation", "unreachable", "partial-population",
                   "collection-error", "insufficient-privilege"} -> "No Visibility"
    [] reason \in {"out-of-scope", "unsupported-platform"}       -> "Not Applicable"
    [] OTHER                                                     -> "Not Assessed"

\* status_for.
StatusFor(row) ==
  CASE row.status = "satisfied"     -> "Effective"
    [] row.status = "not-satisfied" -> "Ineffective"
    [] OTHER                        -> ReasonStatus(row.reason)

Untouched == "as shipped"

\* populate without its test that the control was assessed at all.
PopulateEveryRow(rows) ==
  [x \in TemplateControls |->
     IF x \in DOMAIN rows THEN StatusFor(rows[x]) ELSE "Not Assessed"]

\* populate: a copy of the template, with the assessed controls filled in.
Populate(rows) ==
  [x \in TemplateControls |->
     IF x \in DOMAIN rows THEN StatusFor(rows[x]) ELSE Untouched]

=============================================================================
