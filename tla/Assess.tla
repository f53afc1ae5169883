------------------------------- MODULE Assess -------------------------------
(***************************************************************************)
(* `cca evaluate`, `cca report` and `cca annex` (tools/nobytes_cca/cli.py) *)
(* around one output directory.                                            *)
(*                                                                         *)
(* An evaluation reads its bundles one at a time in the order it was given *)
(* them and then writes three documents one after another, each in place.  *)
(* It can stop at any point (a malformed bundle, a full disk, a killed     *)
(* job): what it had written stays, and the file it was writing is torn.   *)
(* A reader opens the plan and then the results, at any time.              *)
(*                                                                         *)
(* `jobs` is history: the invocations there have been, in order.  A        *)
(* document names its writer by its place in it.                           *)
(***************************************************************************)
EXTENDS Reporting, Sequences

CONSTANTS
  Runs,        \* run identifiers an evaluation is given
  Baselines,   \* sets of controls: what a baseline resolves to
  FileLists,   \* the sequences of bundles an evaluation is given
  Totals,      \* population totals it is given, NotGiven among them or not
  MaxJobs,     \* bound: invocations of `cca evaluate`
  MaxHour      \* bound: the clock

ASSUME InputAssumption ==
  /\ Baselines \subseteq SUBSET Controls
  /\ FileLists \subseteq Seq(Bundle) \ {<<>>}
  /\ Totals \subseteq Nat \cup {NotGiven}
  /\ MaxJobs \in Nat
  /\ MaxHour \in Nat

VARIABLES
  now,       \* hours
  jobs,      \* every invocation of `cca evaluate`, in order
  pc,        \* where the current one is
  cursor,    \* how many of its bundles it has evaluated
  evals,     \* the evaluations it holds
  plan,      \* assessment-plan.json
  results,   \* assessment-results.json
  poam,      \* poam.json
  reader,    \* a report or annex command that has read the plan only
  report,    \* the last report that was rendered
  annex      \* the last annex that was populated

vars == <<now, jobs, pc, cursor, evals, plan, results, poam, reader, report, annex>>

\* A file that is not there, and one whose writer stopped half way.
NoDoc == [by |-> 0]
Torn  == [by |-> -1]

\* A document a reader can parse.
IsWhole(doc) == doc.by > 0

NotReading == [kind |-> "nothing", plan |-> NoDoc]

NoReport == [planBy |-> 0, resultsBy |-> 0]

Current == jobs[Len(jobs)]

Init ==
  /\ now = 0
  /\ jobs = <<>>
  /\ pc = "idle"
  /\ cursor = 0
  /\ evals = {}
  /\ plan = NoDoc
  /\ results = NoDoc
  /\ poam = NoDoc
  /\ reader = NotReading
  /\ report = NoReport
  /\ annex = NoReport

-----------------------------------------------------------------------------
(* cmd_evaluate.                                                           *)

\* The command line: a run, a baseline, the bundles in some order, a total.
Begin ==
  /\ pc = "idle"
  /\ Len(jobs) < MaxJobs
  /\ \E run \in Runs, baseline \in Baselines, files \in FileLists, total \in Totals :
       /\ \A i \in 1..Len(files) : files[i].collected <= now
       /\ jobs' = Append(jobs, [run      |-> run,
                                baseline |-> baseline,
                                files    |-> files,
                                total    |-> total])
  /\ pc' = "evaluating"
  /\ cursor' = 0
  /\ evals' = {}
  /\ UNCHANGED <<now, plan, results, poam, reader, report, annex>>

\* A turn of the loop that evaluates one bundle and passes over the next.
EvaluateEveryOther ==
  /\ pc = "evaluating"
  /\ cursor < Len(Current.files)
  /\ evals' = evals \cup EvaluateBundle(cursor + 1, Current.files[cursor + 1],
                                        Current.baseline)
  /\ cursor' = cursor + 2
  /\ UNCHANGED <<now, jobs, pc, plan, results, poam, reader, report, annex>>

\* One turn of the loop over the bundles: load it, evaluate it, extend.
EvaluateNext ==
  /\ pc = "evaluating"
  /\ cursor < Len(Current.files)
  /\ evals' = evals \cup EvaluateBundle(cursor + 1, Current.files[cursor + 1],
                                        Current.baseline)
  /\ cursor' = cursor + 1
  /\ UNCHANGED <<now, jobs, pc, plan, results, poam, reader, report, annex>>

\* The results taken for written as soon as the plan is.
WritePlanOnly ==
  /\ pc = "evaluating"
  /\ cursor = Len(Current.files)
  /\ plan' = Plan(Len(jobs), Current.baseline)
  /\ pc' = "writing-poam"
  /\ UNCHANGED <<now, jobs, cursor, evals, results, poam, reader, report, annex>>

WritePlan ==
  /\ pc = "evaluating"
  /\ cursor = Len(Current.files)
  /\ plan' = Plan(Len(jobs), Current.baseline)
  /\ pc' = "writing-results"
  /\ UNCHANGED <<now, jobs, cursor, evals, results, poam, reader, report, annex>>

WriteResults ==
  /\ pc = "writing-results"
  /\ results' = Results(Len(jobs), Current.run, Current.baseline, evals, Current.total)
  /\ pc' = "writing-poam"
  /\ UNCHANGED <<now, jobs, cursor, evals, plan, poam, reader, report, annex>>

\* The POA&M is made from the results in memory, not from the file.
WritePoam ==
  /\ pc = "writing-poam"
  /\ poam' = Poam(Len(jobs),
                  Results(Len(jobs), Current.run, Current.baseline, evals, Current.total))
  /\ pc' = "idle"
  /\ UNCHANGED <<now, jobs, cursor, evals, plan, results, reader, report, annex>>

\* The command stops: between two steps, or in the middle of a write.
Die ==
  /\ pc # "idle"
  /\ pc' = "idle"
  /\ \/ UNCHANGED <<plan, results, poam>>
     \/ /\ pc = "evaluating" /\ cursor = Len(Current.files)
        /\ plan' = Torn
        /\ UNCHANGED <<results, poam>>
     \/ /\ pc = "writing-results"
        /\ results' = Torn
        /\ UNCHANGED <<plan, poam>>
     \/ /\ pc = "writing-poam"
        /\ poam' = Torn
        /\ UNCHANGED <<plan, results>>
  /\ UNCHANGED <<now, jobs, cursor, evals, reader, report, annex>>

-----------------------------------------------------------------------------
(* cmd_report and cmd_annex: both load the plan, then the results.         *)

\* Both files exist, and the plan parses.
ReadPlan ==
  /\ reader = NotReading
  /\ plan # NoDoc /\ results # NoDoc
  /\ IsWhole(plan)
  /\ \E kind \in {"report", "annex"} : reader' = [kind |-> kind, plan |-> plan]
  /\ UNCHANGED <<now, jobs, pc, cursor, evals, plan, results, poam, report, annex>>

\* A report: the rows, and what its header says of the population.
RenderReport ==
  /\ reader.kind = "report"
  /\ IsWhole(results)
  /\ report' = [planBy           |-> reader.plan.by,
                resultsBy        |-> results.by,
                at               |-> now,
                run              |-> results.run,
                rows             |-> Build(reader.plan, results),
                subjectsInScope  |-> results.subjectsInScope,
                subjectsAssessed |-> results.subjectsAssessed]
  /\ reader' = NotReading
  /\ UNCHANGED <<now, jobs, pc, cursor, evals, plan, results, poam, annex>>

\* An annex: a fresh copy of the template with the status column filled in.
PopulateAnnex ==
  /\ reader.kind = "annex"
  /\ IsWhole(results)
  /\ annex' = [planBy    |-> reader.plan.by,
               resultsBy |-> results.by,
               cells     |-> Populate(Build(reader.plan, results))]
  /\ reader' = NotReading
  /\ UNCHANGED <<now, jobs, pc, cursor, evals, plan, results, poam, report>>

\* The results do not parse: the command raises and renders nothing.
FailToRead ==
  /\ reader # NotReading
  /\ ~IsWhole(results)
  /\ reader' = NotReading
  /\ UNCHANGED <<now, jobs, pc, cursor, evals, plan, results, poam, report, annex>>

Tick ==
  /\ now < MaxHour
  /\ now' = now + 1
  /\ UNCHANGED <<jobs, pc, cursor, evals, plan, results, poam, reader, report, annex>>

Evaluate == Begin \/ EvaluateNext \/ WritePlan \/ WriteResults \/ WritePoam \/ Die

Read == ReadPlan \/ RenderReport \/ PopulateAnnex \/ FailToRead

Next == Evaluate \/ Read \/ Tick

Spec == Init /\ [][Next]_vars

=============================================================================
