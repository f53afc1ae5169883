# The compliance assessment pipeline in TLA+

This directory specifies the assessment pipeline of this repository: how control
text and checks get into the tree, what a night's run of the AAP workflow
collects, what the checks make of one subject's redacted facts, when the
coverage gate lets a run pass, what `cca evaluate` makes of the bundles it is
given, and what the documents, the report and ASD's annex then say. TLC checks
small instances; TLAPS proves, for every instance, what documents and reports
say of the evidence, what a verdict says of its subject, what redaction lets
through, the gate's arithmetic, the safety of the workflow, and what a tree that
validates may be relied on for.

The code's own promise is its assurance principles
(`docs/ASSURANCE-PRINCIPLES.md`): no control is satisfied without an
observation, absence of evidence is neither a pass nor a failure, a claim is no
stronger than its weakest input, the denominator comes from the inventory,
evidence expires. The properties are those principles, stated of the evidence,
or of the subject itself, and not of the code's intermediate results.

## 1. The system

    ASD's mirror --fetch_ism_oscal--> vendored catalog --.
    authors ------------------------> check files -------+- make validate -> main
                                                         |
    AAP workflow                                         v
      collect (4 nodes in parallel, Ansible)      one bundle file per host
          |        guard, roles, redaction     -> bundles/<run id>/<host>.json
      coverage gate                               count files / inventory
          |        set_stats
      evaluate.yml -> cca evaluate                bundles -> OSCAL documents
                         contract, registry, checks, evaluate, emit
      cca report, cca annex                       documents -> report, xlsx

| Component | State it keeps | Operations | Hard behaviour | What makes it correct |
|---|---|---|---|---|
| Vendoring (`fetch_ism_oscal.py`, release-watch job) | release directories, manifests, the pinned tag | `download_release`, `verify`, replacing a release | fetches that stop anywhere, a tag moved between two requests | a green tree's release is whole and published |
| Registry (`registry.py`, `checks/`) | check files; the checks, loaded once | `load`, `validate`, authors writing and re-affirming checks, git merges | one branch rewords a control while another binds a check to it | nobody relies on a statement its author did not read |
| Collectors (`roles/collect_*`, `ps_object.py`) | the facts of one host | one role per fact family | scripts that die, hives that are not loaded, pages that are not fetched | what was not read is reported as not read |
| Redaction (`redact.py`, `fact_bundle`) | none | guard, walk, write | identifiers in lists and unnamed keys, a salt of one's own | no identifier is written; no verdict gets better |
| Checks (`checks/**`, `eol.py`) | none | fifteen evaluators | what they conclude from part of the facts | a verdict is true of the subject |
| Contract (`contract.py`) | none | `require`, result constructors, `capped_by`, `spans` | partial and missing facts, results without confidence | no verdict from partial facts; confidence only falls |
| Evaluation (`evaluate.py`) | none | `evaluate_check`, `evaluate_bundle`, `unassessed_controls`, `coverage_summary` | evaluators that raise; the order of evaluations | verdicts only from evaluators; one true reason per undetermined control |
| Emission (`oscal/emit.py`, `ids.py`) | none | plan, results, POA&M, identifiers | many checks, many subjects, one finding; identifiers over several nights | failures not outvoted; figures count subjects; links lead where they should |
| Report, annex (`report/`) | none | `build`, `status_for`, `populate`, rendering | three sources of a reason; cells an agency filled in | every baseline control has its row; other rows untouched |
| Command line (`cli.py`) | three documents in one directory | `evaluate`, `report`, `annex` | crashes between and within writes; readers in between | which documents can be beside each other |
| Collection (`collect.yml`, `fact_bundle`) | the hosts' accumulating facts; the bundle store | roles, record, finalise | hosts failing midway, tasks run once for all | one host's failure is its own |
| Coverage gate (`coverage_gate.yml`) | none (set_stats) | count, round, compare, override | rounding, empty estates, repeated run identifiers | only what this run reached counts |
| Workflow (`aap/controller/`) | the nodes' jobs | schedule, survey, converge | parallel nodes, dead jobs, a store shared by all runs | gate after all collectors; runs do not mix |
| Rendering, component definitions, EDA rulebook, lab tools, CI checks | | | | see section 8 |

The components interact by files (trees, bundles, documents), by AAP's
`set_stats` (gate to evaluation), and by function calls inside `cca`. No process
talks to another one; concurrency is between branches, between collect jobs,
between hosts in a job, and between a `cca evaluate` and whoever reads its
output.

## 2. Modules

| Module | Models | Correspondence |
|---|---|---|
| `Contract` | `contract.py` | facts are `[partial, value]`, a bundle's fact map is a function whose domain is what was collected; one operator per constructor |
| `Evaluation` | `evaluate.py`, the registry as it reads it | the registry is constants with `RegistryAssumption`; all evaluators are one constant operator `Judge` that may answer anything, raising included (`JudgeAssumption`) |
| `Emission` | `oscal/emit.py`, `oscal/ids.py` | one operator per emitter; a document is a record of the props, states and identifiers that carry meaning; an identifier is the tuple of names it is derived from |
| `Reporting` | `report/model.py`, the status column of `report/annex.py` | `Build`, `StatusFor`, `Populate` |
| `Assess` | `cmd_evaluate`, `cmd_report`, `cmd_annex` | the output directory as three variables; one action per bundle and per write, `Die` at every point with a torn file; a reader opens the plan in one step and the results in another |
| `AssessProperties` | | what documents and reports promise about the evidence |
| `Evaluators` | what checks share: outcomes, `with_gaps`, unread hives | |
| `Office`, `PathRules` + `AppControl`, `Browsers`, `VendorSupport`, `Entra` | a family of checks each (`checks/windows/office.py`, `appcontrol*.py`, `browsers.py`, `applications.py`; `os_support.py`, `os_state.py`, `eol.py`; `checks/entra/`) and the role that collects its facts | a *world* is the subject as it is, a *blindness* what is not read of it; `Collect...(world, blindness)` gives facts, the evaluators judge facts alone |
| `Redaction` | `redact.py`, the salt guard, `ps_object.py` | a value is walked by its shape; an identifier is `[form, who]` |
| `HostCheck` | one subject from end to end | `Guard`, `Collect`, `WriteBundle`, `JudgeBundle`; `Eval == INSTANCE Evaluation` with the shipped registry as its constants, `Judge` being the evaluators above |
| `HostCheckProperties` | | what a verdict is worth, compared with the world it is about |
| `CoverageGate` | the gate's arithmetic | coverage in tenths of a percent; a tie goes either way |
| `GateSweep` | the gate's verdict over all small estates | |
| `Workflow` | `workflows.yml` and its playbooks over one bundle store | one action per task that changes state (a role on a host, a bundle, the directory), per job end, per outcome of gate and evaluation |
| `WorkflowProperties` | | what a nightly run promises, and `Ledger`, the refinement |
| `StandAlone` | `assess.yml` run by hand | both collection plays, the end Ansible makes of a play in which everybody failed, and the total `evaluate.yml` works out for itself |
| `EvidenceLedger` | (abstract) | a run observes subjects and publishes all it observed, or nothing |
| `ReleaseBump` | `fetch_ism_oscal.py`, the release-watch job, `registry.py` load and validate, git | a tree is a record of vendored files, manifests, check files and the pin; branches fetch file by file, author, and merge three ways |
| `VerdictLemmas`, `AssessProofs`, `PathRuleLemmas`, `HostCheckProofs`, `CoverageGateLemmas`, `GateProofs`, `WorkflowProofs`, `ReleaseProofs` | | proofs |
| `MCAssess`, `MCHostCheck`, `MCReleaseBump`, `MCStandAlone`, `MCWorkflow` | | constants for TLC |

`Contract` < `Evaluation` < `Emission` < `Reporting` < `Assess` extend one
another as the Python modules import one another; `Workflow` extends
`CoverageGate`; `HostCheck` extends the families, which extend `Evaluators` and
`Redaction`. The modules meet in two places. `Assess` leaves evaluators
uninterpreted, and `HostCheck` puts the shipped ones in their place, through the
same `Evaluation`. `Workflow`'s `Evaluate` is `Assess` seen from outside: a run
of `cca evaluate` over the bundles found.

Abstractions worth knowing:

- In `Assess` an evaluator's answer is one of the constructors' outcomes, or an
  exception; the small registry in `MCAssess` gives a fact one value per such
  outcome.
- Evaluations form a set of records that carry their place, because one thing
  only depends on their order: which reason is quoted.
- Documents carry the number of the invocation that wrote them (`by`), bundles
  the number of the run that collected them, check files what their author had
  before them (`seen`). No code reads these: they are history, for properties to
  speak about.
- In `Workflow` facts are gone; what matters there is whose bundle is found.
- The annex is repopulated from the vendored template each time, so a row
  `Untouched` is a row as the template has it.
- Paths are sequences of segments; a wildcard segment stands for one or several.
  Versions and cycles are records of their parts. Texts and SHA-256 sums are
  opaque: equality is all the code asks of them.
- A blindness has four parts: scripts whose output is not usable (`garbled`),
  what a collector knows it did not see (`hidden`), what it does not know of
  (`skipped`) and what the application inventory missed.

## 3. Hazards and properties

PROJECT.json lists every hazard at its line. The properties, by what they
protect:

- Evidence to documents. `SatisfiedIsObserved`, `FailureIsNeverHidden`,
  `FailureIsObserved`: from evidence to finding, POA&M, report row and annex
  cell, in both directions, a verdict is there because some evaluator said so on
  complete facts. `ConfidenceIsTheWeakest`, `PopulationIsHonest`: the qualifiers
  of a finding. `UndeterminedIsAccountedFor`, `ReportTellsTheReason`,
  `AnnexKeepsOtherRows`: what is said of the controls nobody determined.
- Documents in time. `PoamIsLast`, `SameEvidenceSameFindings`.
  `LinksLead`: a finding cites exactly its control's observations, an item leads
  to the failure it stands for, and next to another run's results leads nowhere.
  `ItemsAreFollowedUp`: an open item keeps its identifier over nights, and what
  leaves the POA&M is satisfied or named as undetermined beside it.
- A subject to its verdict. `PassIsTrueOfTheSubject`, `FailureIsTrueOfTheSubject`;
  for checks that go by the dates of `data/eol` `SupportIsTrueOfTheSubject`, for
  paths `WritablePathsAreJudgedAsEnforced`: a verdict agrees with the subject as it
  is, whatever part of it was read. `NotApplicableOnlyWhenAbsent`,
  `UnreadIsNeverJudged`, `MoreEvidenceOverturnsNothing`, `SupportIsNeverGuessed`:
  what may be concluded from parts.
  The cases in which the code is known to fall short of these are named, one
  conjunct each, in `PassesWrongly`, `FailsWrongly`, `PathsPassWrongly`,
  `PathsFailWrongly` and `AppsPassWrongly`; section 4 tells of them. The properties hold of everything
  else, so that a further shortfall would be seen.
- Redaction. `NoIdentifierIsWritten`, `RedactionAddsNoPass`.
- Runs, jobs and the store they share. `EvidenceIsFromThisRun`, `FoundIsReached`,
  `GateSpeaksOfWhatIsEvaluated`, `FailuresAreIsolated`,
  `PublishedOnlyWhenReached`, `LedgerIsKept`, `RunEnds`. `UnreachedSubjectsShow`:
  the published total exceeds the subjects there is evidence of by exactly those
  of the inventory this run did not reach.
- The gate's arithmetic. `PassIsNearlyEarned`, `RefusalIsEarned`.
- The tree. `GreenIsReviewed`: in a tree that validates, every check was written
  or re-affirmed by someone who read the very statements the catalog now has.
  `GreenIsPublished`: the release that will be loaded is, artefact by artefact,
  what upstream published. Neither is validated as such: validation looks at one
  tree and not at how it came to be.

## 4. Runs

| Run | Instance | Shows |
|---|---|---|
| `AssessEstates` | one evaluation; 5 controls, 5 checks; every windows bundle over 4 x 8 facts or with its release missing, joined by a Linux server and a tenant in each of their ways; with and without a population total; two baselines | verdicts, reasons, figures, report and annex |
| `AssessRuns` | two evaluations into one directory, of one run or of two, over four lists of two hosts (both orders, other verdicts), one baseline, death at any step | which documents meet and where their identifiers lead; findings do not depend on order; items are followed up |
| `ChecksSweep` | 15 checks over 6,887 cases (a subject and one of six redaction policies) times everything that can be unread of each | what a verdict on a subject is worth, and what redaction does to it |
| `GateSweep` | every estate of up to 130 subjects at thresholds 0, 50, 95, 100 | rounding |
| `WorkflowFresh` | two runs, three hosts on two nodes, two roles, an inventory that changes, threshold 60, override or not, identifiers of their own | safety of a run, termination, refinement of `EvidenceLedger` |
| `ReleaseBump` | two branches, two tags over three commits, two artefacts, three controls, two check files; two fetches, one moved tag | reviewed and published trees |

Bounds and why they are enough.

- `AssessEstates`: one control is shared by two checks with different ceilings
  (`c1`), one is judged from inside a tenant (`c2`), one is attested (`c3`), one
  has no check (`c4`), one needs a history it never gets (`c5`), and `c6` is in
  the template and in no baseline: these are all the ways a control can be bound
  that the code tells apart. Three subjects are enough for one passing, one
  failing and one undetermined.
- `AssessRuns`: two evaluations (`MaxJobs`) are enough for every pair of
  documents with different writers, one hour (`MaxHour`) for one to be later.
- `ChecksSweep`: for each family the worlds over which its evaluators branch:
  two people with hives and a machine, two applications, two directories met by
  the walk and by the probe, rules in pairs on top of the default ones, policy
  keys in pairs, every kind of edition and date in the end-of-life data, two
  tenant policies at once. Two people show one's reading made to speak for
  another, pairs show everything that only arises where two rules or keys meet.
- `GateSweep`: up to `MaxInScope` subjects, 130, there are estates at which
  rounding moves 95% (113 of 119).
- `WorkflowFresh`: `MaxRuns` of two gives a bundle of an earlier run.
- `ReleaseBump`: `MaxBranches` of two is one branch that bumps the catalog beside
  one that writes checks, and whichever merges first; `MaxFetches` of two is a
  fetch that stops and is retried; `MaxMoves` of one moves a tag between two
  requests of one fetch. The second release rewords one control and withdraws
  another, which are the two things a binding can suffer. Branches are
  interchangeable, and no liveness is checked in this run, so symmetry is sound.

The bounds are guards of `Begin`, `Tick`, `Launch`, `OpenBranch`, `ResolveTag`,
`MoveTag` and the initial states. Deadlock is not checked: every model stops
when its bound is used up or its one subject is judged.

### Runs that find a disagreement

Each of these checks one property that a document or a comment of the
repository states, and TLC finds what the code does instead.

| Run | The repository says | The code does |
|---|---|---|
| `ExpiredEvidence` | expiry is enforced when the report is generated (`docs/ASSURANCE-PRINCIPLES.md`, principle 8) | nothing reads `expires` |
| `MixedReport` | the report cannot drift from its assessment (`cli.py`) | plan and results may be of two evaluations |
| `LocalRunStale` | the bundles for this run (`evaluate.yml`) | every shipped run is called `local` |
| `TenantNeverCollected` | tenants are collected, all tiers are (`collect.yml`, `workflows.yml`) | no node selects a tenant |
| `TargetedRun` (one run of `assess.yml`, four machines and a tenant) | the denominator comes from inventory, never from the results (`evaluate.yml`) | a target that is no group's name has a population of 0, and the results' number takes its place |
| `RedactionMovesNoVerdict` (the shipped policy, `sid: hash` with a salt of one's own, and AppLocker's default rules; everything else as in `ChecksSweep`) | no verdict moves (ADR 0018) | hashed administrators are nobody's: their default rule fails ism-1870 |

`LocalRunStale` differs from `WorkflowFresh` in one constant, `RunIdOf`: with
an identifier per run every promise holds. With the shipped default they do
not: last night's bundles also carry tonight's run over the threshold
(`PublishedOnlyWhenReached` fails there too).

### Smaller disagreements

These were met while modelling and have no run of their own. Those of the checks
are the named exceptions of `HostCheckProperties`; the others the model has as
the code does.

Documents and gate.

- `evaluate.yml` says that the same facts always give identical OSCAL. The reason
  of an undetermined control is the first in the order the bundles were listed in
  (`evaluate.py` 196), and that is the order of `find`; findings do not depend on
  it (`SameEvidenceSameFindings`).
- The gate rounds before it compares, so 113 of 119 subjects passes a threshold
  of 95, although the survey (`surveys.yml` 40) says the workflow fails below it;
  `PassIsNearlyEarned` says how far this can go.
- A not-applicable finding is given the reason `pass` (`emit.py` 401;
  `docs/oscal-extensions.md` 74 says `not-applicable`), the annex status Not
  Assessed (`annex.py` 115-120; `docs/10-reporting.md` 128 keeps that for what
  was not tried), and, when every evaluation of it is, the confidence `direct`,
  above its check's ceiling (principle 4).
- An aggregate finding's denominator is its own determinations (`emit.py` 491),
  so a tenant that was not determined is not missed (ADR 0014), and two
  aggregate checks of one control would make one tenant "1 of 2"; the shipped
  registry gives each its own control.
- An item whose control becomes undetermined leaves the POA&M; only the results
  beside it say why (`ItemsAreFollowedUp`). A result's identifier is made of the
  run alone, so two baselines of one run share it, and a run identifier that
  repeats repeats every identifier of its observations.
- The EDA rulebook starts `CCA / Assess estate`, a workflow, with
  `run_job_template`, and passes a limit the workflow does not ask for; neither
  it nor the survey's `cca_scope_limit` narrows anything. An override of the gate
  is published as a statistic and recorded on no result (`coverage_gate.yml` 9-11). `model.py` 154-164 looks for hrefs that `emit.py` never
  writes.

Checks, where a fact was read in part.

- `contract.py` 158-160 says a partial fact must never produce `satisfied`. The
  browser checks read the optional application inventory and not its `partial`
  (`browsers.py` 110-140), so a browser in an unread hive is not missed.
- Collected authentication strengths that are partial, or were not read, make
  `mfa-required` fail, where `docs/platforms/entra-id.md` 119-124 promises no
  verdict; so does an Internet Explorer policy that could not be read.
- If AppLocker cannot be read while DeviceGuard answers, or the other way round,
  the other's silence counts as nothing enforced.
- A browser policy or blocker in one hive counts for all users, and unread hives
  can therefore turn a pass into a failure; a recommended force-list counts as
  forced; an unrecognised forced extension fails, where the check's own text
  says otherwise (`win-browser-ads-blocked.yml`); per-user Internet Explorer mode
  is not looked at by the Java check.
- A loaded hive without the policy key yields no row, so it cannot fail
  `macro-internet-blocked`; `macro_antivirus_scanning` asks for no unread hives;
  `macro_settings_locked` cannot fail; Office that was not installed by
  Click-to-Run is not applicable.
- If the list of profiles cannot be read, no hive is reported as unloaded, and a
  profile beyond `MaxProfiles` is not a gap; the walk below the Windows directory
  passes silently over directories that cannot be listed or are too deep. These
  are the blindness `skipped`.

Checks, where everything was read.

- `_covers` (`appcontrol_paths.py` 191-207) does not see that a pattern whose
  wildcard is not its end, such as `%OSDRIVE%\*.EXE`, covers what is below. It
  counts an allow of part of a directory, though nothing that can be run there is
  in that part, or the rule's exceptions name each file that is. A deny cancels an
  allow whatever its SID and exceptions (257-272), and a deny of part of a
  directory is not held against an allow of the same part.
- `unsupported-apps-removed` passes over the families no product file covers
  (`app_support.py`, `UNCOVERED_FAMILIES`; Edge is one): they are named in the
  evidence of a pass, and a pass it is.
- `mfa-required` passes policies whose grant controls are alternatives, or that
  exclude applications.
- `os_support.py` 21-22 says that Windows 10 is unambiguous, a single
  `10-<release>` cycle. The shipped data has some of its releases by edition only;
  `lookup` then gives no verdict where the editions' dates differ. An LTSC host is
  judged on the shorter cycle everyone else has: on Windows 11 because its
  edition's name contains "enterprise".
- CentOS is judged on the lifecycle of RHEL.

Redaction.

- Under `sid: drop` the list of unloaded profiles is emptied, and an undetermined
  check passes. A SID that is recognised by its shape as the value of a key would
  be kept under that policy; no collector records one there. An empty salt passes
  the guard before the collection and is refused by the filter after it: the
  host is collected and nothing is written.

The tree.

- `download_release` resolves the commit first and fetches the files by tag. If
  the tag is moved in between, the manifest names a commit the files are not of,
  and no check can tell: `GreenIsPublished` excepts moved tags for this. (The
  fetcher of the Blueprint fetches by commit.)
- A merge of two green branches can be a red main, and the nightly evaluation
  does not validate: what `ReleaseBump` says it says of trees that validate.

## 5. Fairness

`Workflow!FairSpec`: every task on every host ends one way or the other
(Ansible gives up on a host that does not answer, AAP on a job that does not
end), a play that is over ends its job, and the controller starts the next node
when it may. No fairness on launching, dying or failing: `RunEnds` holds
because a task that keeps being possible is eventually done or failed, not
because failures happen. `LedgerIsKept` includes the ledger's fairness.

`Assess`, `HostCheck`, `StandAlone` and `ReleaseBump` state none. An evaluation is a
loop over a list and three writes, and that it ends says nothing; `HostCheck` and
`StandAlone` are over within a few steps or stop half way; in the last nobody has to fetch, merge or review anything.

## 6. Proofs

Assumptions are the named `ASSUME`s of the modules:

- `RegistryAssumption`, `JudgeAssumption`, `InputAssumption`: a finite registry in
  some order, evaluators that give an outcome of the contract or raise,
  invocations with at least one bundle;
- `CasesAssumption`, `UnreadableAssumption`, `FactKeysAssumption`,
  `DatasetAssumption`, `SegmentsAssumption`: policies name actions there are, a hive
  has a key or none, rules and directories have the fields they have and paths made
  of segments, only what is run can come back garbled, the machine's own hive is
  loaded, a product's file is a finite list;
- `LifecyclesAssumption`, `WindowsAssumption`, `LinuxAssumption`,
  `SubjectsAssumption`: how `data/eol` is cut from what vendors publish, and which
  subjects there are (see `SupportIsTrueOfTheSubjectAlways` below);
- `SweepAssumption`, `EstateAssumption`: a finite inventory, each host with at most
  one node, a threshold in 0..100;
- `UpstreamAssumption`, `DraftsAssumption`, `FirstTreeAssumption`: the repository
  starts with what was fetched and reviewed.

Three theorems need more, and say so: `UniqueRunIds` (of the workflow's runs),
`OneBundlePerSubject` (an invocation gets at most one bundle of a subject: the
playbook passes one directory with a file per host) and
`BindingsKeepToBaselines` (a check's controls are in a baseline together or not
at all: every check of the registry has one control). What happens without
them is under "limits" below.

- `AssessProofs`: every safety and action property of `AssessProperties`, for any
  registry, any evaluators, any bundles, and any interleaving of invocations,
  crashes, readers and the clock. None of them is inductive: what `WriteResults`
  writes is right because of evaluations gathered one bundle after another in
  the steps before, and a report is right because of a document that may have been
  overwritten since. The inductive invariant `Honest` says where everything comes
  from: each whole document, and the plan a reader has in hand, is what its
  invocation's arguments determine; what was rendered was rendered from two such
  documents; a running invocation holds exactly the evaluations of the bundles
  before its cursor, and the documents up to its stage are its own; and
  `PoamIsLast`, since a POA&M may be older than the results beside it and never
  newer. The properties are then facts about the functions that make a document
  of an invocation, which are in
- `VerdictLemmas`, in layers: what `evaluate_check` gives for one bundle
  (the evaluator's answer on complete facts and nothing otherwise); which
  evaluations an invocation has; when a finding is satisfied, when it is not, and
  when there is none; what rows and cells make of the results of one invocation
  and the plan of another; that the reason quoted is one that a bundle gives; that
  the confidence is the least there is; that the figures count subjects (a
  cardinality argument: one evaluation per subject and check); that identifiers
  name one thing each.
- `HostCheckProofs`: every safety property of `HostCheckProperties` that
  `ChecksSweep` checks, for any subject, any blindness of its collectors and any redaction policy.
  The properties relate the ends of a path (the subject, a verdict), so the
  inductive invariant, `PathInv`, is what ties the stages together: facts are what
  the collectors record of this case, the bundle is their redaction, the verdicts
  are those on the bundle. What follows are lemmas about these functions:
  - redaction: `RedactHides` shows that the walk leaves no raw identifier in a
    list, by whichever rule it got there, and a lemma per family carries it to
    the places that family's facts have (`NoIdentifierIsWritten`).
    `RedactedKeeps` says what of the facts is left for the evaluators, and
    `PassStands`, family by family, that a pass is not of redaction's making
    (`RedactionAddsNoPass`);
  - `StatusIsSaid`: a status is the evaluator's answer on complete facts; the
    `...Facts` lemmas: what each collector records, and what it calls partial. They
    give `UnreadIsNeverJudged` and `NotApplicableOnlyWhenAbsent`;
  - the `...Truth` lemmas: from an evaluator's answer back through rows, redaction
    and collection to the subject. They give `PassIsTrueOfTheSubject` and
    `FailureIsTrueOfTheSubject`, with the exceptions that `PassesWrongly` and
    `FailsWrongly` name and no other;
  - `LookupSettles`: what `lookup` knows is what the only entry it selects says,
    whatever the dataset (`SupportIsNeverGuessed`);
  - the `...Stay` lemmas, which compare two readings of one subject, the one there
    was and one of everything (`MoreEvidenceOverturnsNothing`). Where verdicts are
    true of the subject the `...Truth` lemmas leave no room for two of them. Where
    a claim and its failure are not each other's opposite the readings are
    compared: what was found writable is found again and a search that was
    complete is the same search (`MoreIsWritable`, `PathsStay`), a browser's keys
    are found again (`MoreKeys`), an inventory, an identity or one of Graph's
    answers is read whole or not used (`ApplicationsStay`, `WindowsReleaseStays`,
    `LinuxReleaseStays`, `EntraStays`);
  - writable paths (`WritablePathsAreJudgedAsEnforced`), from the subject to the
    verdict and back. A user's file that AppLocker lets run lies in a directory
    that was found (`WritableIsFound`), under a rule that `_permitting_rules` reports
    (`MayRunIsPermitted`, by `GovernsCovers`); and what is reported lets some user
    run some file (`PermittedMayRun`, by `ContainsGoverns`). Each direction uses
    up exactly the exceptions of `PathsPassWrongly` or `PathsFailWrongly`;
    `EnforcedAlike` says that redaction leaves alone what is enforced;
  - support (`SupportIsTrueOfTheSubject`): whatever `lookup` knows it has of the
    host's own cycle, or of cycles that agree with it. `SelectsAlone` and `OwnEntry`
    say when the cycle asked for selects the one entry there is; `WindowsReleases`
    and `LongTermLasts` that a Windows host's own date is among those selected, or
    lasts longer; `LinuxEntry` that a release finds its major version's entry or
    its own; `ApplicationsTruth` the same of each application, and that one past
    its support is found. `SupportTruth` puts these together.
- `PathRuleLemmas`: what matching computes, of patterns and paths of any length.
  `Reached` is a recursive function on the segments of a pattern, so its facts take
  induction. The library states induction with an operator as parameter, which no
  backend can instantiate; that a nonempty set of naturals has a least element
  (`LeastNatural`, from the library's `WFMin`) has no such parameter, and gives
  induction over sets (`SetInduction`). With it: the function solves its equation
  (`ReachedSolves`); what `Matches` means of a prefix, of a last wildcard and of a
  pattern without any (`MatchesPrefix`, `MatchesStar`, `MatchesLiteral`); what
  AppLocker's variables expand to (`Expanded`); and the two theorems that tie the
  arithmetic on directories to the files in them, `ContainsGoverns` and
  `GovernsCovers`, whose hypothesis on wildcards is the shortfall of `_covers` above.
- `CoverageGateLemmas`: if `k` is the rounded coverage of `c` of `n`, then `k n`
  is within half of `n` of `1000 c`; hence what meets the threshold satisfies
  `2000 c + n >= 20 t n`, and what misses it `2000 c < 20 t n + n`.
- `GateProofs`: `PassIsNearlyEarned` and `RefusalIsEarned` for every estate and
  threshold, from the invariant `Sound` (the verdict was given by some rounding).
- `WorkflowProofs`, by four inductive invariants:
  - `TypeInv`: types, no job running outside of collection, and only hosts in
    scope with a node take part. The clause on jobs is what freezes the store
    once the gate has counted.
  - `CollectionInv`: nobody collects in a job that has ended, and who was lost
    was lost with its job.
  - `StoreTellsItsRun`: a bundle was written by a run called as its directory
    is, and this run's bundles are those of the hosts it wrote. That, with
    `UniqueRunIds`, makes everything found the current run's own work: no guard
    in the code does it. It gives `FoundIsReached` and `EvidenceIsFromThisRun`;
    with `CollectionInv` it gives `FailuresAreIsolated`.
  - `GateInv`: at evaluation, the gate's figures are still those of the inventory
    and of the bundles there are, and they met the threshold or were overridden. It gives `GateSpeaksOfWhatIsEvaluated` for
    any run identifiers, and with `FoundIsReached` the action properties
    `PublishedOnlyWhenReached` and `UnreachedSubjectsShow`.
  `WorkflowKeepsTheLedger`: under the refinement mapping of `WorkflowProperties`
  (`observed <- Reached`, `open <- phase # "idle"`, the ledger from the
  published bundles' hosts), each step of `Workflow` is a step of
  `EvidenceLedger` or a stutter.
- `ReleaseProofs`: both promises of a green tree, for every history of branches,
  fetches, crashes and merges. Validation looks at one tree, so neither is
  inductive. `GreenIsReviewed` follows from `ReadInv`: in main, in every branch
  *and in every branch's base*, a check's pins are what its author read; the base
  is needed because a merge chooses between three trees, file by file.
  `GreenIsPublished` follows from `VouchedInv`: every manifest in any of those
  trees lists every artefact, with sums upstream published, at the manifest's
  commit unless the tag was moved. It holds during a fetch because of `FetchInv`
  (what was summed so far is upstream's, and the manifest comes last). Files
  play no part in it: a torn or missing one makes the tree red, and `GreenPin`
  shows that the release verified is the one loaded.

What `SupportIsTrueOfTheSubjectAlways` rests on. How true a date is depends on how
the dataset was cut out of the vendors' lifecycles, which is no fact of the code:
a dataset that had only the enterprise edition of a release would settle for
it. So the properties compare with a constant, `Lifecycles`, that no
definition of the code uses, and the assumptions say of it what `data/eol` is:

- a product's file is copied whole (`fetch_eol_data.py` 94-106), and a cycle is in it
  once; products without a file have lifecycles all the same, and `AppsPassWrongly` is
  about those;
- a release of Windows has one date for everyone or one per edition, and the
  long-term channel, on top of either, lasts longer;
- a distribution is supported by major version or by point release, not both, and
  CentOS is promised no more than RHEL is;
- a subject's cycle is listed, or does not happen to have just one edition that
  is, or has only editions that are past support, as Server 2008 R2 has.

The shipped files satisfy these. The exceptions among subjects are Office 2008 and
2011, which are listed for the Mac only, and no subject of these checks.

Only model-checked: the liveness properties (`RunEnds` and the fairness half of
`LedgerIsKept`), which are out of the prover's reach, as ENABLED
is; and the six runs that find a disagreement, which are about what does not
hold. Of `StandAlone` nothing is proved: its one property is such a
disagreement.

Limits, met in the proofs: without `OneBundlePerSubject` two observations share
an identifier, and a finding's link is then to either; `cca evaluate` takes any
list of files. Without `BindingsKeepToBaselines` a check that binds one control
inside a baseline and one outside of it makes findings and POA&M items for both
(`emit.py` 467-479), and the one outside can vanish from the next POA&M without
being listed as undetermined. Neither arises with what the repository ships.

## 7. Plan

In this order, the most important behaviour first.

1. Done: contract, evaluation, emission with identifiers, reporting and the
   command line around one directory; gate; workflow; ledger; the checks, their
   collectors and redaction; vendoring and validation; `assess.yml`; every safety
   and action property of a passing run proved.
2. `StandAlone`: that an untargeted first run counts everybody it did not reach,
   checked and proved.
3. Compose `Workflow` with `Assess` and `HostCheck`: the bundles found are the
   bundles evaluated.
4. The denominator of aggregate findings over several tenants; the lab's diff.

Abstract specifications worth stating: `EvidenceLedger` (there), and one of the
output directory (a set of documents, each of one evaluation) for `Assess`.

## 8. Not modelled

- Reading single registry values, authenticating to Graph and following its
  pages: a collector's read either gives a value or is part of a blindness.
- Rendering, comments and spreadsheet XML: wording and layout.
- Component definitions, and the identifiers of plans, components and inventory
  items: pure mappings in which one name stands for one thing.
- Preflight and remediation playbooks: assertions before a run, and a playbook
  that is never part of one. The EDA rulebook: conditions on a webhook that start
  the workflow.
- The fetchers of schemas, end-of-life data and the Blueprint: the loop of
  `download_release` over other files. The diff of two catalogs, schema and link
  checks, the JSON schema of check files, the lab harness: developer tools that
  read and print.
- History: `cca evaluate` never passes one, so a check with a window is always
  `insufficient-history`, which is how `Evaluation` has it.
- A default action of redaction other than `retain`, where it touches values that
  are no identifiers. For identifiers it is in `Redaction` and in its proof, and
  not in the sweep: the shipped policy retains.
