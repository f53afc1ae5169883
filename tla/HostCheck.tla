----------------------------- MODULE HostCheck ------------------------------
(***************************************************************************)
(* One subject from end to end: playbooks/collect.yml guards the redaction *)
(* policy, runs the roles of the subject's kind and writes one bundle of   *)
(* redacted facts; `cca evaluate` judges the bundle later, and knows only  *)
(* what is in it.                                                          *)
(*                                                                         *)
(* A family is a group of roles that share no fact with another.  A case   *)
(* is a family, a subject as it is, and a deployment's redaction policy;   *)
(* what the collectors do not get to read of it is chosen as they run.     *)
(***************************************************************************)
EXTENDS Office, AppControl, Browsers, Entra

Families == {"office", "appcontrol", "browsers", "windows", "linux", "tenant"}

CONSTANTS
  Cases,        \* [family, world, policy]: the subjects looked at
  Unreadable    \* per family, the blindnesses its collectors can meet

\* A policy names actions there are: redact_facts refuses any other.  A host's
\* browsers have a key per hive, or none, and Internet Explorer's mode is set in
\* some of its hives; its rules and its directories are of the forms there are.
ASSUME CasesAssumption ==
  \A c \in Cases :
    /\ c.family \in Families /\ c.policy \in Policy
    /\ c.family = "browsers" => c.world.policy \in KeyPolicies /\ c.world.ieMode \subseteq Hives
    /\ c.family = "appcontrol" =>
         /\ \A t \in DOMAIN c.world.collections : c.world.collections[t].pathRules \subseteq PathRule
         /\ \A d \in DOMAIN c.world.directories : c.world.directories[d] \in Directory

VARIABLES
  case,       \* the subject
  stage,      \* how far its assessment got
  blind,      \* what was not read of it
  facts,      \* what the collectors recorded
  bundle,     \* what was written, in the artefact store
  verdicts    \* a result per check

vars == <<case, stage, blind, facts, bundle, verdicts>>

Stages == {"start", "guarded", "refused", "collected", "written", "unwritten", "judged"}

-----------------------------------------------------------------------------
(* The roles and the checks of a family.                                   *)

ChecksOf(family) ==
  CASE family = "office"     -> OfficeChecks
    [] family = "appcontrol" -> AppControlChecks
    [] family = "browsers"   -> BrowserChecks \cup ApplicationChecks
    [] family = "windows"    -> WindowsBaseChecks
    [] family = "linux"      -> ReleaseChecks
    [] family = "tenant"     -> EntraChecks

AllChecks == UNION {ChecksOf(f) : f \in Families}

\* What the roles of a family run or ask, each answered on its own: a Linux host
\* is described by what Ansible itself gathers.
ScriptsOf(family) ==
  CASE family = "office"     -> {"install", "policy"}
    [] family = "appcontrol" -> {"state", "paths"}
    [] family = "browsers"   -> {"browsers", "applications"}
    [] family = "windows"    -> {"features", "ie", "release"}
    [] family = "linux"      -> {}
    [] family = "tenant"     -> Endpoints

\* Only the output of something that is run can be garbled, and the machine's own
\* hive is always loaded.
ASSUME UnreadableAssumption ==
  \A f \in Families : \A b \in Unreadable[f] :
    b.garbled \subseteq ScriptsOf(f) /\ Machine \notin b.hidden \cup b.skipped

\* The include_role tasks of collect.yml.  A playbook of one's own may leave the
\* application inventory out: the browser checks only ask for it.
CollectFamily(family, w, unread) ==
  CASE family = "office"     -> CollectOffice(w, unread)
    [] family = "appcontrol" -> CollectAppControl(w, unread)
    [] family = "browsers"   -> IF w.inventoried
                                THEN Merged(CollectApplications(w, unread), CollectBrowsers(w, unread))
                                ELSE CollectBrowsers(w, unread)
    [] family = "windows"    -> CollectWindowsBase(w, unread)
    [] family = "linux"      -> CollectLinuxBase(w, unread)
    [] family = "tenant"     -> CollectEntraId(w, unread)

\* The facts the roles record are among the keys there are.
ASSUME FactKeysAssumption ==
  {InstallFact, MacroFact, StateFact, PathsFact, PolicyFact, JavaFact, AppsFact, ReleaseFact,
   FeaturesFact, IePolicyFact, MethodsFact, PoliciesFact, StrengthsFact} \subseteq FactKeys

\* redact_facts on a family's facts, and the identifiers among them.
Redacted(family, policy, fs) ==
  CASE family = "office"     -> RedactOffice(policy, fs)
    [] family = "appcontrol" -> RedactAppControl(policy, fs)
    [] family = "browsers"   -> RedactBrowsers(policy, fs)
    [] OTHER                 -> fs

IdentifiersIn(family, fs) ==
  CASE family = "office"     -> OfficeIds(fs)
    [] family = "appcontrol" -> AppControlIds(fs)
    [] family = "browsers"   -> BrowsersIds(fs)
    [] OTHER                 -> {}

\* collect.facts.required of the check definitions.
RequiredFacts ==
  [c \in AllChecks |->
     CASE c \in OfficeChecks -> {InstallFact, MacroFact}
       [] c = "application-control-user-writable-paths" -> {StateFact, PathsFact}
       [] c \in AppControlChecks \ {"application-control-user-writable-paths"} -> {StateFact}
       [] c = "browser-java-blocked" -> {PolicyFact, JavaFact}
       [] c \in BrowserChecks \ {"browser-java-blocked"} -> {PolicyFact}
       [] c \in ApplicationChecks -> {AppsFact}
       [] c \in ReleaseChecks -> {ReleaseFact}
       [] c = "ie11-disabled" -> {FeaturesFact}
       [] c = "mfa-factor-types" -> {MethodsFact}
       [] c = "mfa-required" -> {PoliciesFact}]

\* Their confidence.
Ceilings ==
  [c \in AllChecks |->
     CASE c = "ie11-disabled" -> "direct"
       [] c \in {"macros-disabled", "application-control-file-types",
                 "application-control-user-writable-paths", "browser-ads-blocked",
                 "browser-settings-locked", "unsupported-apps-removed"} -> "partial"
       [] OTHER -> "proxy"]

\* Their evaluator.
Evaluator(c, fs) ==
  CASE c \in OfficeChecks      -> OfficeJudge(c, fs)
    [] c \in AppControlChecks  -> AppControlJudge(c, fs)
    [] c \in BrowserChecks     -> BrowsersJudge(c, fs)
    [] c \in ApplicationChecks -> UnsupportedAppsRemoved(fs)
    [] c \in WindowsBaseChecks -> WindowsBaseJudge(c, fs)
    [] c \in EntraChecks       -> EntraJudge(c, fs)

\* The registry that evaluate.py sees, and its handling of one check.
Eval == INSTANCE Evaluation WITH
  Controls  <- {},
  Subjects  <- {},
  Platforms <- {},
  Checks    <- AllChecks,
  CheckPos  <- [c \in AllChecks |-> 0],
  Automated <- [c \in AllChecks |-> TRUE],
  Platform  <- [c \in AllChecks |-> "common"],
  Binds     <- [c \in AllChecks |-> {}],
  Required  <- RequiredFacts,
  Window    <- [c \in AllChecks |-> 0],
  Ceiling   <- Ceilings,
  Scope     <- [c \in AllChecks |-> "subject"],
  Freshness <- [c \in AllChecks |-> 0],
  Judge     <- Evaluator

\* evaluate_bundle on one subject's facts.
VerdictsOn(family, fs) == [c \in ChecksOf(family) |-> Eval!JudgeCheck(c, fs, {})]

-----------------------------------------------------------------------------
(* The steps.                                                              *)

Nothing == [f \in {} |-> {}]

Init ==
  /\ case \in Cases
  /\ stage = "start"
  /\ blind = EverythingRead
  /\ facts = Nothing
  /\ bundle = Nothing
  /\ verdicts = Nothing

\* The role fact_bundle, before any other: a subject whose policy hashes under
\* the shipped salt fails, and is not collected.
Guard ==
  /\ stage = "start"
  /\ stage' = IF GuardAccepts(case.policy) THEN "guarded" ELSE "refused"
  /\ UNCHANGED <<case, blind, facts, bundle, verdicts>>

Collect ==
  /\ stage = "guarded"
  /\ stage' = "collected"
  /\ blind' \in Unreadable[case.family]
  /\ facts' = CollectFamily(case.family, case.world, blind')
  /\ UNCHANGED <<case, bundle, verdicts>>

\* A finalise that put the facts in the store before it asked the filter.
WriteBundleFirst ==
  /\ stage = "collected"
  /\ bundle' = facts
  /\ stage' = IF FilterAccepts(case.policy) THEN "written" ELSE "unwritten"
  /\ UNCHANGED <<case, blind, facts, verdicts>>

\* fact_bundle's finalise: the filter may refuse, and then nothing is written.
WriteBundle ==
  /\ stage = "collected"
  /\ IF FilterAccepts(case.policy)
     THEN /\ bundle' = Redacted(case.family, case.policy, facts)
          /\ stage' = "written"
     ELSE /\ stage' = "unwritten"
          /\ UNCHANGED bundle
  /\ UNCHANGED <<case, blind, facts, verdicts>>

\* cca evaluate, over the bundle.
JudgeBundle ==
  /\ stage = "written"
  /\ stage' = "judged"
  /\ verdicts' = VerdictsOn(case.family, bundle)
  /\ UNCHANGED <<case, blind, facts, bundle>>

Next == Guard \/ Collect \/ WriteBundle \/ JudgeBundle

Spec == Init /\ [][Next]_vars

=============================================================================
