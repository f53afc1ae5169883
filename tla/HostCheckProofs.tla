-------------------------- MODULE HostCheckProofs ---------------------------
(***************************************************************************)
(* One subject, whatever it is and whatever was not read of it.            *)
(*                                                                         *)
(* A run of HostCheck has one path, so its inductive invariant says where  *)
(* everything on it comes from: the facts are what the collectors make of  *)
(* the subject, the bundle is those facts redacted, the verdicts are those *)
(* on the bundle.  The theorems then are about these three functions.      *)
(***************************************************************************)
EXTENDS HostCheckProperties, PathRuleLemmas, FiniteSetTheorems, TLAPS

-----------------------------------------------------------------------------
(* The path.                                                               *)

Collected == CollectFamily(case.family, case.world, blind)

Written == Redacted(case.family, case.policy, Collected)

PathInv ==
  /\ case \in Cases
  /\ stage \in Stages
  /\ stage \in {"start", "guarded", "refused"} =>
       blind = EverythingRead /\ facts = Nothing /\ bundle = Nothing
  /\ stage \notin {"start", "guarded", "refused"} => blind \in Unreadable[case.family]
  /\ stage \in {"collected", "unwritten"} => facts = Collected /\ bundle = Nothing
  /\ stage \in {"written", "judged"} => facts = Collected /\ bundle = Written
  /\ stage = "judged" => verdicts = VerdictsOn(case.family, bundle)

LEMMA PathInvInit == Init => PathInv
BY DEF Init, PathInv, Stages

LEMMA PathInvStep == PathInv /\ [Next]_vars => PathInv'
<1> SUFFICES ASSUME PathInv, [Next]_vars PROVE PathInv'
  OBVIOUS
<1> USE DEF PathInv, Stages
<1>1. CASE Guard
  BY <1>1 DEF Guard
<1>2. CASE Collect
  BY <1>2 DEF Collect, Collected
<1>3. CASE WriteBundle
  BY <1>3 DEF WriteBundle, Collected, Written
<1>4. CASE JudgeBundle
  BY <1>4 DEF JudgeBundle, Collected, Written
<1>5. CASE UNCHANGED vars
  BY <1>5 DEF vars, Collected, Written
<1> QED
  BY <1>1, <1>2, <1>3, <1>4, <1>5 DEF Next

\* The bundle is the redacted reading of the subject, the verdicts are those on
\* the bundle, in every reachable state.
THEOREM PathTaken == Spec => []PathInv
BY PathInvInit, PathInvStep, PTL DEF Spec

-----------------------------------------------------------------------------
(* Redaction of one identifier.                                            *)

\* A person's SID as collected.
Exposed(id) == id.form = "raw" /\ id.who \in People

LEMMA ApplyHides ==
  ASSUME NEW action \in Actions, action \notin {"retain", "drop"}, NEW id, Exposed(id)
  PROVE  ~Exposed(Apply(action, id))
BY DEF Apply, Exposed, People, Actions

LEMMA ApplyExposesNothing ==
  ASSUME NEW action, NEW id, ~Exposed(id)
  PROVE  ~Exposed(Apply(action, id))
BY DEF Apply, Exposed, NoSid, People

\* What is under `sid`, or a list element, is not exposed by any policy but one
\* that retains.
LEMMA RedactHides ==
  ASSUME NEW policy \in Policy, policy.sid # "retain", NEW keys, NEW listed, NEW id,
         Len(keys) \in 1..Len(keys), listed \/ keys[Len(keys)] = "sid"
  PROVE  ~Exposed(Redact(policy, keys, listed, id))
<1> DEFINE key == keys[Len(keys)]
<1>1. ~Exposed(Gone)
  BY DEF Gone, Exposed, People
<1>2. CASE ~Exposed(id)
  BY <1>1, <1>2, ApplyExposesNothing DEF Redact
<1>3. CASE Exposed(id)
  <2>1. ActionFor(policy, key, id) = policy.sid
    BY <1>3 DEF ActionFor, Named, Exposed, LooksLikeASid, People, Principals, Groups, Policy, Actions
  <2>2. CASE policy.sid = "drop"
    <3>1. Redact(policy, keys, listed, id) = Gone
      BY <2>1, <2>2 DEF Redact, Named
    <3> QED
      BY <1>1, <3>1
  <2>3. CASE policy.sid # "drop"
    <3>1. ~Exposed(Apply(policy.sid, id))
      BY <1>3, <2>3, ApplyHides DEF Policy
    <3> QED
      BY <1>1, <2>1, <3>1 DEF Redact
  <2> QED
    BY <2>2, <2>3
<1> QED
  BY <1>2, <1>3

-----------------------------------------------------------------------------
(* Redaction of a family's facts, whatever they are.                       *)

LEMMA MergedRecord ==
  ASSUME NEW fs, NEW key, NEW partial, NEW value
  PROVE  Merged(fs, Record(key, partial, value))[key].value = value
BY DEF Merged, Record

LEMMA SidKeyHides ==
  ASSUME NEW policy \in Policy, policy.sid # "retain", NEW first, NEW listed, NEW id
  PROVE  ~Exposed(Redact(policy, <<first, "sid">>, listed, id))
<1>1. Len(<<first, "sid">>) = 2 /\ <<first, "sid">>[2] = "sid"
  OBVIOUS
<1> QED
  BY <1>1, RedactHides

LEMMA ListHides ==
  ASSUME NEW policy \in Policy, policy.sid # "retain", NEW first, NEW last, NEW ids,
         NEW id \in RedactList(policy, <<first, last>>, ids)
  PROVE  ~Exposed(id)
<1>1. PICK i \in ids : id = Redact(policy, <<first, last>>, TRUE, i)
  BY DEF RedactList
<1> DEFINE keys == <<first, last>>
<1>2. Len(keys) \in 1..Len(keys)
  OBVIOUS
<1> HIDE DEF keys
<1>3. ~Exposed(Redact(policy, keys, TRUE, i))
  BY <1>2, RedactHides
<1> QED
  BY <1>1, <1>3 DEF keys

LEMMA OfficeHides ==
  ASSUME NEW policy \in Policy, policy.sid # "retain", NEW fs,
         NEW id \in OfficeIds(RedactOffice(policy, fs))
  PROVE  ~Exposed(id)
<1> DEFINE read     == fs[MacroFact].value
           rows     == {RedactMacroRow(policy, r) : r \in read.rows}
           unloaded == RedactList(policy, <<"meta", "profiles_unloaded">>, read.unloaded)
<1>1. RedactOffice(policy, fs)[MacroFact].value = [rows |-> rows, unloaded |-> unloaded]
  BY MergedRecord DEF RedactOffice
<1>2. id \in {r.sid : r \in rows} \cup unloaded
  BY <1>1 DEF OfficeIds
<1>3. CASE id \in {r.sid : r \in rows}
  <2>1. PICK r \in read.rows : id = RedactMacroRow(policy, r).sid
    BY <1>3
  <2>2. id = Redact(policy, <<"rows", "sid">>, FALSE, r.sid)
    BY <2>1 DEF RedactMacroRow
  <2> QED
    BY <2>2, SidKeyHides
<1>4. CASE id \in unloaded
  BY <1>4, ListHides
<1> QED
  BY <1>2, <1>3, <1>4

LEMMA BrowsersHides ==
  ASSUME NEW policy \in Policy, policy.sid # "retain", NEW fs,
         NEW id \in BrowsersIds(RedactBrowsers(policy, fs))
  PROVE  ~Exposed(id)
<1> DEFINE read     == fs[PolicyFact].value
           rows     == {RedactBrowserRow(policy, r) : r \in read.rows}
           unloaded == RedactList(policy, <<"meta", "profiles_unloaded">>, read.unloaded)
<1>1. RedactBrowsers(policy, fs)[PolicyFact].value = [rows |-> rows, unloaded |-> unloaded]
  BY MergedRecord DEF RedactBrowsers
<1>2. id \in {r.sid : r \in rows} \cup unloaded
  BY <1>1 DEF BrowsersIds
<1>3. CASE id \in {r.sid : r \in rows}
  <2>1. PICK r \in read.rows : id = RedactBrowserRow(policy, r).sid
    BY <1>3
  <2>2. id = Redact(policy, <<"rows", "sid">>, FALSE, r.sid)
    BY <2>1 DEF RedactBrowserRow
  <2> QED
    BY <2>2, SidKeyHides
<1>4. CASE id \in unloaded
  BY <1>4, ListHides
<1> QED
  BY <1>2, <1>3, <1>4

LEMMA AppControlHides ==
  ASSUME NEW policy \in Policy, policy.sid # "retain", NEW fs,
         NEW id \in AppControlIds(RedactAppControl(policy, fs))
  PROVE  ~Exposed(id)
<1> DEFINE state       == fs[StateFact].value
           collections == [t \in DOMAIN state.collections |->
                             RedactCollection(policy, state.collections[t])]
           keys        == <<"collections", "path_rules", "sid">>
<1>1. RedactAppControl(policy, fs)[StateFact].value.collections = collections
  BY MergedRecord DEF RedactAppControl
<1>2. PICK t \in DOMAIN state.collections :
        id \in {r.sid : r \in collections[t].pathRules}
  BY <1>1 DEF AppControlIds
<1>3. PICK r \in state.collections[t].pathRules : id = RedactRule(policy, r).sid
  BY <1>2 DEF RedactCollection
<1>4. id = Redact(policy, keys, FALSE, r.sid)
  BY <1>3 DEF RedactRule
<1>5. Len(keys) = 3 /\ keys[3] = "sid"
  OBVIOUS
<1>6. Len(keys) \in 1..Len(keys) /\ keys[Len(keys)] = "sid"
  BY <1>5
<1> HIDE DEF keys
<1> QED
  BY <1>4, <1>6, RedactHides

LEMMA WrittenHides ==
  ASSUME NEW family \in Families, NEW policy \in Policy, policy.sid # "retain", NEW fs,
         NEW id \in IdentifiersIn(family, Redacted(family, policy, fs))
  PROVE  ~Exposed(id)
<1>1. CASE family = "office"
  <2>1. IdentifiersIn(family, Redacted(family, policy, fs)) = OfficeIds(RedactOffice(policy, fs))
    BY <1>1, Zenon DEF IdentifiersIn, Redacted
  <2> QED
    BY <2>1, OfficeHides
<1>2. CASE family = "appcontrol"
  <2>1. IdentifiersIn(family, Redacted(family, policy, fs))
          = AppControlIds(RedactAppControl(policy, fs))
    BY <1>2, Zenon DEF IdentifiersIn, Redacted
  <2> QED
    BY <2>1, AppControlHides
<1>3. CASE family = "browsers"
  <2>1. IdentifiersIn(family, Redacted(family, policy, fs))
          = BrowsersIds(RedactBrowsers(policy, fs))
    BY <1>3, Zenon DEF IdentifiersIn, Redacted
  <2> QED
    BY <2>1, BrowsersHides
<1>4. CASE family \notin {"office", "appcontrol", "browsers"}
  <2>1. IdentifiersIn(family, Redacted(family, policy, fs)) = {}
    BY <1>4, Zenon DEF IdentifiersIn
  <2> QED
    BY <2>1
<1> QED
  BY <1>1, <1>2, <1>3, <1>4

LEMMA BundleHides == PathInv => NoIdentifierIsWritten
<1> SUFFICES ASSUME PathInv, bundle # Nothing, case.policy.sid # "retain",
                    NEW id \in IdentifiersIn(case.family, bundle)
             PROVE  ~Exposed(id)
  BY DEF NoIdentifierIsWritten, Exposed
<1>1. case.family \in Families /\ case.policy \in Policy
  BY CasesAssumption DEF PathInv
<1>2. bundle = Written
  BY DEF PathInv, Stages
<1> QED
  BY <1>1, <1>2, WrittenHides DEF Written

\* Under a policy that redacts SIDs, no reading of any subject puts a person's SID
\* into the artefact store.  fact_bundle/tasks/finalise.yml:38-50
THEOREM NoIdentifierIsWrittenAlways == Spec => []NoIdentifierIsWritten
BY PathTaken, BundleHides, PTL

-----------------------------------------------------------------------------
(* One check, from the facts to a status.                                  *)

\* evaluate_check on a check without a history: when the facts that it requires
\* are there and whole its evaluator's answer, within the ceiling, and
\* otherwise no verdict.
LEMMA StatusIsSaid ==
  ASSUME NEW c \in AllChecks, NEW fs
  PROVE  LET status   == Eval!JudgeCheck(c, fs, {}).status
             said     == Evaluator(c, fs)
             complete == Complete(fs, RequiredFacts[c])
         IN  /\ status \in {"satisfied", "not-satisfied", "not-applicable", "unassessed", "error"}
             /\ status = "satisfied" <=>
                  complete /\ said.says = "satisfied" /\ said.cites # {}
             /\ status = "not-satisfied" <=>
                  complete /\ said.says = "not-satisfied" /\ said.cites # {}
             /\ status = "not-applicable" <=> complete /\ said.says = "not-applicable"
<1> DEFINE r        == Eval!JudgeCheck(c, fs, {})
           said     == Evaluator(c, fs)
           guard    == Eval!Require(fs, RequiredFacts[c])
           complete == Complete(fs, RequiredFacts[c])
           reached  == IF guard # Eval!NoResult THEN guard ELSE Eval!Construct(said)
<1>1. r = Eval!WithConfidenceCeiling(reached, Ceilings[c])
  BY DEF Eval!JudgeCheck
<1>2. /\ guard = Eval!NoResult <=> complete
      /\ guard # Eval!NoResult =>
           guard \in {Eval!Unassessed("collection-error"), Eval!Unassessed("partial-population")}
  <2>1. /\ Eval!Unassessed("collection-error") # Eval!NoResult
        /\ Eval!Unassessed("partial-population") # Eval!NoResult
    <3>1. /\ Eval!Unassessed("collection-error").status = "unassessed"
          /\ Eval!Unassessed("partial-population").status = "unassessed"
          /\ Eval!NoResult.status = "none"
      BY DEF Eval!Unassessed, Eval!NoResult, Eval!Verdict, Eval!None
    <3> QED
      BY <3>1
  <2>2. /\ Eval!Missing(fs, RequiredFacts[c]) = Missing(fs, RequiredFacts[c])
        /\ Eval!Incomplete(fs, RequiredFacts[c]) = Incomplete(fs, RequiredFacts[c])
    BY DEF Eval!Missing, Eval!Incomplete, Missing, Incomplete
  <2> QED
    BY <2>1, <2>2 DEF Eval!Require, Complete
<1>3. \A reason : /\ Eval!Unassessed(reason).status = "unassessed"
                  /\ Eval!Unassessed(reason).confidence = Eval!None
  BY DEF Eval!Unassessed
<1>4. /\ Eval!Construct(said).status \in {"satisfied", "not-satisfied", "not-applicable",
                                         "unassessed", "error"}
      /\ Eval!Construct(said).status = "satisfied" <=>
           said.says = "satisfied" /\ said.cites # {}
      /\ Eval!Construct(said).status = "not-satisfied" <=>
           said.says = "not-satisfied" /\ said.cites # {}
      /\ Eval!Construct(said).status = "not-applicable" <=> said.says = "not-applicable"
      /\ DOMAIN Eval!Construct(said) = {"status", "confidence", "reason", "cites"}
  <2> HIDE DEF said
  <2>1. CASE said.says \in {"satisfied", "not-satisfied"} /\ said.cites = {}
    <3>1. Eval!Construct(said) = Eval!ErrorResult
      BY <2>1 DEF Eval!Construct
    <3> QED
      BY <2>1, <3>1 DEF Eval!ErrorResult
  <2>2. CASE said.says \in {"satisfied", "not-satisfied"} /\ said.cites # {}
    <3>1. Eval!Construct(said) = Eval!Verdict(said.says, said.confidence, said.cites)
      BY <2>2 DEF Eval!Construct
    <3> QED
      BY <2>2, <3>1 DEF Eval!Verdict
  <2>3. CASE said.says = "not-applicable"
    <3>1. Eval!Construct(said) = Eval!NotApplicable(said.cites)
      BY <2>3 DEF Eval!Construct
    <3> QED
      BY <2>3, <3>1 DEF Eval!NotApplicable, Eval!Verdict
  <2>4. CASE said.says = "unassessed"
    <3>1. Eval!Construct(said) = Eval!Unassessed(said.reason)
      BY <2>4 DEF Eval!Construct
    <3> QED
      BY <2>4, <3>1 DEF Eval!Unassessed
  <2>5. CASE said.says \notin {"satisfied", "not-satisfied", "not-applicable", "unassessed"}
    <3>1. Eval!Construct(said) = Eval!ErrorResult
      BY <2>5 DEF Eval!Construct
    <3> QED
      BY <2>5, <3>1 DEF Eval!ErrorResult
  <2> QED
    BY <2>1, <2>2, <2>3, <2>4, <2>5
<1> HIDE DEF guard, said, complete
<1>5. CASE complete
  <2>1. reached = Eval!Construct(said)
    BY <1>2, <1>5
  <2> HIDE DEF reached
  <2>2. r.status = Eval!Construct(said).status
    BY <1>1, <1>4, <2>1 DEF Eval!WithConfidenceCeiling
  <2> QED
    BY <1>4, <1>5, <2>2 DEF said, complete
<1>6. CASE ~complete
  <2>1. reached = guard /\ guard.status = "unassessed" /\ guard.confidence = Eval!None
    BY <1>2, <1>3, <1>6
  <2> HIDE DEF reached
  <2>2. r.status = "unassessed"
    BY <1>1, <2>1 DEF Eval!WithConfidenceCeiling
  <2> QED
    BY <1>6, <2>2 DEF complete
<1> QED
  BY <1>5, <1>6

-----------------------------------------------------------------------------
(* The checks of each family: what they require, who judges.               *)

LEMMA OfficeCheck ==
  ASSUME NEW c \in OfficeChecks
  PROVE  /\ c \in AllChecks
         /\ RequiredFacts[c] = {InstallFact, MacroFact}
         /\ \A fs : Evaluator(c, fs) = OfficeJudge(c, fs)
<1>1. c \in AllChecks
  <2>1. c \in ChecksOf("office")
    BY Zenon DEF ChecksOf
  <2> QED
    BY <2>1 DEF AllChecks, Families
<1>2. RequiredFacts[c] = {InstallFact, MacroFact}
  BY <1>1 DEF RequiredFacts, OnPaths, OfficeChecks, AppControlChecks, BrowserChecks, ApplicationChecks,
         ReleaseChecks, WindowsBaseChecks, EntraChecks
<1>3. \A fs : Evaluator(c, fs) = OfficeJudge(c, fs)
  BY DEF Evaluator, OfficeChecks, AppControlChecks, BrowserChecks, ApplicationChecks,
         ReleaseChecks, WindowsBaseChecks, EntraChecks
<1> QED
  BY <1>1, <1>2, <1>3

LEMMA AppControlCheck ==
  ASSUME NEW c \in AppControlChecks
  PROVE  /\ c \in AllChecks
         /\ RequiredFacts[c] = IF c \in OnPaths THEN {StateFact, PathsFact} ELSE {StateFact}
         /\ \A fs : Evaluator(c, fs) = AppControlJudge(c, fs)
<1>1. c \in AllChecks
  <2>1. c \in ChecksOf("appcontrol")
    BY Zenon DEF ChecksOf
  <2> QED
    BY <2>1 DEF AllChecks, Families
<1>2. RequiredFacts[c] = IF c \in OnPaths THEN {StateFact, PathsFact} ELSE {StateFact}
  BY <1>1 DEF RequiredFacts, OnPaths, OfficeChecks, AppControlChecks, BrowserChecks, ApplicationChecks,
         ReleaseChecks, WindowsBaseChecks, EntraChecks
<1>3. \A fs : Evaluator(c, fs) = AppControlJudge(c, fs)
  BY DEF Evaluator, OfficeChecks, AppControlChecks, BrowserChecks, ApplicationChecks,
         ReleaseChecks, WindowsBaseChecks, EntraChecks
<1> QED
  BY <1>1, <1>2, <1>3

LEMMA BrowserCheck ==
  ASSUME NEW c \in BrowserChecks
  PROVE  /\ c \in AllChecks
         /\ RequiredFacts[c] = IF c = "browser-java-blocked" THEN {PolicyFact, JavaFact}
                               ELSE {PolicyFact}
         /\ \A fs : Evaluator(c, fs) = BrowsersJudge(c, fs)
<1>1. c \in AllChecks
  <2>1. c \in ChecksOf("browsers")
    BY Zenon DEF ChecksOf
  <2> QED
    BY <2>1 DEF AllChecks, Families
<1>2. RequiredFacts[c] = IF c = "browser-java-blocked" THEN {PolicyFact, JavaFact}
                               ELSE {PolicyFact}
  BY <1>1 DEF RequiredFacts, OnPaths, OfficeChecks, AppControlChecks, BrowserChecks, ApplicationChecks,
         ReleaseChecks, WindowsBaseChecks, EntraChecks
<1>3. \A fs : Evaluator(c, fs) = BrowsersJudge(c, fs)
  BY DEF Evaluator, OfficeChecks, AppControlChecks, BrowserChecks, ApplicationChecks,
         ReleaseChecks, WindowsBaseChecks, EntraChecks
<1> QED
  BY <1>1, <1>2, <1>3

LEMMA ApplicationCheck ==
  ASSUME NEW c \in ApplicationChecks
  PROVE  /\ c \in AllChecks
         /\ RequiredFacts[c] = {AppsFact}
         /\ \A fs : Evaluator(c, fs) = UnsupportedAppsRemoved(fs)
<1>1. c \in AllChecks
  <2>1. c \in ChecksOf("browsers")
    BY Zenon DEF ChecksOf
  <2> QED
    BY <2>1 DEF AllChecks, Families
<1>2. RequiredFacts[c] = {AppsFact}
  BY <1>1 DEF RequiredFacts, OnPaths, OfficeChecks, AppControlChecks, BrowserChecks, ApplicationChecks,
         ReleaseChecks, WindowsBaseChecks, EntraChecks
<1>3. \A fs : Evaluator(c, fs) = UnsupportedAppsRemoved(fs)
  BY DEF Evaluator, OfficeChecks, AppControlChecks, BrowserChecks, ApplicationChecks,
         ReleaseChecks, WindowsBaseChecks, EntraChecks
<1> QED
  BY <1>1, <1>2, <1>3

LEMMA WindowsBaseCheck ==
  ASSUME NEW c \in WindowsBaseChecks
  PROVE  /\ c \in AllChecks
         /\ RequiredFacts[c] = IF c = "ie11-disabled" THEN {FeaturesFact} ELSE {ReleaseFact}
         /\ \A fs : Evaluator(c, fs) = WindowsBaseJudge(c, fs)
<1>1. c \in AllChecks
  <2>1. c \in ChecksOf("windows")
    BY Zenon DEF ChecksOf
  <2> QED
    BY <2>1 DEF AllChecks, Families
<1>2. RequiredFacts[c] = IF c = "ie11-disabled" THEN {FeaturesFact} ELSE {ReleaseFact}
  BY <1>1 DEF RequiredFacts, OnPaths, OfficeChecks, AppControlChecks, BrowserChecks, ApplicationChecks,
         ReleaseChecks, WindowsBaseChecks, EntraChecks
<1>3. \A fs : Evaluator(c, fs) = WindowsBaseJudge(c, fs)
  BY DEF Evaluator, OfficeChecks, AppControlChecks, BrowserChecks, ApplicationChecks,
         ReleaseChecks, WindowsBaseChecks, EntraChecks
<1> QED
  BY <1>1, <1>2, <1>3

LEMMA EntraCheck ==
  ASSUME NEW c \in EntraChecks
  PROVE  /\ c \in AllChecks
         /\ RequiredFacts[c] = IF c = "mfa-factor-types" THEN {MethodsFact} ELSE {PoliciesFact}
         /\ \A fs : Evaluator(c, fs) = EntraJudge(c, fs)
<1>1. c \in AllChecks
  <2>1. c \in ChecksOf("tenant")
    BY Zenon DEF ChecksOf
  <2> QED
    BY <2>1 DEF AllChecks, Families
<1>2. RequiredFacts[c] = IF c = "mfa-factor-types" THEN {MethodsFact} ELSE {PoliciesFact}
  BY <1>1 DEF RequiredFacts, OnPaths, OfficeChecks, AppControlChecks, BrowserChecks, ApplicationChecks,
         ReleaseChecks, WindowsBaseChecks, EntraChecks
<1>3. \A fs : Evaluator(c, fs) = EntraJudge(c, fs)
  BY DEF Evaluator, OfficeChecks, AppControlChecks, BrowserChecks, ApplicationChecks,
         ReleaseChecks, WindowsBaseChecks, EntraChecks
<1> QED
  BY <1>1, <1>2, <1>3

\* Whose check a family's check is.
LEMMA FamilyChecks ==
  ASSUME NEW family \in Families, NEW c \in ChecksOf(family)
  PROVE  /\ c \in AllChecks
         /\ \/ family = "office" /\ c \in OfficeChecks
            \/ family = "appcontrol" /\ c \in AppControlChecks
            \/ family = "browsers" /\ c \in BrowserChecks
            \/ family = "browsers" /\ c \in ApplicationChecks
            \/ family = "windows" /\ c \in WindowsBaseChecks
            \/ family = "linux" /\ c \in ReleaseChecks
            \/ family = "tenant" /\ c \in EntraChecks
BY Zenon DEF Families, ChecksOf, AllChecks

-----------------------------------------------------------------------------
(* The facts of each family: which there are, which are partial, and what  *)
(* they say.  Redaction changes the values only.                           *)

LEMMA OfficeFacts ==
  ASSUME NEW w, NEW b
  PROVE  LET fs        == CollectOffice(w, b)
             installed == "install" \notin b.garbled /\ w.product = "click-to-run"
             scanned   == installed /\ "policy" \notin b.garbled
         IN  /\ DOMAIN fs = {InstallFact, MacroFact}
             /\ fs[InstallFact].partial <=> "install" \in b.garbled
             /\ fs[InstallFact].value <=> installed
             /\ fs[MacroFact].partial <=> installed /\ "policy" \in b.garbled
             /\ fs[MacroFact].value = [rows     |-> IF scanned THEN MacroRows(w, b) ELSE {},
                                       unloaded |-> IF scanned THEN Unloaded(b) ELSE {}]
<1> DEFINE readable  == Ok(IF "install" \in b.garbled THEN "garbage" ELSE "array", "any")
           installed == "install" \notin b.garbled /\ w.product = "click-to-run"
           scanned   == installed /\ "policy" \notin b.garbled
           whole     == Ok(IF scanned THEN "mapping" ELSE "garbage", "mapping")
           value     == [rows     |-> IF scanned THEN MacroRows(w, b) ELSE {},
                         unloaded |-> IF scanned THEN Unloaded(b) ELSE {}]
           unread    == ~readable
           cut       == installed /\ ~whole
           fs        == CollectOffice(w, b)
<1>1. fs = Merged(Record(InstallFact, unread, installed), Record(MacroFact, cut, value))
  BY DEF CollectOffice
<1>2. readable <=> "install" \notin b.garbled
  BY Zenon DEF Ok
<1>3. whole <=> scanned
  BY Zenon DEF Ok
<1>4. InstallFact # MacroFact
  BY DEF InstallFact, MacroFact
<1> HIDE DEF value, readable, whole, installed, unread, cut, fs
<1>5. /\ DOMAIN fs = {InstallFact, MacroFact}
      /\ fs[InstallFact].partial = unread /\ fs[InstallFact].value = installed
      /\ fs[MacroFact].partial = cut /\ fs[MacroFact].value = value
  BY <1>1, <1>4, SMT DEF Merged, Record
<1>6. fs[InstallFact].partial <=> "install" \in b.garbled
  BY <1>2, <1>5, Zenon DEF unread
<1>7. fs[InstallFact].value <=> installed
  BY <1>5, Zenon
<1>8. fs[MacroFact].partial <=> installed /\ "policy" \in b.garbled
  BY <1>3, <1>5, Zenon DEF installed, cut
<1> QED
  BY <1>5, <1>6, <1>7, <1>8, Zenon DEF fs, value, installed

LEMMA AppControlFacts ==
  ASSUME NEW w, NEW b
  PROVE  LET fs    == CollectAppControl(w, b)
             state == IF "state" \in b.garbled THEN NothingRead ELSE StateValue(w, b)
             paths == IF "paths" \in b.garbled THEN NoPaths ELSE PathsValue(w, b)
         IN  /\ DOMAIN fs = {StateFact, PathsFact}
             /\ "state" \in b.garbled => fs[StateFact].partial
             /\ "paths" \in b.garbled => fs[PathsFact].partial
             /\ fs[StateFact].value = state
             /\ fs[PathsFact].value = paths
<1> DEFINE fs      == CollectAppControl(w, b)
           state   == IF "state" \in b.garbled THEN NothingRead ELSE StateValue(w, b)
           paths   == IF "paths" \in b.garbled THEN NoPaths ELSE PathsValue(w, b)
           stateOk == Ok(IF "state" \in b.garbled THEN "garbage" ELSE "wrapped", "mapping")
           pathsOk == Ok(IF "paths" \in b.garbled THEN "garbage" ELSE "wrapped", "mapping")
           unread  == ~stateOk \/ ~(state.applocker \/ state.deviceguard)
           cut     == ~pathsOk \/ paths.probes = {}
<1>1. fs = Merged(Record(StateFact, unread, state), Record(PathsFact, cut, paths))
  BY DEF CollectAppControl
<1>2. "state" \in b.garbled => ~stateOk
  BY Zenon DEF Ok
<1>3. "paths" \in b.garbled => ~pathsOk
  BY Zenon DEF Ok
<1>4. StateFact # PathsFact
  BY DEF StateFact, PathsFact
<1> HIDE DEF state, paths, stateOk, pathsOk, unread, cut, fs
<1>5. /\ DOMAIN fs = {StateFact, PathsFact}
      /\ fs[StateFact].partial = unread /\ fs[StateFact].value = state
      /\ fs[PathsFact].partial = cut /\ fs[PathsFact].value = paths
  BY <1>1, <1>4, SMT DEF Merged, Record
<1>6. "state" \in b.garbled => fs[StateFact].partial
  BY <1>2, <1>5, Zenon DEF unread
<1>7. "paths" \in b.garbled => fs[PathsFact].partial
  BY <1>3, <1>5, Zenon DEF cut
<1> QED
  BY <1>5, <1>6, <1>7, Zenon DEF fs, state, paths

LEMMA BrowsersFacts ==
  ASSUME NEW w, NEW b
  PROVE  LET fs   == CollectBrowsers(w, b)
             walked == "browsers" \notin b.garbled /\ "registry" \notin b.hidden
             java   == "browsers" \notin b.garbled /\ "java" \notin b.hidden
             keys   == {k \in KeysRead : k[1] \notin b.hidden \cup b.skipped /\ w.policy[k] # "absent"}
         IN  /\ DOMAIN fs = {PolicyFact, JavaFact}
             /\ fs[PolicyFact].partial <=> ~walked
             /\ fs[JavaFact].partial <=> ~java
             /\ fs[PolicyFact].value =
                  [rows     |-> IF walked THEN {BrowserRow(w, k) : k \in keys} ELSE {},
                   unloaded |-> IF walked
                                THEN {Raw(p) : p \in People \cap (b.hidden \ b.skipped)} ELSE {}]
             /\ fs[JavaFact].value = [ieMode   |-> java /\ "machine" \in w.ieMode,
                                      javasoft |-> java /\ w.javasoft]
<1> DEFINE fs       == CollectBrowsers(w, b)
           readable == "browsers" \notin b.garbled
           ok       == Ok(IF readable THEN "mapping" ELSE "garbage", "mapping")
           walked   == readable /\ "registry" \notin b.hidden
           java     == readable /\ "java" \notin b.hidden
           keys     == {k \in KeysRead : k[1] \notin b.hidden \cup b.skipped /\ w.policy[k] # "absent"}
           policy   == [rows     |-> IF walked THEN {BrowserRow(w, k) : k \in keys} ELSE {},
                        unloaded |-> IF walked
                                     THEN {Raw(p) : p \in People \cap (b.hidden \ b.skipped)} ELSE {}]
           surface  == [ieMode |-> java /\ "machine" \in w.ieMode, javasoft |-> java /\ w.javasoft]
           unread   == ~ok \/ ~walked
           unasked  == ~ok \/ ~java
<1>1. fs = Merged(Record(PolicyFact, unread, policy), Record(JavaFact, unasked, surface))
  BY DEF CollectBrowsers
<1>2. ok <=> readable
  BY Zenon DEF Ok
<1>3. PolicyFact # JavaFact
  BY DEF PolicyFact, JavaFact
<1>4. (unread <=> ~walked) /\ (unasked <=> ~java)
  <2> HIDE DEF ok
  <2> QED
    BY <1>2, Zenon
<1> HIDE DEF policy, surface, unread, unasked, fs
<1>5. /\ DOMAIN fs = {PolicyFact, JavaFact}
      /\ fs[PolicyFact].partial = unread /\ fs[PolicyFact].value = policy
      /\ fs[JavaFact].partial = unasked /\ fs[JavaFact].value = surface
  BY <1>1, <1>3, SMT DEF Merged, Record
<1> HIDE DEF readable, ok, walked, java, keys
<1>6. (fs[PolicyFact].partial <=> ~walked) /\ (fs[JavaFact].partial <=> ~java)
  BY <1>4, <1>5, Zenon
<1> QED
  BY <1>5, <1>6, Zenon DEF fs, policy, surface, walked, java, keys, readable

LEMMA ApplicationsFacts ==
  ASSUME NEW w, NEW b
  PROVE  LET fs   == CollectApplications(w, b)
             read == "applications" \notin b.garbled
             seen == {a \in w.installed : a.scope \notin b.inventory}
         IN  /\ DOMAIN fs = {AppsFact}
             /\ fs[AppsFact].partial <=> ~read \/ b.inventory # {}
             /\ fs[AppsFact].value =
                  IF read THEN {[kind |-> a.kind, version |-> a.version] : a \in seen} ELSE {}
<1> DEFINE fs     == CollectApplications(w, b)
           read   == "applications" \notin b.garbled
           seen   == {a \in w.installed : a.scope \notin b.inventory}
           ok     == Ok(IF read THEN "wrapped" ELSE "garbage", "mapping")
           unread == ~ok \/ (read /\ b.inventory # {})
           value  == IF read THEN {[kind |-> a.kind, version |-> a.version] : a \in seen} ELSE {}
<1>1. fs = Record(AppsFact, unread, value)
  BY DEF CollectApplications
<1>2. ok <=> read
  BY Zenon DEF Ok
<1>3. unread <=> ~read \/ b.inventory # {}
  <2> HIDE DEF ok
  <2> QED
    BY <1>2, Zenon
<1> HIDE DEF unread, value, fs
<1>4. DOMAIN fs = {AppsFact} /\ fs[AppsFact].partial = unread /\ fs[AppsFact].value = value
  BY <1>1, SMT DEF Record
<1> HIDE DEF read, seen
<1> QED
  BY <1>3, <1>4, Zenon DEF fs, value, read, seen

LEMMA WindowsFacts ==
  ASSUME NEW w, NEW b
  PROVE  LET fs     == CollectWindowsBase(w, b)
             listed == "features" \notin b.garbled \cup b.hidden /\ "features" \notin b.skipped
         IN  /\ DOMAIN fs = {FeaturesFact, IePolicyFact, ReleaseFact}
             /\ fs[FeaturesFact].partial <=> "features" \in b.garbled \cup b.hidden
             /\ fs[ReleaseFact].partial <=> "release" \in b.garbled
             /\ fs[IePolicyFact].partial <=> "ie" \in b.garbled
             /\ fs[FeaturesFact].value = [empty |-> ~listed, ie |-> IF listed THEN w.ie ELSE "absent"]
             /\ fs[IePolicyFact].value <=> "ie" \notin b.garbled /\ w.iePolicy
             /\ fs[ReleaseFact].value = WindowsIdentity(w, "release" \notin b.garbled)
<1> DEFINE fs       == CollectWindowsBase(w, b)
           ok(s)    == Ok(IF s \in b.garbled THEN "garbage" ELSE "mapping", "mapping")
           asked    == "features" \notin b.garbled \cup b.hidden
           listed   == asked /\ "features" \notin b.skipped
           features == [empty |-> ~listed, ie |-> IF listed THEN w.ie ELSE "absent"]
           policy   == "ie" \notin b.garbled /\ w.iePolicy
           identity == WindowsIdentity(w, "release" \notin b.garbled)
           f        == ~ok("features") \/ "features" \in b.hidden
           i        == ~ok("ie")
           r        == ~ok("release")
<1>1. fs = Merged(Record(FeaturesFact, f, features),
                  Merged(Record(IePolicyFact, i, policy), Record(ReleaseFact, r, identity)))
  BY DEF CollectWindowsBase
<1>2. \A s : ok(s) <=> s \notin b.garbled
  BY Zenon DEF Ok
<1>3. (f <=> "features" \in b.garbled \cup b.hidden) /\ (i <=> "ie" \in b.garbled)
       /\ (r <=> "release" \in b.garbled)
  <2> HIDE DEF ok
  <2> QED
    BY <1>2, Zenon
<1>4. FeaturesFact # IePolicyFact /\ FeaturesFact # ReleaseFact /\ IePolicyFact # ReleaseFact
  BY DEF FeaturesFact, IePolicyFact, ReleaseFact
<1> HIDE DEF features, policy, identity, f, i, r, fs
<1>5. /\ DOMAIN fs = {FeaturesFact, IePolicyFact, ReleaseFact}
      /\ fs[FeaturesFact].partial = f /\ fs[FeaturesFact].value = features
      /\ fs[IePolicyFact].partial = i /\ fs[IePolicyFact].value = policy
      /\ fs[ReleaseFact].partial = r /\ fs[ReleaseFact].value = identity
  BY <1>1, <1>4, SMT DEF Merged, Record
<1>6. /\ fs[FeaturesFact].partial <=> "features" \in b.garbled \cup b.hidden
      /\ fs[ReleaseFact].partial <=> "release" \in b.garbled
      /\ fs[IePolicyFact].partial <=> "ie" \in b.garbled
  BY <1>3, <1>5, Zenon
<1>7. fs[IePolicyFact].value <=> "ie" \notin b.garbled /\ w.iePolicy
  BY <1>5, Zenon DEF policy
<1> QED
  BY <1>5, <1>6, <1>7, Zenon DEF fs, features, identity

LEMMA LinuxFacts ==
  ASSUME NEW w, NEW b
  PROVE  LET fs == CollectLinuxBase(w, b)
             read == "os-release" \notin b.hidden
         IN  /\ DOMAIN fs = {ReleaseFact}
             /\ fs[ReleaseFact].partial <=> ~read
             /\ fs[ReleaseFact].value = [product |-> IF read THEN EolProduct(w.id) ELSE "",
                                         cycle   |-> IF read THEN w.version ELSE NoCycle,
                                         os |-> "", release |-> "", edition |-> ""]
<1> DEFINE fs     == CollectLinuxBase(w, b)
           read   == "os-release" \notin b.hidden
           value  == [product |-> IF read THEN EolProduct(w.id) ELSE "",
                      cycle   |-> IF read THEN w.version ELSE NoCycle,
                      os |-> "", release |-> "", edition |-> ""]
           unread == ~read
<1>1. fs = Record(ReleaseFact, unread, value)
  BY DEF CollectLinuxBase
<1> HIDE DEF unread, value, fs
<1>2. DOMAIN fs = {ReleaseFact} /\ fs[ReleaseFact].partial = unread /\ fs[ReleaseFact].value = value
  BY <1>1, SMT DEF Record
<1> QED
  BY <1>2, Zenon DEF fs, value, unread

LEMMA EntraFacts ==
  ASSUME NEW w, NEW b
  PROVE  LET fs == CollectEntraId(w, b)
             answered == "methods" \notin b.garbled \cup b.skipped
         IN  /\ DOMAIN fs = {MethodsFact, PoliciesFact, StrengthsFact}
             /\ fs[MethodsFact].partial <=> "methods" \in b.garbled
             /\ fs[PoliciesFact].partial <=>
                  "policies" \in b.garbled \/ "policies" \in b.hidden \ b.skipped
             /\ fs[StrengthsFact].partial <=>
                  "strengths" \in b.garbled \/ "strengths" \in b.hidden \ b.skipped
             /\ fs[MethodsFact].value = [configurations |-> IF answered THEN w.methods ELSE {}]
             /\ fs[PoliciesFact].value = Answers("policies", w.policies, b)
             /\ fs[StrengthsFact].value = Answers("strengths", w.strengths, b)
<1> DEFINE fs        == CollectEntraId(w, b)
           answered  == "methods" \notin b.garbled \cup b.skipped
           methods   == [configurations |-> IF answered THEN w.methods ELSE {}]
           policies  == Answers("policies", w.policies, b)
           strengths == Answers("strengths", w.strengths, b)
           m         == "methods" \in b.garbled
           p         == "policies" \in b.garbled \/ "policies" \in b.hidden \ b.skipped
           s         == "strengths" \in b.garbled \/ "strengths" \in b.hidden \ b.skipped
<1>1. fs = Merged(Record(MethodsFact, m, methods),
                  Merged(Record(PoliciesFact, p, policies), Record(StrengthsFact, s, strengths)))
  BY DEF CollectEntraId
<1>2. MethodsFact # PoliciesFact /\ MethodsFact # StrengthsFact /\ PoliciesFact # StrengthsFact
  BY DEF MethodsFact, PoliciesFact, StrengthsFact
<1> HIDE DEF methods, policies, strengths, m, p, s, fs
<1>3. /\ DOMAIN fs = {MethodsFact, PoliciesFact, StrengthsFact}
      /\ fs[MethodsFact].partial = m /\ fs[MethodsFact].value = methods
      /\ fs[PoliciesFact].partial = p /\ fs[PoliciesFact].value = policies
      /\ fs[StrengthsFact].partial = s /\ fs[StrengthsFact].value = strengths
  BY <1>1, <1>2, SMT DEF Merged, Record
<1>4. /\ fs[MethodsFact].partial <=> "methods" \in b.garbled
      /\ fs[PoliciesFact].partial <=>
           "policies" \in b.garbled \/ "policies" \in b.hidden \ b.skipped
      /\ fs[StrengthsFact].partial <=>
           "strengths" \in b.garbled \/ "strengths" \in b.hidden \ b.skipped
  BY <1>3, Zenon DEF m, p, s
<1> QED
  BY <1>3, <1>4, Zenon DEF fs, methods, policies, strengths

\* The inventory of applications is another role's, and may not be there.
LEMMA BrowsersFamilyFacts ==
  ASSUME NEW w, NEW b
  PROVE  LET fs     == CollectFamily("browsers", w, b)
             policy == CollectBrowsers(w, b)
         IN  /\ DOMAIN fs = {PolicyFact, JavaFact} \cup IF w.inventoried THEN {AppsFact} ELSE {}
             /\ fs[PolicyFact] = policy[PolicyFact]
             /\ fs[JavaFact] = policy[JavaFact]
             /\ w.inventoried => fs[AppsFact] = CollectApplications(w, b)[AppsFact]
<1> DEFINE fs     == CollectFamily("browsers", w, b)
           policy == CollectBrowsers(w, b)
           apps   == CollectApplications(w, b)
<1>1. fs = IF w.inventoried THEN Merged(apps, policy) ELSE policy
  BY Zenon DEF CollectFamily
<1>2. DOMAIN policy = {PolicyFact, JavaFact}
  BY BrowsersFacts, Zenon
<1>3. DOMAIN apps = {AppsFact}
  BY ApplicationsFacts, Zenon
<1>4. AppsFact # PolicyFact /\ AppsFact # JavaFact
  BY DEF PolicyFact, JavaFact, AppsFact
<1> HIDE DEF fs, policy, apps
<1>5. CASE w.inventoried
  <2>1. fs = Merged(apps, policy)
    BY <1>1, <1>5, Zenon
  <2>2. /\ DOMAIN fs = {PolicyFact, JavaFact} \cup {AppsFact}
        /\ fs[PolicyFact] = policy[PolicyFact]
        /\ fs[JavaFact] = policy[JavaFact]
        /\ fs[AppsFact] = apps[AppsFact]
    BY <1>2, <1>3, <1>4, <2>1, SMT DEF Merged
  <2> QED
    BY <1>5, <2>2, Zenon DEF fs, policy, apps
<1>6. CASE ~w.inventoried
  <2>1. fs = policy
    BY <1>1, <1>6, Zenon
  <2>2. {PolicyFact, JavaFact} \cup {} = {PolicyFact, JavaFact}
    OBVIOUS
  <2> QED
    BY <1>2, <1>6, <2>1, <2>2, Zenon DEF fs, policy
<1> QED
  BY <1>5, <1>6

\* Redaction records one fact of a family again: which facts there are and
\* which of them are partial stays as it was.
LEMMA RedactedKeeps ==
  ASSUME NEW family \in Families, NEW policy, NEW w, NEW b
  PROVE  LET fs    == CollectFamily(family, w, b)
             again == Redacted(family, policy, fs)
         IN  /\ DOMAIN again = DOMAIN fs
             /\ \A k \in DOMAIN fs : again[k].partial = fs[k].partial
<1> DEFINE fs    == CollectFamily(family, w, b)
           again == Redacted(family, policy, fs)
<1>1. CASE family = "office"
  <2> DEFINE value == [rows     |-> {RedactMacroRow(policy, r) : r \in fs[MacroFact].value.rows},
                       unloaded |-> RedactList(policy, <<"meta", "profiles_unloaded">>,
                                               fs[MacroFact].value.unloaded)]
  <2>1. MacroFact \in DOMAIN fs
    <3>1. fs = CollectOffice(w, b)
      BY <1>1, Zenon DEF CollectFamily
    <3> QED
      BY <3>1, OfficeFacts, Zenon
  <2>2. again = Merged(fs, Record(MacroFact, fs[MacroFact].partial, value))
    BY <1>1, Zenon DEF Redacted, RedactOffice
  <2> HIDE DEF fs, again, value
  <2>3. DOMAIN again = DOMAIN fs /\ \A k \in DOMAIN fs : again[k].partial = fs[k].partial
    BY <2>1, <2>2, SMT DEF Merged, Record
  <2> QED
    BY <2>3, Zenon DEF fs, again
<1>2. CASE family = "appcontrol"
  <2> DEFINE state == fs[StateFact].value
             value == [read        |-> state.read,
                       applocker   |-> state.applocker,
                       collections |-> [t \in DOMAIN state.collections |->
                                          RedactCollection(policy, state.collections[t])],
                       deviceguard |-> state.deviceguard,
                       wdac        |-> state.wdac]
  <2>1. StateFact \in DOMAIN fs
    <3>1. fs = CollectAppControl(w, b)
      BY <1>2, Zenon DEF CollectFamily
    <3> QED
      BY <3>1, AppControlFacts, Zenon
  <2>2. again = Merged(fs, Record(StateFact, fs[StateFact].partial, value))
    BY <1>2, Zenon DEF Redacted, RedactAppControl
  <2> HIDE DEF fs, again, value
  <2>3. DOMAIN again = DOMAIN fs /\ \A k \in DOMAIN fs : again[k].partial = fs[k].partial
    BY <2>1, <2>2, SMT DEF Merged, Record
  <2> QED
    BY <2>3, Zenon DEF fs, again
<1>3. CASE family = "browsers"
  <2> DEFINE value == [rows     |-> {RedactBrowserRow(policy, r) : r \in fs[PolicyFact].value.rows},
                       unloaded |-> RedactList(policy, <<"meta", "profiles_unloaded">>,
                                               fs[PolicyFact].value.unloaded)]
  <2>1. PolicyFact \in DOMAIN fs
    <3>1. DOMAIN fs = {PolicyFact, JavaFact} \cup IF w.inventoried THEN {AppsFact} ELSE {}
      BY <1>3, BrowsersFamilyFacts, Zenon
    <3> HIDE DEF fs
    <3> QED
      BY <3>1
  <2>2. again = Merged(fs, Record(PolicyFact, fs[PolicyFact].partial, value))
    BY <1>3, Zenon DEF Redacted, RedactBrowsers
  <2> HIDE DEF fs, again, value
  <2>3. DOMAIN again = DOMAIN fs /\ \A k \in DOMAIN fs : again[k].partial = fs[k].partial
    BY <2>1, <2>2, SMT DEF Merged, Record
  <2> QED
    BY <2>3, Zenon DEF fs, again
<1>4. CASE family \notin {"office", "appcontrol", "browsers"}
  <2>1. again = fs
    BY <1>4, Zenon DEF Redacted
  <2> HIDE DEF fs, again
  <2> QED
    BY <2>1, Zenon DEF fs, again
<1> QED
  BY <1>1, <1>2, <1>3, <1>4

\* So which facts are usable is settled before redaction.
LEMMA RedactedIsAsComplete ==
  ASSUME NEW family \in Families, NEW policy, NEW w, NEW b, NEW keys
  PROVE  Complete(Redacted(family, policy, CollectFamily(family, w, b)), keys)
           <=> Complete(CollectFamily(family, w, b), keys)
<1> DEFINE fs    == CollectFamily(family, w, b)
           again == Redacted(family, policy, fs)
<1>1. DOMAIN again = DOMAIN fs /\ \A k \in DOMAIN fs : again[k].partial = fs[k].partial
  BY RedactedKeeps
<1> HIDE DEF fs, again
<1>2. Missing(again, keys) = Missing(fs, keys)
  BY <1>1 DEF Missing
<1>3. Incomplete(again, keys) = Incomplete(fs, keys)
  BY <1>1, <1>2 DEF Incomplete, Missing
<1> QED
  BY <1>2, <1>3, Zenon DEF fs, again, Complete

LEMMA PartialIsIncomplete ==
  ASSUME NEW fs, NEW keys, NEW k \in keys, k \in DOMAIN fs => fs[k].partial
  PROVE  ~Complete(fs, keys)
BY DEF Complete, Missing, Incomplete

\* What redaction records again, and what it leaves alone.
LEMMA OfficeRedacted ==
  ASSUME NEW policy, NEW fs, MacroFact \in DOMAIN fs
  PROVE  LET again == RedactOffice(policy, fs)
             value == fs[MacroFact].value
         IN  /\ \A k \in DOMAIN fs \ {MacroFact} : again[k] = fs[k]
             /\ again[MacroFact].value.rows = {RedactMacroRow(policy, r) : r \in value.rows}
             /\ again[MacroFact].value.unloaded =
                  RedactList(policy, <<"meta", "profiles_unloaded">>, value.unloaded)
<1> DEFINE again    == RedactOffice(policy, fs)
           rows     == {RedactMacroRow(policy, r) : r \in fs[MacroFact].value.rows}
           unloaded == RedactList(policy, <<"meta", "profiles_unloaded">>, fs[MacroFact].value.unloaded)
           value    == [rows |-> rows, unloaded |-> unloaded]
<1>1. again = Merged(fs, Record(MacroFact, fs[MacroFact].partial, value))
  BY Zenon DEF RedactOffice
<1>2. value.rows = rows /\ value.unloaded = unloaded
  OBVIOUS
<1> HIDE DEF again, value
<1>3. (\A k \in DOMAIN fs \ {MacroFact} : again[k] = fs[k]) /\ again[MacroFact].value = value
  BY <1>1, SMT DEF Merged, Record
<1> QED
  BY <1>2, <1>3, Zenon DEF again

LEMMA BrowsersRedacted ==
  ASSUME NEW policy, NEW fs, PolicyFact \in DOMAIN fs
  PROVE  LET again == RedactBrowsers(policy, fs)
             value == fs[PolicyFact].value
         IN  /\ \A k \in DOMAIN fs \ {PolicyFact} : again[k] = fs[k]
             /\ again[PolicyFact].value.rows = {RedactBrowserRow(policy, r) : r \in value.rows}
             /\ again[PolicyFact].value.unloaded =
                  RedactList(policy, <<"meta", "profiles_unloaded">>, value.unloaded)
<1> DEFINE again    == RedactBrowsers(policy, fs)
           rows     == {RedactBrowserRow(policy, r) : r \in fs[PolicyFact].value.rows}
           unloaded == RedactList(policy, <<"meta", "profiles_unloaded">>, fs[PolicyFact].value.unloaded)
           value    == [rows |-> rows, unloaded |-> unloaded]
<1>1. again = Merged(fs, Record(PolicyFact, fs[PolicyFact].partial, value))
  BY Zenon DEF RedactBrowsers
<1>2. value.rows = rows /\ value.unloaded = unloaded
  OBVIOUS
<1> HIDE DEF again, value
<1>3. (\A k \in DOMAIN fs \ {PolicyFact} : again[k] = fs[k]) /\ again[PolicyFact].value = value
  BY <1>1, SMT DEF Merged, Record
<1> QED
  BY <1>2, <1>3, Zenon DEF again

LEMMA AppControlRedacted ==
  ASSUME NEW policy, NEW fs, StateFact \in DOMAIN fs
  PROVE  LET again == RedactAppControl(policy, fs)
             state == fs[StateFact].value
         IN  /\ \A k \in DOMAIN fs \ {StateFact} : again[k] = fs[k]
             /\ again[StateFact].value.read = state.read
             /\ again[StateFact].value.wdac = state.wdac
             /\ again[StateFact].value.collections =
                  [t \in DOMAIN state.collections |-> RedactCollection(policy, state.collections[t])]
<1> DEFINE again       == RedactAppControl(policy, fs)
           state       == fs[StateFact].value
           collections == [t \in DOMAIN state.collections |-> RedactCollection(policy, state.collections[t])]
           value       == [read |-> state.read, applocker |-> state.applocker,
                           collections |-> collections,
                           deviceguard |-> state.deviceguard, wdac |-> state.wdac]
<1>1. again = Merged(fs, Record(StateFact, fs[StateFact].partial, value))
  BY Zenon DEF RedactAppControl
<1>2. value.read = state.read /\ value.wdac = state.wdac /\ value.collections = collections
  OBVIOUS
<1> HIDE DEF again, value
<1>3. (\A k \in DOMAIN fs \ {StateFact} : again[k] = fs[k]) /\ again[StateFact].value = value
  BY <1>1, SMT DEF Merged, Record
<1> QED
  BY <1>2, <1>3, Zenon DEF again

-----------------------------------------------------------------------------
(* What could not be read.                                                 *)

\* A subject's verdicts are those on what was written of it.
LEMMA JudgedOnWritten ==
  ASSUME PathInv, NEW c, Judged(c)
  PROVE  /\ case.family \in Families /\ case.policy \in Policy
         /\ c \in ChecksOf(case.family)
         /\ blind \in Unreadable[case.family]
         /\ Status(c) = Eval!JudgeCheck(c, Written, {}).status
<1>1. stage = "judged" /\ c \in ChecksOf(case.family)
  BY DEF Judged
<1>2. verdicts = VerdictsOn(case.family, Written)
  BY <1>1 DEF PathInv
<1>3. Status(c) = Eval!JudgeCheck(c, Written, {}).status
  BY <1>1, <1>2, Zenon DEF Status, VerdictsOn
<1>4. case.family \in Families /\ case.policy \in Policy
  BY CasesAssumption DEF PathInv
<1>5. blind \in Unreadable[case.family]
  BY <1>1 DEF PathInv
<1> QED
  BY <1>1, <1>3, <1>4, <1>5

\* There is no verdict without the facts a check requires, nor when its
\* evaluator cannot tell.
LEMMA NoVerdict ==
  ASSUME NEW c \in AllChecks, NEW fs,
         ~Complete(fs, RequiredFacts[c]) \/ Evaluator(c, fs).says = "unassessed"
  PROVE  Eval!JudgeCheck(c, fs, {}).status \notin {"satisfied", "not-satisfied", "not-applicable"}
<1> DEFINE status   == Eval!JudgeCheck(c, fs, {}).status
           said     == Evaluator(c, fs)
           complete == Complete(fs, RequiredFacts[c])
<1>1. /\ status = "satisfied" => complete /\ said.says = "satisfied"
      /\ status = "not-satisfied" => complete /\ said.says = "not-satisfied"
      /\ status = "not-applicable" => complete /\ said.says = "not-applicable"
  BY StatusIsSaid, Zenon
<1> HIDE DEF status, said, complete
<1>2. ~complete \/ said.says = "unassessed"
  BY DEF said, complete
<1>3. status \notin {"satisfied", "not-satisfied", "not-applicable"}
  BY <1>1, <1>2
<1> QED
  BY <1>3 DEF status

LEMMA UnreadOffice ==
  ASSUME NEW w, NEW b, NEW c \in OfficeChecks,
         "install" \in b.garbled \/ (w.product = "click-to-run" /\ "policy" \in b.garbled)
  PROVE  ~Complete(CollectOffice(w, b), RequiredFacts[c])
<1> DEFINE fs == CollectOffice(w, b)
<1>1. /\ fs[InstallFact].partial <=> "install" \in b.garbled
      /\ fs[MacroFact].partial <=>
           "install" \notin b.garbled /\ w.product = "click-to-run" /\ "policy" \in b.garbled
  BY OfficeFacts, Zenon
<1>2. RequiredFacts[c] = {InstallFact, MacroFact}
  BY OfficeCheck, Zenon
<1> HIDE DEF fs
<1>3. fs[InstallFact].partial \/ fs[MacroFact].partial
  BY <1>1, Zenon
<1> QED
  BY <1>2, <1>3, PartialIsIncomplete DEF fs

LEMMA UnreadAppControl ==
  ASSUME NEW w, NEW b, NEW c \in AppControlChecks,
         "state" \in b.garbled \/ (c \in OnPaths /\ "paths" \in b.garbled)
  PROVE  ~Complete(CollectAppControl(w, b), RequiredFacts[c])
<1> DEFINE fs == CollectAppControl(w, b)
<1>1. /\ "state" \in b.garbled => fs[StateFact].partial
      /\ "paths" \in b.garbled => fs[PathsFact].partial
  BY AppControlFacts, Zenon
<1>2. RequiredFacts[c] = IF c \in OnPaths THEN {StateFact, PathsFact} ELSE {StateFact}
  BY AppControlCheck, Zenon
<1> HIDE DEF fs
<1>3. StateFact \in RequiredFacts[c] /\ (c \in OnPaths => PathsFact \in RequiredFacts[c])
  BY <1>2
<1> QED
  BY <1>1, <1>3, PartialIsIncomplete DEF fs

\* The checks of browsers do not require the inventory: without it they know of
\* no browser to judge.
LEMMA UnreadBrowsers ==
  ASSUME NEW policy, NEW w, NEW b, NEW c \in BrowserChecks,
         b.garbled \cap {"browsers", "applications"} # {}
  PROVE  LET fs    == CollectFamily("browsers", w, b)
             again == Redacted("browsers", policy, fs)
         IN  ~Complete(fs, RequiredFacts[c]) \/ Evaluator(c, again).says = "unassessed"
<1> DEFINE fs    == CollectFamily("browsers", w, b)
           again == Redacted("browsers", policy, fs)
           own   == CollectBrowsers(w, b)
           apps  == CollectApplications(w, b)
<1>1. CASE "browsers" \in b.garbled
  <2>1. own[PolicyFact].partial
    BY <1>1, BrowsersFacts, Zenon
  <2>2. fs[PolicyFact].partial
    BY <2>1, BrowsersFamilyFacts, Zenon
  <2>3. PolicyFact \in RequiredFacts[c]
    <3>1. RequiredFacts[c] = IF c = "browser-java-blocked" THEN {PolicyFact, JavaFact}
                             ELSE {PolicyFact}
      BY BrowserCheck, Zenon
    <3> QED
      BY <3>1
  <2> HIDE DEF fs
  <2>4. ~Complete(fs, RequiredFacts[c])
    BY <2>2, <2>3, PartialIsIncomplete
  <2> QED
    BY <2>4, Zenon DEF fs
<1>2. CASE "applications" \in b.garbled
  <2>1. DOMAIN fs = {PolicyFact, JavaFact} \cup IF w.inventoried THEN {AppsFact} ELSE {}
    BY BrowsersFamilyFacts, Zenon
  <2>2. w.inventoried => fs[AppsFact] = apps[AppsFact]
    BY BrowsersFamilyFacts, Zenon
  <2>3. apps[AppsFact].value = {}
    BY <1>2, ApplicationsFacts, Zenon
  <2>4. again = RedactBrowsers(policy, fs)
    BY Zenon DEF Redacted
  <2>5. DOMAIN again = DOMAIN fs
    <3>1. "browsers" \in Families
      BY DEF Families
    <3> QED
      BY <3>1, RedactedKeeps
  <2> HIDE DEF fs, again, apps
  <2>6. AppsFact # PolicyFact /\ AppsFact # JavaFact
    BY DEF AppsFact, PolicyFact, JavaFact
  <2>7. \A k \in DOMAIN fs \ {PolicyFact} : again[k] = fs[k]
    <3>1. PolicyFact \in DOMAIN fs
      BY <2>1
    <3> QED
      BY <2>4, <3>1, BrowsersRedacted
  <2>8. InstalledBrowsers(again) = {}
    <3>1. CASE AppsFact \in DOMAIN again
      <4>1. again[AppsFact].value = {}
        BY <2>1, <2>2, <2>3, <2>5, <2>6, <2>7, <3>1
      <4> QED
        BY <3>1, <4>1 DEF InstalledBrowsers
    <3>2. CASE AppsFact \notin DOMAIN again
      BY <3>2 DEF InstalledBrowsers
    <3> QED
      BY <3>1, <3>2
  <2>9. \A reason : CannotTell(reason).says = "unassessed"
    BY DEF CannotTell, Outcome
  <2>10. BrowsersJudge(c, again).says = "unassessed"
    <3>1. c \in {"browser-ads-blocked", "browser-java-blocked", "browser-settings-locked"}
      BY DEF BrowserChecks
    <3>2. AdvertisementsNotProcessed(again).says = "unassessed"
      BY <2>8, <2>9 DEF AdvertisementsNotProcessed
    <3>3. JavaNotProcessed(again).says = "unassessed"
      BY <2>8, <2>9 DEF JavaNotProcessed
    <3>4. SecuritySettingsLocked(again).says = "unassessed"
      BY <2>8, <2>9 DEF SecuritySettingsLocked
    <3> QED
      BY <2>9, <3>1, <3>2, <3>3, <3>4 DEF BrowsersJudge
  <2>11. Evaluator(c, again) = BrowsersJudge(c, again)
    BY BrowserCheck, Zenon
  <2> QED
    BY <2>10, <2>11, Zenon DEF again, fs
<1> QED
  BY <1>1, <1>2

LEMMA UnreadApplications ==
  ASSUME NEW w, NEW b, NEW c \in ApplicationChecks, "applications" \in b.garbled
  PROVE  ~Complete(CollectFamily("browsers", w, b), RequiredFacts[c])
<1> DEFINE fs   == CollectFamily("browsers", w, b)
           apps == CollectApplications(w, b)
<1>1. apps[AppsFact].partial
  BY ApplicationsFacts, Zenon
<1>2. /\ DOMAIN fs = {PolicyFact, JavaFact} \cup IF w.inventoried THEN {AppsFact} ELSE {}
      /\ w.inventoried => fs[AppsFact] = apps[AppsFact]
  BY BrowsersFamilyFacts, Zenon
<1>3. RequiredFacts[c] = {AppsFact}
  BY ApplicationCheck, Zenon
<1>4. AppsFact # PolicyFact /\ AppsFact # JavaFact
  BY DEF AppsFact, PolicyFact, JavaFact
<1> HIDE DEF fs, apps
<1>5. AppsFact \in DOMAIN fs => fs[AppsFact].partial
  BY <1>1, <1>2, <1>4
<1> QED
  BY <1>3, <1>5, PartialIsIncomplete DEF fs

LEMMA UnreadWindows ==
  ASSUME NEW w, NEW b, NEW c \in WindowsBaseChecks,
         IF c = "ie11-disabled" THEN "features" \in b.garbled \cup b.skipped
         ELSE "release" \in b.garbled
  PROVE  LET fs == CollectWindowsBase(w, b)
         IN  ~Complete(fs, RequiredFacts[c]) \/ Evaluator(c, fs).says = "unassessed"
<1> DEFINE fs == CollectWindowsBase(w, b)
<1>1. RequiredFacts[c] = IF c = "ie11-disabled" THEN {FeaturesFact} ELSE {ReleaseFact}
  BY WindowsBaseCheck, Zenon
<1>2. CASE c # "ie11-disabled"
  <2>1. fs[ReleaseFact].partial
    BY <1>2, WindowsFacts, Zenon
  <2> HIDE DEF fs
  <2>2. ~Complete(fs, RequiredFacts[c])
    BY <1>1, <1>2, <2>1, PartialIsIncomplete
  <2> QED
    BY <2>2, Zenon DEF fs
<1>3. CASE c = "ie11-disabled" /\ "features" \in b.garbled
  <2>1. fs[FeaturesFact].partial
    <3>1. fs[FeaturesFact].partial <=> "features" \in b.garbled \cup b.hidden
      BY WindowsFacts, Zenon
    <3> HIDE DEF fs
    <3> QED
      BY <1>3, <3>1
  <2> HIDE DEF fs
  <2>2. ~Complete(fs, RequiredFacts[c])
    BY <1>1, <1>3, <2>1, PartialIsIncomplete
  <2> QED
    BY <2>2, Zenon DEF fs
<1>4. CASE c = "ie11-disabled" /\ "features" \in b.skipped
  <2> DEFINE listed == "features" \notin b.garbled \cup b.hidden /\ "features" \notin b.skipped
             value  == [empty |-> ~listed, ie |-> IF listed THEN w.ie ELSE "absent"]
  <2>1. fs[FeaturesFact].value = value
    BY WindowsFacts, Zenon
  <2>2. ~listed
    BY <1>4
  <2> HIDE DEF fs, listed
  <2>3. value.empty
    BY <2>2
  <2> HIDE DEF value
  <2>4. Ie11Disabled(fs) = CannotTell("collection-error")
    BY <2>1, <2>3 DEF Ie11Disabled
  <2>5. Evaluator(c, fs) = WindowsBaseJudge(c, fs)
    BY WindowsBaseCheck, Zenon
  <2>6. WindowsBaseJudge(c, fs) = Ie11Disabled(fs)
    BY <1>4 DEF WindowsBaseJudge
  <2>7. CannotTell("collection-error").says = "unassessed"
    BY DEF CannotTell, Outcome
  <2> QED
    BY <2>4, <2>5, <2>6, <2>7, Zenon DEF fs
<1> QED
  BY <1>2, <1>3, <1>4

LEMMA UnreadTenant ==
  ASSUME NEW w, NEW b, NEW c \in EntraChecks,
         IF c = "mfa-factor-types" THEN "methods" \in b.garbled ELSE "policies" \in b.garbled
  PROVE  ~Complete(CollectEntraId(w, b), RequiredFacts[c])
<1> DEFINE fs == CollectEntraId(w, b)
<1>1. /\ fs[MethodsFact].partial <=> "methods" \in b.garbled
      /\ "policies" \in b.garbled => fs[PoliciesFact].partial
  BY EntraFacts, Zenon
<1>2. RequiredFacts[c] = IF c = "mfa-factor-types" THEN {MethodsFact} ELSE {PoliciesFact}
  BY EntraCheck, Zenon
<1> HIDE DEF fs
<1>3. \E k \in RequiredFacts[c] : fs[k].partial
  BY <1>1, <1>2
<1> QED
  BY <1>3, PartialIsIncomplete DEF fs

\* A family's checks by their sources.
LEMMA UnreadSource ==
  ASSUME PathInv, NEW c, Judged(c),
         (blind.garbled \cup (blind.skipped \cap {"features"})) \cap SourcesOf(c) # {}
  PROVE  ~Complete(Collected, RequiredFacts[c]) \/ Evaluator(c, Written).says = "unassessed"
<1> DEFINE unread == blind.garbled \cup (blind.skipped \cap {"features"})
           w      == case.world
<1>1. case.family \in Families /\ c \in ChecksOf(case.family)
  BY JudgedOnWritten, Zenon
<1>2. blind.garbled \subseteq ScriptsOf(case.family)
  BY <1>1, JudgedOnWritten, UnreadableAssumption, Zenon
<1>3. PICK s \in unread : s \in SourcesOf(c)
  OBVIOUS
<1>4. CASE case.family = "office" /\ c \in OfficeChecks
  <2>1. Collected = CollectOffice(w, blind)
    BY <1>4, Zenon DEF Collected, CollectFamily
  <2>2. SourcesOf(c) = IF w.product = "click-to-run" THEN {"install", "policy"} ELSE {"install"}
    BY <1>4 DEF SourcesOf, OfficeChecks, OnPaths, AppControlChecks, BrowserChecks,
                ApplicationChecks, ReleaseChecks
  <2>3. "install" \in blind.garbled \/ (w.product = "click-to-run" /\ "policy" \in blind.garbled)
    BY <1>3, <2>2
  <2> QED
    BY <1>4, <2>1, <2>3, UnreadOffice
<1>5. CASE case.family = "appcontrol" /\ c \in AppControlChecks
  <2>1. Collected = CollectAppControl(w, blind)
    BY <1>5, Zenon DEF Collected, CollectFamily
  <2>2. SourcesOf(c) = IF c \in OnPaths THEN {"state", "paths"} ELSE {"state"}
    BY <1>5 DEF SourcesOf, OfficeChecks, OnPaths, AppControlChecks, BrowserChecks,
                ApplicationChecks, ReleaseChecks
  <2>3. "state" \in blind.garbled \/ (c \in OnPaths /\ "paths" \in blind.garbled)
    BY <1>3, <2>2
  <2> QED
    BY <1>5, <2>1, <2>3, UnreadAppControl
<1>6. CASE case.family = "browsers" /\ c \in BrowserChecks
  <2>1. Collected = CollectFamily("browsers", w, blind)
    BY <1>6, Zenon DEF Collected
  <2>2. SourcesOf(c) = {"browsers", "applications"}
    BY <1>6 DEF SourcesOf, OfficeChecks, OnPaths, AppControlChecks, BrowserChecks,
                ApplicationChecks, ReleaseChecks
  <2>3. blind.garbled \cap {"browsers", "applications"} # {}
    BY <1>3, <2>2
  <2>4. Written = Redacted("browsers", case.policy, CollectFamily("browsers", w, blind))
    BY <1>6, <2>1, Zenon DEF Written
  <2>5. \/ ~Complete(CollectFamily("browsers", w, blind), RequiredFacts[c])
        \/ Evaluator(c, Redacted("browsers", case.policy,
                                 CollectFamily("browsers", w, blind))).says = "unassessed"
    BY <1>6, <2>3, UnreadBrowsers
  <2> QED
    BY <2>1, <2>4, <2>5, Zenon
<1>7. CASE case.family = "browsers" /\ c \in ApplicationChecks
  <2>1. Collected = CollectFamily("browsers", w, blind)
    BY <1>7, Zenon DEF Collected
  <2>2. SourcesOf(c) = {"applications"}
    BY <1>7 DEF SourcesOf, OfficeChecks, OnPaths, AppControlChecks, BrowserChecks,
                ApplicationChecks, ReleaseChecks
  <2>3. "applications" \in blind.garbled
    BY <1>3, <2>2
  <2> QED
    BY <1>7, <2>1, <2>3, UnreadApplications, Zenon
<1>8. CASE case.family = "windows" /\ c \in WindowsBaseChecks
  <2>1. Collected = CollectWindowsBase(w, blind)
    BY <1>8, Zenon DEF Collected, CollectFamily
  <2>2. SourcesOf(c) = IF c = "ie11-disabled" THEN {"features"} ELSE {"release"}
    BY <1>8 DEF SourcesOf, OfficeChecks, OnPaths, AppControlChecks, BrowserChecks,
                ApplicationChecks, ReleaseChecks, WindowsBaseChecks
  <2>3. IF c = "ie11-disabled" THEN "features" \in blind.garbled \cup blind.skipped
        ELSE "release" \in blind.garbled
    BY <1>3, <2>2
  <2>4. Written = Collected
    BY <1>8, Zenon DEF Written, Redacted
  <2> QED
    BY <1>8, <2>1, <2>3, <2>4, UnreadWindows, Zenon
<1>9. CASE case.family = "linux" /\ c \in ReleaseChecks
  <2>1. SourcesOf(c) = {"release"}
    BY <1>9 DEF SourcesOf, OfficeChecks, OnPaths, AppControlChecks, BrowserChecks,
                ApplicationChecks, ReleaseChecks
  <2>2. ScriptsOf(case.family) = {}
    BY <1>9, Zenon DEF ScriptsOf
  <2> QED
    BY <1>2, <1>3, <2>1, <2>2
<1>10. CASE case.family = "tenant" /\ c \in EntraChecks
  <2>1. Collected = CollectEntraId(w, blind)
    BY <1>10, Zenon DEF Collected, CollectFamily
  <2>2. SourcesOf(c) = IF c = "mfa-factor-types" THEN {"methods"} ELSE {"policies"}
    BY <1>10 DEF SourcesOf, OfficeChecks, OnPaths, AppControlChecks, BrowserChecks,
                ApplicationChecks, ReleaseChecks, EntraChecks
  <2>3. IF c = "mfa-factor-types" THEN "methods" \in blind.garbled ELSE "policies" \in blind.garbled
    BY <1>3, <2>2
  <2> QED
    BY <1>10, <2>1, <2>3, UnreadTenant
<1> QED
  BY <1>1, <1>4, <1>5, <1>6, <1>7, <1>8, <1>9, <1>10, FamilyChecks

LEMMA UnreadHolds == PathInv => UnreadIsNeverJudged
<1> SUFFICES ASSUME PathInv, NEW c \in AllChecks, Judged(c),
                    (blind.garbled \cup (blind.skipped \cap {"features"})) \cap SourcesOf(c) # {}
             PROVE  Status(c) \notin {"satisfied", "not-satisfied", "not-applicable"}
  BY DEF UnreadIsNeverJudged
<1>1. ~Complete(Collected, RequiredFacts[c]) \/ Evaluator(c, Written).says = "unassessed"
  BY UnreadSource, Zenon
<1>2. case.family \in Families /\ Status(c) = Eval!JudgeCheck(c, Written, {}).status
  BY JudgedOnWritten, Zenon
<1>3. Complete(Written, RequiredFacts[c]) <=> Complete(Collected, RequiredFacts[c])
  BY <1>2, RedactedIsAsComplete, Zenon DEF Written, Collected
<1>4. Eval!JudgeCheck(c, Written, {}).status \notin {"satisfied", "not-satisfied", "not-applicable"}
  BY <1>1, <1>3, NoVerdict, Zenon
<1> QED
  BY <1>2, <1>4

\* "Could not ask" is never "asked, and there is none": when the output of a
\* script that a check cannot do without could not be used, the check reaches no
\* verdict, whatever the subject and whatever else was read.
\* docs/adr/0017; ps_object.py:49-121; os_state.py:36-65
THEOREM UnreadIsNeverJudgedAlways == Spec => []UnreadIsNeverJudged
BY PathTaken, UnreadHolds, PTL

-----------------------------------------------------------------------------
(* What an evaluator can answer.                                           *)

\* A verdict for or against, on known facts, or a known reason for none.
Answer(o) ==
  \/ \E k \in Confidences, x \in SUBSET FactKeys : o \in {Satisfied(k, x), NotSatisfied(k, x)}
  \/ \E r \in Reasons : o = CannotTell(r)

LEMMA AnswerForms ==
  /\ \A k \in {"direct", "proxy", "partial"}, x \in SUBSET FactKeys :
       Answer(Satisfied(k, x)) /\ Answer(NotSatisfied(k, x))
  /\ Answer(CannotTell("collection-error"))
  /\ Answer(CannotTell("partial-population"))
  /\ Answer(CannotTell("insufficient-privilege"))
  /\ Answer(CannotTell("unsupported-platform"))
<1>1. {"direct", "proxy", "partial"} \subseteq Confidences
  BY DEF Confidences
<1>2. {"collection-error", "partial-population", "insufficient-privilege", "unsupported-platform"}
        \subseteq Reasons
  BY DEF Reasons
<1>3. ASSUME NEW k \in {"direct", "proxy", "partial"}, NEW x \in SUBSET FactKeys
      PROVE  Answer(Satisfied(k, x)) /\ Answer(NotSatisfied(k, x))
  <2>1. k \in Confidences
    BY <1>1
  <2> QED
    BY <2>1, Zenon DEF Answer
<1>4. ASSUME NEW r \in Reasons PROVE Answer(CannotTell(r))
  BY Zenon DEF Answer
<1> QED
  BY <1>2, <1>3, <1>4

LEMMA OfficeAnswers ==
  ASSUME NEW c \in OfficeChecks, NEW fs
  PROVE  \/ Answer(OfficeJudge(c, fs))
         \/ /\ OfficeJudge(c, fs) = OutOfPopulation({InstallFact})
            /\ Usable(fs, InstallFact) /\ ~fs[InstallFact].value
<1> DEFINE guard  == OfficeGuard(fs)
           policy == fs[MacroFact].value
<1>1. OfficeCites \in SUBSET FactKeys
  BY FactKeysAssumption DEF OfficeCites
<1>2. CASE guard # Proceed
  <2>1. OfficeJudge(c, fs) = guard
    BY <1>2, Zenon DEF OfficeJudge
  <2>2. \/ guard = CannotTell("collection-error")
        \/ guard = OutOfPopulation({InstallFact}) /\ Usable(fs, InstallFact) /\ ~fs[InstallFact].value
    BY <1>2, Zenon DEF OfficeGuard
  <2> QED
    BY <2>1, <2>2, AnswerForms
<1>3. CASE guard = Proceed
  <2> HIDE DEF policy
  <2>1. \A failing, gap \in BOOLEAN : \A k \in {"proxy", "partial"} : Answer(MacroVerdict(failing, gap, k))
    BY <1>1, AnswerForms DEF MacroVerdict
  <2>2. Answer(MacroInternetBlocked(policy))
    BY <2>1 DEF MacroInternetBlocked
  <2>3. Answer(MacroSettingsLocked(policy))
    BY <2>1 DEF MacroSettingsLocked
  <2>4. Answer(MacrosDisabled(policy))
    BY <2>1 DEF MacrosDisabled
  <2>5. Answer(MacroAntivirusScanning(policy))
    BY <2>1, AnswerForms DEF MacroAntivirusScanning
  <2>6. Answer(CASE c = "macro-internet-blocked" -> MacroInternetBlocked(policy)
                 [] c = "macro-settings-locked"  -> MacroSettingsLocked(policy)
                 [] c = "macros-disabled"        -> MacrosDisabled(policy)
                 [] c = "macro-av-scanning"      -> MacroAntivirusScanning(policy))
    BY <2>2, <2>3, <2>4, <2>5 DEF OfficeChecks
  <2> QED
    BY <1>3, <2>6, Zenon DEF OfficeJudge, policy
<1> QED
  BY <1>2, <1>3

LEMMA AppControlAnswers ==
  ASSUME NEW c \in AppControlChecks, NEW fs
  PROVE  Answer(AppControlJudge(c, fs))
<1> DEFINE state == fs[StateFact].value
           paths == fs[PathsFact].value
           guard == IF c = "application-control-user-writable-paths"
                    THEN PathsGuard(fs) ELSE StateGuard(fs)
           cites == {StateFact, PathsFact}
<1>1. {StateFact} \in SUBSET FactKeys /\ {StateFact, PathsFact} \in SUBSET FactKeys
  BY FactKeysAssumption
<1>2. CASE guard # Proceed
  <2>1. AppControlJudge(c, fs) = guard
    BY <1>2, Zenon DEF AppControlJudge
  <2>2. guard \in {CannotTell("collection-error"), CannotTell("partial-population")}
    BY <1>2 DEF PathsGuard, StateGuard
  <2> QED
    BY <2>1, <2>2, AnswerForms
<1>3. CASE guard = Proceed
  <2> HIDE DEF state, paths
  <2>1. Answer(ApplicationControlImplemented(state))
    BY <1>1, AnswerForms DEF ApplicationControlImplemented
  <2>2. Answer(FileTypesCovered(state))
    BY <1>1, AnswerForms DEF FileTypesCovered
  <2>3. Answer(UserWritablePathsControlled(state, paths))
    <3>1. \/ UserWritablePathsControlled(state, paths) = CannotTell("insufficient-privilege")
          \/ UserWritablePathsControlled(state, paths) = NotSatisfied("partial", {StateFact, PathsFact})
          \/ UserWritablePathsControlled(state, paths) = CannotTell("collection-error")
          \/ UserWritablePathsControlled(state, paths) = CannotTell("partial-population")
          \/ UserWritablePathsControlled(state, paths) = Satisfied("partial", {StateFact, PathsFact})
      BY DEF UserWritablePathsControlled
    <3> QED
      BY <1>1, <3>1, AnswerForms
  <2>4. Answer(CASE c = "application-control-implemented" -> ApplicationControlImplemented(state)
                 [] c = "application-control-file-types"  -> FileTypesCovered(state)
                 [] c = "application-control-user-writable-paths" ->
                      UserWritablePathsControlled(state, paths))
    BY <2>1, <2>2, <2>3 DEF AppControlChecks
  <2> QED
    BY <1>3, <2>4, Zenon DEF AppControlJudge, state, paths
<1> QED
  BY <1>2, <1>3

LEMMA BrowsersAnswers ==
  ASSUME NEW c \in BrowserChecks, NEW fs
  PROVE  Answer(BrowsersJudge(c, fs))
<1>1. BrowserCites(fs) \in SUBSET FactKeys /\ BrowserCites(fs) \cup {JavaFact} \in SUBSET FactKeys
  BY FactKeysAssumption DEF BrowserCites
<1>2. \A k \in {"proxy", "partial"}, x \in SUBSET FactKeys : Answer(UnlessGap(fs, k, x))
  BY AnswerForms DEF UnlessGap
<1>3. Answer(AdvertisementsNotProcessed(fs))
  BY <1>1, <1>2, AnswerForms DEF AdvertisementsNotProcessed
<1>4. Answer(JavaNotProcessed(fs))
  BY <1>1, <1>2, AnswerForms DEF JavaNotProcessed
<1>5. Answer(SecuritySettingsLocked(fs))
  BY <1>1, <1>2, AnswerForms DEF SecuritySettingsLocked
<1> QED
  BY <1>3, <1>4, <1>5, AnswerForms DEF BrowsersJudge, BrowserChecks

LEMMA ApplicationAnswers ==
  ASSUME NEW fs
  PROVE  Answer(UnsupportedAppsRemoved(fs))
<1>1. {AppsFact} \in SUBSET FactKeys
  BY FactKeysAssumption
<1> QED
  BY <1>1, AnswerForms DEF UnsupportedAppsRemoved

LEMMA WindowsBaseAnswers ==
  ASSUME NEW c \in WindowsBaseChecks, NEW fs
  PROVE  Answer(WindowsBaseJudge(c, fs))
<1>1. /\ {ReleaseFact} \in SUBSET FactKeys
      /\ {FeaturesFact, IePolicyFact} \cap DOMAIN fs \in SUBSET FactKeys
  BY FactKeysAssumption
<1>2. \A value : Answer(OsVendorSupported(value))
  BY <1>1, AnswerForms, Zenon DEF OsVendorSupported
<1>3. Answer(Ie11Disabled(fs))
  BY <1>1, AnswerForms DEF Ie11Disabled
<1> QED
  BY <1>2, <1>3, AnswerForms DEF WindowsBaseJudge, WindowsBaseChecks

LEMMA EntraAnswers ==
  ASSUME NEW c \in EntraChecks, NEW fs
  PROVE  Answer(EntraJudge(c, fs))
<1>1. /\ {MethodsFact} \in SUBSET FactKeys
      /\ {PoliciesFact, StrengthsFact} \cap DOMAIN fs \in SUBSET FactKeys
  BY FactKeysAssumption
<1>2. Answer(MfaFactorTypes(fs))
  BY <1>1, AnswerForms DEF MfaFactorTypes
<1>3. Answer(MfaRequired(fs))
  <2> DEFINE cites == {PoliciesFact, StrengthsFact} \cap DOMAIN fs
  <2>1. \/ MfaRequired(fs) = CannotTell("collection-error")
        \/ MfaRequired(fs) = CannotTell("partial-population")
        \/ MfaRequired(fs) = Satisfied("proxy", cites)
        \/ MfaRequired(fs) = NotSatisfied("proxy", cites)
    BY Zenon DEF MfaRequired
  <2> HIDE DEF cites
  <2>2. cites \in SUBSET FactKeys
    BY <1>1 DEF cites
  <2> QED
    BY <2>1, <2>2, AnswerForms
<1> QED
  BY <1>2, <1>3 DEF EntraJudge, EntraChecks

LEMMA EvaluatorAnswers ==
  ASSUME NEW family \in Families, NEW c \in ChecksOf(family), NEW fs
  PROVE  \/ Answer(Evaluator(c, fs))
         \/ /\ family = "office"
            /\ Evaluator(c, fs) = OutOfPopulation({InstallFact})
            /\ Usable(fs, InstallFact) /\ ~fs[InstallFact].value
<1>1. CASE family = "office" /\ c \in OfficeChecks
  <2>1. Evaluator(c, fs) = OfficeJudge(c, fs)
    BY <1>1, OfficeCheck
  <2> QED
    BY <1>1, <2>1, OfficeAnswers
<1>2. CASE c \in AppControlChecks
  BY <1>2, AppControlCheck, AppControlAnswers, Zenon
<1>3. CASE c \in BrowserChecks
  BY <1>3, BrowserCheck, BrowsersAnswers, Zenon
<1>4. CASE c \in ApplicationChecks
  BY <1>4, ApplicationCheck, ApplicationAnswers, Zenon
<1>5. CASE c \in WindowsBaseChecks
  BY <1>5, WindowsBaseCheck, WindowsBaseAnswers, Zenon
<1>6. CASE c \in EntraChecks
  BY <1>6, EntraCheck, EntraAnswers, Zenon
<1>7. ReleaseChecks \subseteq WindowsBaseChecks
  BY DEF ReleaseChecks, WindowsBaseChecks
<1> QED
  BY <1>1, <1>2, <1>3, <1>4, <1>5, <1>6, <1>7, FamilyChecks

\* An answer is for or against on known facts, or none for a known reason.
LEMMA AnswerSays ==
  ASSUME NEW o, Answer(o)
  PROVE  /\ o.says \in {"satisfied", "not-satisfied", "unassessed"}
         /\ o.confidence \in Confidences
         /\ o.reason \in Reasons
         /\ o.cites \subseteq FactKeys
<1>1. CASE \E k \in Confidences, x \in SUBSET FactKeys : o \in {Satisfied(k, x), NotSatisfied(k, x)}
  <2>1. PICK k \in Confidences, x \in SUBSET FactKeys : o \in {Satisfied(k, x), NotSatisfied(k, x)}
    BY <1>1
  <2> QED
    BY <2>1 DEF Satisfied, NotSatisfied, Outcome, Ignored, Reasons
<1>2. CASE \E r \in Reasons : o = CannotTell(r)
  <2>1. PICK r \in Reasons : o = CannotTell(r)
    BY <1>2
  <2>2. "direct" \in Confidences
    BY DEF Confidences
  <2> QED
    BY <2>1, <2>2 DEF CannotTell, Outcome
<1> QED
  BY <1>1, <1>2 DEF Answer

-----------------------------------------------------------------------------
(* Who leaves the population.                                              *)

LEMMA NotApplicableHolds == PathInv => NotApplicableOnlyWhenAbsent
<1> SUFFICES ASSUME PathInv, NEW c \in AllChecks, Judged(c), Status(c) = "not-applicable"
             PROVE  case.family = "office" /\ case.world.product # "click-to-run"
  BY DEF NotApplicableOnlyWhenAbsent
<1> DEFINE said == Evaluator(c, Written)
           w    == case.world
<1>1. /\ case.family \in Families /\ c \in ChecksOf(case.family)
      /\ Eval!JudgeCheck(c, Written, {}).status = "not-applicable"
  BY JudgedOnWritten, Zenon
<1>2. said.says = "not-applicable"
  BY <1>1, StatusIsSaid, Zenon
<1>3. ~Answer(said)
  <2> HIDE DEF said
  <2> QED
    BY <1>2, AnswerSays
<1>4. /\ case.family = "office"
      /\ Usable(Written, InstallFact) /\ ~Written[InstallFact].value
  BY <1>1, <1>3, EvaluatorAnswers, Zenon
<1>5. Collected = CollectOffice(w, blind) /\ Written = RedactOffice(case.policy, Collected)
  BY <1>4, Zenon DEF Collected, CollectFamily, Written, Redacted
<1>6. /\ DOMAIN Collected = {InstallFact, MacroFact}
      /\ Collected[InstallFact].partial <=> "install" \in blind.garbled
      /\ Collected[InstallFact].value <=>
           "install" \notin blind.garbled /\ w.product = "click-to-run"
  BY <1>5, OfficeFacts, Zenon
<1>7. Written[InstallFact] = Collected[InstallFact]
  <2>1. InstallFact # MacroFact
    BY DEF InstallFact, MacroFact
  <2>2. InstallFact \in DOMAIN Collected \ {MacroFact} /\ MacroFact \in DOMAIN Collected
    BY <1>6, <2>1
  <2> QED
    BY <1>5, <2>2, OfficeRedacted
<1>8. ~Collected[InstallFact].partial /\ ~Collected[InstallFact].value
  BY <1>4, <1>7, Zenon DEF Usable
<1> QED
  BY <1>4, <1>6, <1>8, Zenon

\* A host leaves the population of the Office checks only when there is no Office
\* on it that could be found, and no other check ever leaves a subject out.
\* office.py:46-63; collect_windows_office/tasks/main.yml
THEOREM NotApplicableOnlyWhenAbsentAlways == Spec => []NotApplicableOnlyWhenAbsent
BY PathTaken, NotApplicableHolds, PTL

-----------------------------------------------------------------------------
(* Types.                                                                  *)

LEMMA CollectedIsSomething ==
  ASSUME NEW family \in Families, NEW w, NEW b
  PROVE  DOMAIN CollectFamily(family, w, b) # {}
<1> DEFINE fs == CollectFamily(family, w, b)
<1>1. CASE family = "office"
  <2>1. fs = CollectOffice(w, b)
    BY <1>1, Zenon DEF CollectFamily
  <2>2. DOMAIN fs = {InstallFact, MacroFact}
    BY <2>1, OfficeFacts, Zenon
  <2> HIDE DEF fs
  <2> QED
    BY <2>2 DEF fs
<1>2. CASE family = "appcontrol"
  <2>1. fs = CollectAppControl(w, b)
    BY <1>2, Zenon DEF CollectFamily
  <2>2. DOMAIN fs = {StateFact, PathsFact}
    BY <2>1, AppControlFacts, Zenon
  <2> HIDE DEF fs
  <2> QED
    BY <2>2 DEF fs
<1>3. CASE family = "browsers"
  <2>1. DOMAIN fs = {PolicyFact, JavaFact} \cup IF w.inventoried THEN {AppsFact} ELSE {}
    BY <1>3, BrowsersFamilyFacts, Zenon
  <2> HIDE DEF fs
  <2> QED
    BY <2>1 DEF fs
<1>4. CASE family = "windows"
  <2>1. fs = CollectWindowsBase(w, b)
    BY <1>4, Zenon DEF CollectFamily
  <2>2. DOMAIN fs = {FeaturesFact, IePolicyFact, ReleaseFact}
    BY <2>1, WindowsFacts, Zenon
  <2> HIDE DEF fs
  <2> QED
    BY <2>2 DEF fs
<1>5. CASE family = "linux"
  <2>1. fs = CollectLinuxBase(w, b)
    BY <1>5, Zenon DEF CollectFamily
  <2>2. DOMAIN fs = {ReleaseFact}
    BY <2>1, LinuxFacts, Zenon
  <2> HIDE DEF fs
  <2> QED
    BY <2>2 DEF fs
<1>6. CASE family = "tenant"
  <2>1. fs = CollectEntraId(w, b)
    BY <1>6, Zenon DEF CollectFamily
  <2>2. DOMAIN fs = {MethodsFact, PoliciesFact, StrengthsFact}
    BY <2>1, EntraFacts, Zenon
  <2> HIDE DEF fs
  <2> QED
    BY <2>2 DEF fs
<1> QED
  BY <1>1, <1>2, <1>3, <1>4, <1>5, <1>6 DEF Families

LEMMA ConstructedIsAResult ==
  ASSUME NEW said,
         said.says \in {"satisfied", "not-satisfied", "not-applicable", "unassessed"},
         said.confidence \in Confidences, said.reason \in Reasons, said.cites \subseteq FactKeys
  PROVE  Eval!Construct(said) \in Result
<1>1. Eval!Verdict(said.says, said.confidence, said.cites) \in Result
        \/ said.says \notin {"satisfied", "not-satisfied"}
  BY DEF Eval!Verdict, Eval!None, Result, None, Statuses, Determinate
<1>2. Eval!NotApplicable(said.cites) \in Result
  BY DEF Eval!NotApplicable, Eval!Verdict, Eval!None, Result, None, Statuses, Determinate
<1>3. Eval!Unassessed(said.reason) \in Result
  BY DEF Eval!Unassessed, Eval!None, Result, None, Statuses, Determinate
<1>4. Eval!ErrorResult \in Result
  BY DEF Eval!ErrorResult, Eval!None, Result, None, Statuses, Determinate, Reasons
<1> QED
  BY <1>1, <1>2, <1>3, <1>4 DEF Eval!Construct

LEMMA GuardIsAResult ==
  ASSUME NEW fs, NEW keys, Eval!Require(fs, keys) # Eval!NoResult
  PROVE  Eval!Require(fs, keys) \in Result
<1>1. {"collection-error", "partial-population"} \subseteq Reasons
  BY DEF Reasons
<1>2. \A r \in Reasons : Eval!Unassessed(r) \in Result
  BY DEF Eval!Unassessed, Eval!None, Result, None, Statuses, Determinate
<1> QED
  BY <1>1, <1>2 DEF Eval!Require

LEMMA CappedIsAResult ==
  ASSUME NEW r \in Result, NEW ceiling \in Confidences
  PROVE  Eval!WithConfidenceCeiling(r, ceiling) \in Result
<1>1. CASE r.confidence = Eval!None
  BY <1>1 DEF Eval!WithConfidenceCeiling
<1>2. CASE r.confidence # Eval!None
  <2>1. r.confidence \in Confidences
    BY <1>2 DEF Result, None, Eval!None
  <2>2. Eval!CappedBy(r.confidence, ceiling) \in Confidences
    BY <2>1, Zenon DEF Eval!CappedBy
  <2>3. Eval!WithConfidenceCeiling(r, ceiling)
          = [r EXCEPT !.confidence = Eval!CappedBy(r.confidence, ceiling)]
    BY <1>2, Zenon DEF Eval!WithConfidenceCeiling
  <2> QED
    BY <2>2, <2>3 DEF Result
<1> QED
  BY <1>1, <1>2

LEMMA VerdictIsAResult ==
  ASSUME NEW family \in Families, NEW c \in ChecksOf(family), NEW fs
  PROVE  Eval!JudgeCheck(c, fs, {}) \in Result
<1> DEFINE said    == Evaluator(c, fs)
           guard   == Eval!Require(fs, RequiredFacts[c])
           reached == IF guard # Eval!NoResult THEN guard ELSE Eval!Construct(said)
<1>1. c \in AllChecks
  BY FamilyChecks
<1>2. Eval!JudgeCheck(c, fs, {}) = Eval!WithConfidenceCeiling(reached, Ceilings[c])
  BY <1>1 DEF Eval!JudgeCheck
<1>3. Ceilings[c] \in Confidences
  BY <1>1 DEF Ceilings, Confidences
<1>4. /\ said.says \in {"satisfied", "not-satisfied", "not-applicable", "unassessed"}
      /\ said.confidence \in Confidences
      /\ said.reason \in Reasons
      /\ said.cites \subseteq FactKeys
  <2>1. CASE Answer(said)
    <3> HIDE DEF said
    <3> QED
      BY <2>1, AnswerSays
  <2>2. CASE said = OutOfPopulation({InstallFact})
    <3> HIDE DEF said
    <3> QED
      BY <2>2, FactKeysAssumption DEF OutOfPopulation, Outcome, Ignored, Confidences, Reasons
  <2> QED
    BY <2>1, <2>2, EvaluatorAnswers, Zenon
<1>5. Eval!Construct(said) \in Result
  <2> HIDE DEF said
  <2> QED
    BY <1>4, ConstructedIsAResult
<1>6. reached \in Result
  BY <1>5, GuardIsAResult, Zenon
<1> HIDE DEF reached
<1> QED
  BY <1>2, <1>3, <1>6, CappedIsAResult

LEMMA TypesHold == PathInv => TypeOK
<1> SUFFICES ASSUME PathInv PROVE TypeOK
  OBVIOUS
<1>1. case \in Cases /\ stage \in Stages /\ case.family \in Families
  BY CasesAssumption DEF PathInv
<1>2. blind \in Unreadable[case.family] \cup {EverythingRead}
  BY DEF PathInv
<1>3. DOMAIN Collected # {} /\ DOMAIN Written # {}
  BY <1>1, CollectedIsSomething, RedactedKeeps DEF Collected, Written
<1>4. DOMAIN Nothing = {}
  BY DEF Nothing
<1>5. Collected # Nothing /\ Written # Nothing
  BY <1>3, <1>4
<1>6. (facts = Nothing) = (stage \in {"start", "guarded", "refused"})
  BY <1>1, <1>5 DEF PathInv, Stages
<1>7. (bundle # Nothing) = (stage \in {"written", "judged"})
  BY <1>1, <1>5 DEF PathInv, Stages
<1>8. stage = "judged" => verdicts \in [ChecksOf(case.family) -> Result]
  <2> SUFFICES ASSUME stage = "judged" PROVE verdicts \in [ChecksOf(case.family) -> Result]
    OBVIOUS
  <2>1. verdicts = [c \in ChecksOf(case.family) |-> Eval!JudgeCheck(c, bundle, {})]
    BY Zenon DEF PathInv, VerdictsOn
  <2>2. \A c \in ChecksOf(case.family) : Eval!JudgeCheck(c, bundle, {}) \in Result
    BY <1>1, VerdictIsAResult, Zenon
  <2> QED
    BY <2>1, <2>2
<1> QED
  BY <1>1, <1>2, <1>6, <1>7, <1>8 DEF TypeOK

\* In every reachable state the variables are of their types: facts once the
\* collectors ran, a bundle once it was written, and a result of the contract per
\* check of the family.
THEOREM TypeCorrect == Spec => []TypeOK
BY PathTaken, TypesHold, PTL

-----------------------------------------------------------------------------
(* What redaction does to a verdict: nothing, where it only replaces the   *)
(* principal of a row, and where a list of unread profiles stays a list.   *)

\* Two readings of a policy that a check on macros cannot tell apart.
AlikeMacros(p, q) ==
  /\ \A r \in p.rows : \E s \in q.rows :
       r.scope = s.scope /\ r.app = s.app /\ r.value = s.value /\ r.gpo = s.gpo
  /\ p.unloaded = {} <=> q.unloaded = {}

LEMMA MacrosJudgedAlike ==
  ASSUME NEW p, NEW q, AlikeMacros(p, q), AlikeMacros(q, p)
  PROVE  /\ MacroInternetBlocked(p) = MacroInternetBlocked(q)
         /\ MacroSettingsLocked(p) = MacroSettingsLocked(q)
         /\ MacrosDisabled(p) = MacrosDisabled(q)
         /\ MacroAntivirusScanning(p) = MacroAntivirusScanning(q)
<1>1. p.unloaded # {} <=> q.unloaded # {}
  BY DEF AlikeMacros
<1>2. MacroInternetBlocked(p) = MacroInternetBlocked(q)
  <2> DEFINE open       == InScopeApps \ BlockedMachineWide(p.rows)
             failing(x) == {r \in {u \in x.rows : u.scope = "user"} :
                              r.app \in open /\ (r.value # "right" \/ ~r.gpo)}
             silent(x)  == {a \in open : \A r \in {u \in x.rows : u.scope = "user"} : r.app # a}
             fails(x)   == failing(x) # {}
             gap(x)     == silent(x) # {} \/ x.unloaded # {}
  <2>1. BlockedMachineWide(p.rows) = BlockedMachineWide(q.rows)
    BY DEF AlikeMacros, BlockedMachineWide
  <2>2. MacroInternetBlocked(p) = MacroVerdict(fails(p), gap(p), "proxy")
    BY Zenon DEF MacroInternetBlocked
  <2>3. MacroInternetBlocked(q) = MacroVerdict(fails(q), gap(q), "proxy")
    BY <2>1, Zenon DEF MacroInternetBlocked
  <2> HIDE DEF open
  <2>4. fails(p) <=> fails(q)
    BY DEF AlikeMacros
  <2>5. silent(p) = silent(q)
    BY DEF AlikeMacros
  <2>6. gap(p) <=> gap(q)
    BY <1>1, <2>5
  <2> HIDE DEF fails, gap
  <2> QED
    BY <2>2, <2>3, <2>4, <2>6 DEF MacroVerdict
<1>3. MacroSettingsLocked(p) = MacroSettingsLocked(q)
  <2> DEFINE fails(x) == \E r \in x.rows : ~r.gpo
             gap(x)   == InScopeApps \ {r.app : r \in x.rows} # {} \/ x.unloaded # {}
  <2>1. \A x : MacroSettingsLocked(x) = MacroVerdict(fails(x), gap(x), "proxy")
    BY Zenon DEF MacroSettingsLocked
  <2>2. fails(p) <=> fails(q)
    BY DEF AlikeMacros
  <2>3. {r.app : r \in p.rows} = {r.app : r \in q.rows}
    BY DEF AlikeMacros
  <2>4. gap(p) <=> gap(q)
    BY <1>1, <2>3
  <2> HIDE DEF fails, gap
  <2> QED
    BY <2>1, <2>2, <2>4 DEF MacroVerdict
<1> DEFINE valued(x) == {r \in x.rows : r.value \in {"wrong", "right"}}
           wrong(x)  == \E r \in valued(x) : r.value = "wrong"
<1>4. wrong(p) <=> wrong(q)
  BY DEF AlikeMacros
<1>5. MacrosDisabled(p) = MacrosDisabled(q)
  <2> DEFINE gap(x) == InScopeApps \ {r.app : r \in valued(x)} # {} \/ x.unloaded # {}
  <2>1. \A x : MacrosDisabled(x) = MacroVerdict(wrong(x), gap(x), "partial")
    BY Zenon DEF MacrosDisabled
  <2>2. {r.app : r \in valued(p)} = {r.app : r \in valued(q)}
    BY DEF AlikeMacros
  <2>3. gap(p) <=> gap(q)
    BY <1>1, <2>2
  <2> HIDE DEF wrong, gap
  <2> QED
    BY <1>4, <2>1, <2>3 DEF MacroVerdict
<1>6. MacroAntivirusScanning(p) = MacroAntivirusScanning(q)
  <2> DEFINE none(x) == valued(x) = {}
  <2>1. \A x : MacroAntivirusScanning(x) = IF none(x) THEN CannotTell("partial-population")
                                           ELSE MacroVerdict(wrong(x), FALSE, "proxy")
    BY Zenon DEF MacroAntivirusScanning
  <2>2. none(p) <=> none(q)
    BY DEF AlikeMacros
  <2> HIDE DEF wrong, none
  <2> QED
    BY <1>4, <2>1, <2>2 DEF MacroVerdict
<1> QED
  BY <1>2, <1>3, <1>5, <1>6

\* A list of unread profiles is not emptied by a policy that drops nothing.
LEMMA ProfilesRemain ==
  ASSUME NEW policy \in Policy, policy.sid # "drop", NEW ids, ids \subseteq {Raw(p) : p \in People}
  PROVE  RedactList(policy, <<"meta", "profiles_unloaded">>, ids) = {} <=> ids = {}
<1> DEFINE keys == <<"meta", "profiles_unloaded">>
<1>1. ASSUME NEW id \in ids PROVE Redact(policy, keys, TRUE, id) # Gone
  <2>1. PICK p \in People : id = Raw(p)
    BY <1>1
  <2>2. LooksLikeASid(id)
    BY <2>1 DEF LooksLikeASid, Raw, People, Groups, Principals
  <2>3. Len(keys) = 2 /\ keys[1] = "meta" /\ keys[2] = "profiles_unloaded"
    OBVIOUS
  <2> HIDE DEF keys
  <2>4. ActionFor(policy, keys[Len(keys)], id) = policy.sid
    BY <2>2, <2>3 DEF ActionFor, Named
  <2>5. ~\E i \in 1..Len(keys) : Named(policy, keys[i]) = "drop"
    BY <2>3 DEF Named
  <2>6. Redact(policy, keys, TRUE, id) = Apply(policy.sid, id)
    BY <2>4, <2>5 DEF Redact
  <2>7. Apply(policy.sid, id) # Gone
    BY <2>1 DEF Apply, Raw, Gone, NoSid, People
  <2> QED
    BY <2>6, <2>7
<1> DEFINE of(id) == Redact(policy, keys, TRUE, id)
           left   == {of(id) : id \in ids} \ {Gone}
<1>2. \A id \in ids : of(id) # Gone
  BY <1>1
<1> HIDE DEF of
<1>3. \A id \in ids : of(id) \in left
  BY <1>2
<1>4. left = {} <=> ids = {}
  BY <1>3
<1> QED
  BY <1>4 DEF RedactList, left, of

LEMMA UnloadedArePeople == ASSUME NEW b PROVE Unloaded(b) \subseteq {Raw(p) : p \in People}
BY DEF Unloaded

LEMMA OfficeVerdictStands ==
  ASSUME NEW policy \in Policy, policy.sid # "drop", NEW w, NEW b, NEW c \in OfficeChecks
  PROVE  LET fs == CollectOffice(w, b)
         IN  OfficeJudge(c, RedactOffice(policy, fs)) = OfficeJudge(c, fs)
<1> DEFINE fs    == CollectOffice(w, b)
           again == RedactOffice(policy, fs)
           old   == fs[MacroFact].value
           new   == again[MacroFact].value
<1>1. DOMAIN fs = {InstallFact, MacroFact}
  BY OfficeFacts, Zenon
<1>2. old.unloaded \subseteq {Raw(p) : p \in People}
  <2> DEFINE scanned == ("install" \notin b.garbled /\ w.product = "click-to-run")
                          /\ "policy" \notin b.garbled
             value   == [rows     |-> IF scanned THEN MacroRows(w, b) ELSE {},
                         unloaded |-> IF scanned THEN Unloaded(b) ELSE {}]
  <2>1. old = value
    BY OfficeFacts, Zenon
  <2>2. value.unloaded = IF scanned THEN Unloaded(b) ELSE {}
    OBVIOUS
  <2> HIDE DEF fs, value, scanned
  <2> QED
    BY <2>1, <2>2, UnloadedArePeople
<1>3. DOMAIN again = DOMAIN fs /\ \A k \in DOMAIN fs : again[k].partial = fs[k].partial
  <2>1. fs = CollectFamily("office", w, b) /\ again = Redacted("office", policy, fs)
    BY Zenon DEF CollectFamily, Redacted
  <2>2. "office" \in Families
    BY DEF Families
  <2> HIDE DEF fs, again
  <2> QED
    BY <2>1, <2>2, RedactedKeeps
<1>4. InstallFact # MacroFact
  BY DEF InstallFact, MacroFact
<1> HIDE DEF fs
<1>5. /\ again[InstallFact] = fs[InstallFact]
      /\ new.rows = {RedactMacroRow(policy, r) : r \in old.rows}
      /\ new.unloaded = RedactList(policy, <<"meta", "profiles_unloaded">>, old.unloaded)
  <2>1. InstallFact \in DOMAIN fs \ {MacroFact} /\ MacroFact \in DOMAIN fs
    BY <1>1, <1>4
  <2> QED
    BY <2>1, OfficeRedacted
<1>6. new.unloaded = {} <=> old.unloaded = {}
  BY <1>2, <1>5, ProfilesRemain
<1> HIDE DEF again, old, new
<1>7. AlikeMacros(new, old) /\ AlikeMacros(old, new)
  <2>1. \A r : LET s == RedactMacroRow(policy, r)
               IN  s.scope = r.scope /\ s.app = r.app /\ s.value = r.value /\ s.gpo = r.gpo
    BY DEF RedactMacroRow
  <2> QED
    BY <1>5, <1>6, <2>1 DEF AlikeMacros
<1>8. OfficeGuard(again) = OfficeGuard(fs)
  BY <1>1, <1>3, <1>5 DEF OfficeGuard, Usable
<1>9. /\ MacroInternetBlocked(new) = MacroInternetBlocked(old)
      /\ MacroSettingsLocked(new) = MacroSettingsLocked(old)
      /\ MacrosDisabled(new) = MacrosDisabled(old)
      /\ MacroAntivirusScanning(new) = MacroAntivirusScanning(old)
  BY <1>7, MacrosJudgedAlike, Zenon
<1>10. OfficeJudge(c, again) = OfficeJudge(c, fs)
  BY <1>8, <1>9 DEF OfficeJudge, OfficeChecks, new, old
<1> QED
  BY <1>10, Zenon DEF fs, again

LEMMA BrowsersVerdictStands ==
  ASSUME NEW policy \in Policy, policy.sid # "drop", NEW w, NEW b
  PROVE  LET fs    == CollectFamily("browsers", w, b)
             again == RedactBrowsers(policy, fs)
         IN  /\ \A c \in BrowserChecks : BrowsersJudge(c, again) = BrowsersJudge(c, fs)
             /\ UnsupportedAppsRemoved(again) = UnsupportedAppsRemoved(fs)
<1> DEFINE fs    == CollectFamily("browsers", w, b)
           again == RedactBrowsers(policy, fs)
           old   == fs[PolicyFact].value
           new   == again[PolicyFact].value
<1>1. DOMAIN fs = {PolicyFact, JavaFact} \cup IF w.inventoried THEN {AppsFact} ELSE {}
  BY BrowsersFamilyFacts, Zenon
<1>2. old.unloaded \subseteq {Raw(p) : p \in People}
  <2> DEFINE walked == "browsers" \notin b.garbled /\ "registry" \notin b.hidden
             keys   == {k \in KeysRead : k[1] \notin b.hidden \cup b.skipped /\ w.policy[k] # "absent"}
             value  == [rows     |-> IF walked THEN {BrowserRow(w, k) : k \in keys} ELSE {},
                        unloaded |-> IF walked
                                     THEN {Raw(p) : p \in People \cap (b.hidden \ b.skipped)} ELSE {}]
  <2>1. CollectBrowsers(w, b)[PolicyFact].value = value
    BY BrowsersFacts, Zenon
  <2>2. fs[PolicyFact] = CollectBrowsers(w, b)[PolicyFact]
    BY BrowsersFamilyFacts, Zenon
  <2>3. value.unloaded = IF walked
                         THEN {Raw(p) : p \in People \cap (b.hidden \ b.skipped)} ELSE {}
    OBVIOUS
  <2> HIDE DEF fs, value, walked
  <2> QED
    BY <2>1, <2>2, <2>3
<1>3. DOMAIN again = DOMAIN fs /\ \A k \in DOMAIN fs : again[k].partial = fs[k].partial
  <2>1. again = Redacted("browsers", policy, fs)
    BY Zenon DEF Redacted
  <2>2. "browsers" \in Families
    BY DEF Families
  <2> HIDE DEF again
  <2> QED
    BY <2>1, <2>2, RedactedKeeps
<1>4. JavaFact # PolicyFact /\ AppsFact # PolicyFact /\ AppsFact # JavaFact
  BY DEF AppsFact, PolicyFact, JavaFact
<1> HIDE DEF fs
<1>5. /\ \A k \in DOMAIN fs \ {PolicyFact} : again[k] = fs[k]
      /\ new.rows = {RedactBrowserRow(policy, r) : r \in old.rows}
      /\ new.unloaded = RedactList(policy, <<"meta", "profiles_unloaded">>, old.unloaded)
  <2>1. PolicyFact \in DOMAIN fs
    BY <1>1
  <2> QED
    BY <2>1, BrowsersRedacted
<1>6. new.unloaded = {} <=> old.unloaded = {}
  BY <1>2, <1>5, ProfilesRemain
<1> HIDE DEF again
<1>7. again[JavaFact] = fs[JavaFact] /\ (AppsFact \in DOMAIN fs => again[AppsFact] = fs[AppsFact])
  BY <1>1, <1>4, <1>5
<1>8. \A r : LET s == RedactBrowserRow(policy, r)
             IN  s.browser = r.browser /\ s.level = r.level /\ s.content = r.content
  BY DEF RedactBrowserRow
<1>9. UnsupportedAppsRemoved(again) = UnsupportedAppsRemoved(fs)
  <2>1. CASE AppsFact \in DOMAIN fs
    <3>1. again[AppsFact] = fs[AppsFact] /\ AppsFact \in DOMAIN again
      BY <1>3, <1>7, <2>1
    <3> QED
      BY <2>1, <3>1 DEF UnsupportedAppsRemoved
  <2>2. CASE AppsFact \notin DOMAIN fs
    BY <1>3, <2>2 DEF UnsupportedAppsRemoved
  <2> QED
    BY <2>1, <2>2
<1>10. /\ InstalledBrowsers(again) = InstalledBrowsers(fs)
       /\ BrowserCites(again) = BrowserCites(fs)
       /\ CoverageGap(again) <=> CoverageGap(fs)
       /\ Usable(again, JavaFact) <=> Usable(fs, JavaFact)
       /\ Usable(again, PolicyFact) <=> Usable(fs, PolicyFact)
  <2>1. InstalledBrowsers(again) = InstalledBrowsers(fs)
    BY <1>3, <1>7 DEF InstalledBrowsers
  <2>2. BrowserCites(again) = BrowserCites(fs)
    BY <1>3 DEF BrowserCites
  <2>3. CoverageGap(again) <=> CoverageGap(fs)
    BY <1>3, <1>6, Zenon DEF CoverageGap, new, old
  <2>4. /\ Usable(again, JavaFact) <=> Usable(fs, JavaFact)
        /\ Usable(again, PolicyFact) <=> Usable(fs, PolicyFact)
    BY <1>1, <1>3 DEF Usable
  <2> QED
    BY <2>1, <2>2, <2>3, <2>4
<1>11. \A k, x : UnlessGap(again, k, x) = UnlessGap(fs, k, x)
  BY <1>10, Zenon DEF UnlessGap
<1>12. AdvertisementsNotProcessed(again) = AdvertisementsNotProcessed(fs)
  <2>1. ForcedBlockers(new.rows) = ForcedBlockers(old.rows)
    BY <1>5, <1>8 DEF ForcedBlockers
  <2> QED
    BY <1>10, <1>11, <2>1, Zenon DEF AdvertisementsNotProcessed, new, old
<1>13. JavaNotProcessed(again) = JavaNotProcessed(fs)
  BY <1>7, <1>10, <1>11, Zenon DEF JavaNotProcessed
<1>14. SecuritySettingsLocked(again) = SecuritySettingsLocked(fs)
  <2> DEFINE broken(x)    == \E r \in x.rows : r.browser = "firefox" /\ r.content = "unparseable"
             mandatory(x) == {r.browser : r \in {q \in x.rows : q.level = "mandatory"}}
  <2>1. broken(new) <=> broken(old)
    BY <1>5, <1>8
  <2>2. mandatory(new) = mandatory(old)
    BY <1>5, <1>8
  <2> DEFINE installed == {a.kind : a \in InstalledBrowsers(fs)}
             cites     == BrowserCites(fs)
             judged(gs, broke, found) ==
               IF broke THEN CannotTell("collection-error")
               ELSE IF installed = {} THEN CannotTell("partial-population")
               ELSE IF installed \ found # {} THEN NotSatisfied("partial", cites)
               ELSE UnlessGap(gs, "partial", cites)
  <2>3. SecuritySettingsLocked(again) = judged(again, broken(new), mandatory(new))
    BY <1>10, Zenon DEF SecuritySettingsLocked, new
  <2>4. SecuritySettingsLocked(fs) = judged(fs, broken(old), mandatory(old))
    BY Zenon DEF SecuritySettingsLocked, old
  <2> HIDE DEF broken, mandatory, installed, cites
  <2>5. judged(again, broken(new), mandatory(new)) = judged(fs, broken(old), mandatory(old))
    BY <1>11, <2>1, <2>2
  <2> QED
    BY <2>3, <2>4, <2>5
<1>15. \A c \in BrowserChecks : BrowsersJudge(c, again) = BrowsersJudge(c, fs)
  BY <1>10, <1>12, <1>13, <1>14 DEF BrowsersJudge, BrowserChecks
<1> QED
  BY <1>9, <1>15, Zenon DEF fs, again

\* A rule is a rule of the same paths after redaction, and nobody becomes an
\* administrator by it.
LEMMA RedactedRule ==
  ASSUME NEW policy, NEW r
  PROVE  LET s == RedactRule(policy, r)
         IN  /\ s.action = r.action /\ s.paths = r.paths
             /\ s.exceptions = r.exceptions /\ s.others = r.others
             /\ IsAdminSid(s.sid) => IsAdminSid(r.sid)
<1> DEFINE keys == <<"collections", "path_rules", "sid">>
           s    == RedactRule(policy, r)
<1>1. /\ s.action = r.action /\ s.paths = r.paths
      /\ s.exceptions = r.exceptions /\ s.others = r.others
      /\ s.sid = Redact(policy, keys, FALSE, r.sid)
  BY DEF RedactRule
<1> HIDE DEF keys
<1>2. Redact(policy, keys, FALSE, r.sid) = Gone
        \/ \E action : Redact(policy, keys, FALSE, r.sid) = Apply(action, r.sid)
  BY Zenon DEF Redact
<1>3. ~IsAdminSid(Gone)
  BY DEF IsAdminSid, Gone
<1>4. \A action : IsAdminSid(Apply(action, r.sid)) => IsAdminSid(r.sid)
  BY DEF IsAdminSid, Apply
<1>5. IsAdminSid(s.sid) => IsAdminSid(r.sid)
  BY <1>1, <1>2, <1>3, <1>4, Zenon
<1> QED
  BY <1>1, <1>5

LEMMA PermittingRedacted ==
  ASSUME NEW policy, NEW rules, NEW location, NEW r \in Permitting(rules, location)
  PROVE  RedactRule(policy, r) \in Permitting({RedactRule(policy, q) : q \in rules}, location)
<1> DEFINE redacted  == {RedactRule(policy, q) : q \in rules}
           denied(x) == UNION {q.paths : q \in {u \in x : u.action = "deny"}}
           s         == RedactRule(policy, r)
<1>1. \A q : LET u == RedactRule(policy, q)
             IN  u.action = q.action /\ u.paths = q.paths /\ u.exceptions = q.exceptions
  BY RedactedRule, Zenon
<1>2. denied(redacted) = denied(rules)
  BY <1>1
<1>3. /\ r \in rules /\ r.action = "allow"
      /\ \E p \in r.paths : PatternCovers(p, location)
      /\ ~\E p \in r.exceptions \cup denied(rules) : PatternContains(p, location)
  BY Zenon DEF Permitting
<1>4. s \in redacted
  BY <1>3
<1>5. s.action = r.action /\ s.paths = r.paths /\ s.exceptions = r.exceptions
  BY <1>1, Zenon
<1> HIDE DEF redacted, denied, s
<1>6. /\ s \in redacted /\ s.action = "allow"
      /\ \E p \in s.paths : PatternCovers(p, location)
      /\ ~\E p \in s.exceptions \cup denied(redacted) : PatternContains(p, location)
  BY <1>2, <1>3, <1>4, <1>5
<1> QED
  BY <1>6, Zenon DEF Permitting, redacted, denied, s

\* Two states that differ in the principals of their rules only.
LEMMA RedactedState ==
  ASSUME NEW policy, NEW old, NEW new,
         new.wdac = old.wdac,
         new.collections = [t \in DOMAIN old.collections |->
                              RedactCollection(policy, old.collections[t])]
  PROVE  /\ WdacEnforcing(new) <=> WdacEnforcing(old)
         /\ Enforced(new) = Enforced(old)
         /\ \A t \in Enforced(old) :
              new.collections[t].pathRules = {RedactRule(policy, r) : r \in old.collections[t].pathRules}
<1> DEFINE cs == old.collections
           ds == new.collections
<1>1. \A c : LET d == RedactCollection(policy, c)
             IN  /\ d.mode = c.mode /\ d.ruleCount = c.ruleCount
                 /\ d.pathRules = {RedactRule(policy, r) : r \in c.pathRules}
  BY DEF RedactCollection
<1>2. DOMAIN ds = DOMAIN cs /\ \A t \in DOMAIN cs : ds[t] = RedactCollection(policy, cs[t])
  OBVIOUS
<1>3. \A t \in DOMAIN cs :
        /\ ds[t].mode = cs[t].mode /\ ds[t].ruleCount = cs[t].ruleCount
        /\ ds[t].pathRules = {RedactRule(policy, r) : r \in cs[t].pathRules}
  BY <1>1, <1>2, Zenon
<1> HIDE DEF cs, ds
<1>4. Enforced(new) = Enforced(old)
  <2>1. {t \in DOMAIN ds : ds[t].mode = "Enabled" /\ ds[t].ruleCount > 0}
          = {t \in DOMAIN cs : cs[t].mode = "Enabled" /\ cs[t].ruleCount > 0}
    BY <1>2, <1>3
  <2> QED
    BY <2>1, Zenon DEF Enforced, cs, ds
<1>5. Enforced(old) \subseteq DOMAIN cs
  BY DEF Enforced, cs
<1>6. \A t \in Enforced(old) :
        ds[t].pathRules = {RedactRule(policy, r) : r \in cs[t].pathRules}
  BY <1>3, <1>5, Zenon
<1>7. WdacEnforcing(new) <=> WdacEnforcing(old)
  BY Zenon DEF WdacEnforcing
<1> QED
  BY <1>4, <1>6, <1>7, Zenon DEF cs, ds

LEMMA WritablePathsKeepFailing ==
  ASSUME NEW policy, NEW old, NEW new, NEW paths,
         new.wdac = old.wdac,
         new.collections = [t \in DOMAIN old.collections |->
                              RedactCollection(policy, old.collections[t])],
         UserWritablePathsControlled(new, paths).says = "satisfied"
  PROVE  UserWritablePathsControlled(old, paths) = UserWritablePathsControlled(new, paths)
<1> DEFINE locations   == WritableLocations(paths)
           enforced    == Enforced(old)
           rules(s, t) == s.collections[t].pathRules
           permitted(s) == PermittedRules(s, paths)
           unparsed(s) == UNION {Unparsed(rules(s, t)) : t \in enforced}
           otherwise   == IF SearchIncomplete(paths) THEN CannotTell("partial-population")
                          ELSE Satisfied("partial", {StateFact, PathsFact})
           judged(s)   ==
             CASE WdacEnforcing(old) -> CannotTell("insufficient-privilege")
               [] ~WdacEnforcing(old) /\ enforced = {} -> NotSatisfied("partial", {StateFact, PathsFact})
               [] ~WdacEnforcing(old) /\ enforced # {} ->
                    IF locations = {} THEN otherwise
                    ELSE IF permitted(s) # {} THEN NotSatisfied("partial", {StateFact, PathsFact})
                    ELSE IF unparsed(s) # {} THEN CannotTell("collection-error")
                    ELSE otherwise
<1>1. /\ WdacEnforcing(new) <=> WdacEnforcing(old)
      /\ Enforced(new) = enforced
      /\ \A t \in enforced : rules(new, t) = {RedactRule(policy, r) : r \in rules(old, t)}
  BY RedactedState
<1>2. permitted(old) # {} => permitted(new) # {}
  <2> SUFFICES ASSUME permitted(old) # {} PROVE permitted(new) # {}
    OBVIOUS
  <2>1. PICK t \in enforced, l \in locations :
          \E r \in Permitting(rules(old, t), l) : ~IsAdminSid(r.sid)
    BY DEF PermittedRules
  <2> PICK r \in Permitting(rules(old, t), l) : ~IsAdminSid(r.sid)
    BY <2>1
  <2> DEFINE s == RedactRule(policy, r)
  <2>2. s \in Permitting({RedactRule(policy, q) : q \in rules(old, t)}, l)
    BY PermittingRedacted
  <2>3. ~IsAdminSid(s.sid)
    BY RedactedRule, Zenon
  <2> HIDE DEF s, locations, enforced
  <2>4. s \in Permitting(rules(new, t), l)
    BY <1>1, <2>2, Zenon
  <2>5. s \in permitted(new)
    BY <1>1, <2>3, <2>4 DEF PermittedRules, locations, enforced
  <2> QED
    BY <2>5
<1>3. unparsed(old) # {} => unparsed(new) # {}
  <2> SUFFICES ASSUME unparsed(old) # {} PROVE unparsed(new) # {}
    OBVIOUS
  <2> HIDE DEF enforced
  <2>1. PICK t \in enforced : \E r \in Unparsed(rules(old, t)) : TRUE
    OBVIOUS
  <2> PICK r \in Unparsed(rules(old, t)) : TRUE
    BY <2>1
  <2>2. r \in rules(old, t) /\ r.action = "allow" /\ r.paths = {} /\ ~r.others
    BY DEF Unparsed
  <2> DEFINE s == RedactRule(policy, r)
  <2>3. s.action = r.action /\ s.paths = r.paths /\ s.others = r.others
    BY RedactedRule
  <2>4. s \in rules(new, t)
    BY <1>1, <2>2
  <2> HIDE DEF s
  <2>5. s \in Unparsed(rules(new, t))
    BY <2>2, <2>3, <2>4 DEF Unparsed
  <2> QED
    BY <2>5
<1>4. UserWritablePathsControlled(old, paths) = judged(old)
  BY DEF UserWritablePathsControlled
<1>5. UserWritablePathsControlled(new, paths) = judged(new)
  BY <1>1 DEF UserWritablePathsControlled
<1>6. \A reason, k, x : /\ CannotTell(reason).says # "satisfied"
                        /\ NotSatisfied(k, x).says # "satisfied"
  BY DEF CannotTell, NotSatisfied, Outcome
<1> HIDE DEF enforced, locations, permitted, unparsed, otherwise
<1>7. /\ ~WdacEnforcing(old) /\ enforced # {}
      /\ judged(new) = otherwise
      /\ locations # {} => permitted(new) = {} /\ unparsed(new) = {}
  BY <1>5, <1>6
<1>8. judged(old) = otherwise
  BY <1>2, <1>3, <1>7
<1> QED
  BY <1>4, <1>5, <1>7, <1>8

LEMMA AppControlVerdictStands ==
  ASSUME NEW policy, NEW w, NEW b, NEW c \in AppControlChecks,
         AppControlJudge(c, RedactAppControl(policy, CollectAppControl(w, b))).says = "satisfied"
  PROVE  AppControlJudge(c, CollectAppControl(w, b))
           = AppControlJudge(c, RedactAppControl(policy, CollectAppControl(w, b)))
<1> DEFINE fs    == CollectAppControl(w, b)
           again == RedactAppControl(policy, fs)
           old   == fs[StateFact].value
           new   == again[StateFact].value
           paths == fs[PathsFact].value
<1>1. DOMAIN fs = {StateFact, PathsFact}
  BY AppControlFacts, Zenon
<1>2. DOMAIN again = DOMAIN fs /\ \A k \in DOMAIN fs : again[k].partial = fs[k].partial
  <2>1. fs = CollectFamily("appcontrol", w, b) /\ again = Redacted("appcontrol", policy, fs)
    BY Zenon DEF CollectFamily, Redacted
  <2>2. "appcontrol" \in Families
    BY DEF Families
  <2> HIDE DEF fs, again
  <2> QED
    BY <2>1, <2>2, RedactedKeeps
<1>3. StateFact # PathsFact
  BY DEF StateFact, PathsFact
<1>4. AppControlJudge(c, again).says = "satisfied"
  OBVIOUS
<1> HIDE DEF fs
<1>5. /\ again[PathsFact] = fs[PathsFact]
      /\ new.read = old.read /\ new.wdac = old.wdac
      /\ new.collections = [t \in DOMAIN old.collections |-> RedactCollection(policy, old.collections[t])]
  <2>1. PathsFact \in DOMAIN fs \ {StateFact} /\ StateFact \in DOMAIN fs
    BY <1>1, <1>3
  <2> QED
    BY <2>1, AppControlRedacted
<1> HIDE DEF again, old, new, paths
<1>6. /\ WdacEnforcing(new) <=> WdacEnforcing(old)
      /\ Enforced(new) = Enforced(old)
  BY <1>5, RedactedState
<1>7. StateGuard(again) = StateGuard(fs) /\ PathsGuard(again) = PathsGuard(fs)
  BY <1>1, <1>2, <1>5 DEF StateGuard, PathsGuard, old, new
<1>8. /\ ApplicationControlImplemented(new) = ApplicationControlImplemented(old)
      /\ FileTypesCovered(new) = FileTypesCovered(old)
  BY <1>6, Zenon DEF ApplicationControlImplemented, FileTypesCovered
<1>9. again[PathsFact].value = paths
  BY <1>5 DEF paths
<1> DEFINE guard(gs)    == IF c = "application-control-user-writable-paths"
                           THEN PathsGuard(gs) ELSE StateGuard(gs)
           judged(s, p) == CASE c = "application-control-implemented" -> ApplicationControlImplemented(s)
                             [] c = "application-control-file-types"  -> FileTypesCovered(s)
                             [] c = "application-control-user-writable-paths" ->
                                  UserWritablePathsControlled(s, p)
           answer(g, j) == IF g # Proceed THEN g ELSE j
<1>10. AppControlJudge(c, fs) = answer(guard(fs), judged(old, paths))
  BY Zenon DEF AppControlJudge, old, paths
<1>11. AppControlJudge(c, again) = answer(guard(again), judged(new, again[PathsFact].value))
  BY Zenon DEF AppControlJudge, new
<1>12. guard(again) = guard(fs)
  BY <1>7, Zenon
<1>13. \/ c # "application-control-user-writable-paths" /\ judged(old, paths) = judged(new, paths)
       \/ /\ judged(old, paths) = UserWritablePathsControlled(old, paths)
          /\ judged(new, paths) = UserWritablePathsControlled(new, paths)
  BY <1>8 DEF AppControlChecks
<1> HIDE DEF guard, judged
<1>14. AppControlJudge(c, again) = answer(guard(fs), judged(new, paths))
  BY <1>9, <1>11, <1>12, Zenon
<1>15. AppControlJudge(c, fs) = AppControlJudge(c, again)
  <2>1. CASE guard(fs) # Proceed
    BY <1>10, <1>14, <2>1, Zenon
  <2>2. CASE guard(fs) = Proceed /\ judged(old, paths) = judged(new, paths)
    BY <1>10, <1>14, <2>2, Zenon
  <2>3. CASE /\ guard(fs) = Proceed
             /\ judged(old, paths) = UserWritablePathsControlled(old, paths)
             /\ judged(new, paths) = UserWritablePathsControlled(new, paths)
    <3>1. UserWritablePathsControlled(new, paths).says = "satisfied"
      BY <1>4, <1>14, <2>3, Zenon
    <3>2. UserWritablePathsControlled(old, paths) = UserWritablePathsControlled(new, paths)
      BY <1>5, <3>1, WritablePathsKeepFailing
    <3> QED
      BY <1>10, <1>14, <2>3, <3>2, Zenon
  <2> QED
    BY <1>13, <2>1, <2>2, <2>3
<1> QED
  BY <1>15, Zenon DEF fs, again

\* A pass on what was written is the answer to what was collected.
LEMMA PassStands ==
  ASSUME NEW family \in Families, NEW policy \in Policy, policy.sid # "drop",
         NEW w, NEW b, NEW c \in ChecksOf(family),
         Evaluator(c, Redacted(family, policy, CollectFamily(family, w, b))).says = "satisfied"
  PROVE  Evaluator(c, CollectFamily(family, w, b))
           = Evaluator(c, Redacted(family, policy, CollectFamily(family, w, b)))
<1> DEFINE fs    == CollectFamily(family, w, b)
           again == Redacted(family, policy, fs)
<1>1. CASE family = "office" /\ c \in OfficeChecks
  <2>1. fs = CollectOffice(w, b) /\ again = RedactOffice(policy, fs)
    BY <1>1, Zenon DEF CollectFamily, Redacted
  <2>2. Evaluator(c, fs) = OfficeJudge(c, fs) /\ Evaluator(c, again) = OfficeJudge(c, again)
    BY <1>1, OfficeCheck, Zenon
  <2>3. OfficeJudge(c, RedactOffice(policy, CollectOffice(w, b))) = OfficeJudge(c, CollectOffice(w, b))
    BY <1>1, OfficeVerdictStands, Zenon
  <2> QED
    BY <2>1, <2>2, <2>3, Zenon
<1>2. CASE family = "appcontrol" /\ c \in AppControlChecks
  <2>1. fs = CollectAppControl(w, b) /\ again = RedactAppControl(policy, CollectAppControl(w, b))
    BY <1>2, Zenon DEF CollectFamily, Redacted
  <2>2. Evaluator(c, fs) = AppControlJudge(c, fs) /\ Evaluator(c, again) = AppControlJudge(c, again)
    BY <1>2, AppControlCheck, Zenon
  <2>3. AppControlJudge(c, RedactAppControl(policy, CollectAppControl(w, b))).says = "satisfied"
    BY <2>1, <2>2, Zenon
  <2>4. AppControlJudge(c, CollectAppControl(w, b))
          = AppControlJudge(c, RedactAppControl(policy, CollectAppControl(w, b)))
    BY <1>2, <2>3, AppControlVerdictStands
  <2> QED
    BY <2>1, <2>2, <2>4, Zenon
<1>3. CASE family = "browsers" /\ c \in BrowserChecks \cup ApplicationChecks
  <2>1. fs = CollectFamily("browsers", w, b) /\ again = RedactBrowsers(policy, fs)
    BY <1>3, Zenon DEF Redacted
  <2>2. LET x == CollectFamily("browsers", w, b)
        IN  /\ \A d \in BrowserChecks : BrowsersJudge(d, RedactBrowsers(policy, x)) = BrowsersJudge(d, x)
            /\ UnsupportedAppsRemoved(RedactBrowsers(policy, x)) = UnsupportedAppsRemoved(x)
    BY BrowsersVerdictStands, Zenon
  <2>3. CASE c \in BrowserChecks
    <3>1. Evaluator(c, fs) = BrowsersJudge(c, fs) /\ Evaluator(c, again) = BrowsersJudge(c, again)
      BY <2>3, BrowserCheck, Zenon
    <3> QED
      BY <2>1, <2>2, <2>3, <3>1, Zenon
  <2>4. CASE c \in ApplicationChecks
    <3>1. Evaluator(c, fs) = UnsupportedAppsRemoved(fs) /\ Evaluator(c, again) = UnsupportedAppsRemoved(again)
      BY <2>4, ApplicationCheck, Zenon
    <3> QED
      BY <2>1, <2>2, <3>1, Zenon
  <2> QED
    BY <1>3, <2>3, <2>4
<1>4. CASE family \notin {"office", "appcontrol", "browsers"}
  BY <1>4, Zenon DEF Redacted
<1> QED
  BY <1>1, <1>2, <1>3, <1>4, FamilyChecks

LEMMA RedactionHolds == PathInv => RedactionAddsNoPass
<1> SUFFICES ASSUME PathInv, stage = "judged", case.policy.sid # "drop",
                    NEW c \in ChecksOf(case.family), Status(c) = "satisfied"
             PROVE  VerdictsOn(case.family, facts)[c].status = "satisfied"
  BY DEF RedactionAddsNoPass
<1>1. Judged(c)
  BY DEF Judged
<1>2. /\ case.family \in Families /\ case.policy \in Policy
      /\ Eval!JudgeCheck(c, Written, {}).status = "satisfied"
  BY <1>1, JudgedOnWritten, Zenon
<1>3. facts = Collected
  BY DEF PathInv
<1>4. c \in AllChecks
  BY <1>2, FamilyChecks
<1>5. /\ Complete(Written, RequiredFacts[c])
      /\ Evaluator(c, Written).says = "satisfied" /\ Evaluator(c, Written).cites # {}
  BY <1>2, <1>4, StatusIsSaid, Zenon
<1>6. Complete(Collected, RequiredFacts[c])
  BY <1>2, <1>5, RedactedIsAsComplete, Zenon DEF Written, Collected
<1>7. Evaluator(c, Collected) = Evaluator(c, Written)
  BY <1>2, <1>5, PassStands DEF Written, Collected
<1>8. Eval!JudgeCheck(c, Collected, {}).status = "satisfied"
  BY <1>4, <1>5, <1>6, <1>7, StatusIsSaid, Zenon
<1> QED
  BY <1>3, <1>8, Zenon DEF VerdictsOn

\* Redacting never turns a verdict green: under every policy that does not drop
\* SIDs, whatever is satisfied on the bundle is satisfied on the facts as they
\* were collected.  redact.py:176-195; appcontrol_paths.py:105-111
THEOREM RedactionAddsNoPassAlways == Spec => []RedactionAddsNoPass
BY PathTaken, RedactionHolds, PTL

-----------------------------------------------------------------------------
(* Truth: what a row says is so of the subject, and what has no row is not *)
(* there, as far as it was read.                                           *)

\* The scopes whose policy was read.
ReadScopes(b) == Scopes \ (b.hidden \cup b.skipped)

\* A row, of that scope and application.
Tells(r, w, s, a) ==
  /\ r.scope = IF s = Machine THEN "machine" ELSE "user"
  /\ r.app = a /\ r.value = w.setting[<<s, a>>] /\ r.gpo

\* A verdict on macros is one on the rows of an installed Office, both read.
LEMMA OfficeJudged ==
  ASSUME NEW c \in OfficeChecks, NEW fs,
         OfficeJudge(c, fs).says \in {"satisfied", "not-satisfied"}
  PROVE  LET policy == fs[MacroFact].value
         IN  /\ Usable(fs, InstallFact) /\ fs[InstallFact].value /\ Usable(fs, MacroFact)
             /\ c = "macro-internet-blocked" => OfficeJudge(c, fs) = MacroInternetBlocked(policy)
             /\ c = "macro-settings-locked" => OfficeJudge(c, fs) = MacroSettingsLocked(policy)
             /\ c = "macros-disabled" => OfficeJudge(c, fs) = MacrosDisabled(policy)
             /\ c = "macro-av-scanning" => OfficeJudge(c, fs) = MacroAntivirusScanning(policy)
<1> DEFINE guard  == OfficeGuard(fs)
           policy == fs[MacroFact].value
<1>1. \A r, x : /\ CannotTell(r).says = "unassessed"
                /\ OutOfPopulation(x).says = "not-applicable"
  BY DEF CannotTell, OutOfPopulation, Outcome
<1>2. guard = Proceed
  <2> SUFFICES ASSUME guard # Proceed PROVE FALSE
    OBVIOUS
  <2>1. OfficeJudge(c, fs) = guard
    BY Zenon DEF OfficeJudge
  <2>2. guard = CannotTell("collection-error") \/ guard = OutOfPopulation({InstallFact})
    BY Zenon DEF OfficeGuard
  <2> QED
    BY <1>1, <2>1, <2>2
<1>3. Usable(fs, InstallFact) /\ fs[InstallFact].value /\ Usable(fs, MacroFact)
  <2>1. /\ CannotTell("collection-error") # Proceed
        /\ OutOfPopulation({InstallFact}) # Proceed
    BY DEF CannotTell, OutOfPopulation, Outcome, Proceed
  <2> QED
    BY <1>2, <2>1, Zenon DEF OfficeGuard
<1> HIDE DEF policy
<1>4. OfficeJudge(c, fs)
        = CASE c = "macro-internet-blocked" -> MacroInternetBlocked(policy)
            [] c = "macro-settings-locked"  -> MacroSettingsLocked(policy)
            [] c = "macros-disabled"        -> MacrosDisabled(policy)
            [] c = "macro-av-scanning"      -> MacroAntivirusScanning(policy)
  BY <1>2, Zenon DEF OfficeJudge, policy
<1>5. /\ c = "macro-internet-blocked" => OfficeJudge(c, fs) = MacroInternetBlocked(policy)
      /\ c = "macro-settings-locked" => OfficeJudge(c, fs) = MacroSettingsLocked(policy)
      /\ c = "macros-disabled" => OfficeJudge(c, fs) = MacrosDisabled(policy)
      /\ c = "macro-av-scanning" => OfficeJudge(c, fs) = MacroAntivirusScanning(policy)
  BY <1>4
<1> QED
  BY <1>3, <1>5, Zenon DEF policy

\* The rows that were written are what the scopes that were read say.
LEMMA OfficeRows ==
  ASSUME NEW policy, NEW w, NEW b,
         LET fs == RedactOffice(policy, CollectOffice(w, b))
         IN  Usable(fs, InstallFact) /\ fs[InstallFact].value /\ Usable(fs, MacroFact)
  PROVE  LET value == RedactOffice(policy, CollectOffice(w, b))[MacroFact].value
         IN  /\ \A r \in value.rows : \E s \in ReadScopes(b), a \in InScopeApps :
                  w.setting[<<s, a>>] # "absent" /\ Tells(r, w, s, a)
             /\ \A s \in ReadScopes(b), a \in InScopeApps :
                  w.setting[<<s, a>>] # "absent" => \E r \in value.rows : Tells(r, w, s, a)
             /\ value.unloaded = RedactList(policy, <<"meta", "profiles_unloaded">>, Unloaded(b))
<1> DEFINE fs      == CollectOffice(w, b)
           again   == RedactOffice(policy, fs)
           scanned == ("install" \notin b.garbled /\ w.product = "click-to-run")
                        /\ "policy" \notin b.garbled
           value   == [rows     |-> IF scanned THEN MacroRows(w, b) ELSE {},
                       unloaded |-> IF scanned THEN Unloaded(b) ELSE {}]
<1>1. /\ DOMAIN fs = {InstallFact, MacroFact}
      /\ fs[InstallFact].partial <=> "install" \in b.garbled
      /\ fs[InstallFact].value <=> "install" \notin b.garbled /\ w.product = "click-to-run"
      /\ fs[MacroFact].partial <=>
           ("install" \notin b.garbled /\ w.product = "click-to-run") /\ "policy" \in b.garbled
      /\ fs[MacroFact].value = value
  BY OfficeFacts, Zenon
<1>2. DOMAIN again = DOMAIN fs /\ \A k \in DOMAIN fs : again[k].partial = fs[k].partial
  <2>1. fs = CollectFamily("office", w, b) /\ again = Redacted("office", policy, fs)
    BY Zenon DEF CollectFamily, Redacted
  <2>2. "office" \in Families
    BY DEF Families
  <2> HIDE DEF fs, again
  <2> QED
    BY <2>1, <2>2, RedactedKeeps
<1>3. InstallFact # MacroFact
  BY DEF InstallFact, MacroFact
<1>4. value.rows = (IF scanned THEN MacroRows(w, b) ELSE {})
      /\ value.unloaded = (IF scanned THEN Unloaded(b) ELSE {})
  OBVIOUS
<1>5. Usable(again, InstallFact) /\ again[InstallFact].value /\ Usable(again, MacroFact)
  OBVIOUS
<1> HIDE DEF fs, value
<1>6. /\ again[InstallFact] = fs[InstallFact]
      /\ again[MacroFact].value.rows = {RedactMacroRow(policy, r) : r \in fs[MacroFact].value.rows}
      /\ again[MacroFact].value.unloaded =
           RedactList(policy, <<"meta", "profiles_unloaded">>, fs[MacroFact].value.unloaded)
  <2>1. InstallFact \in DOMAIN fs \ {MacroFact} /\ MacroFact \in DOMAIN fs
    BY <1>1, <1>3
  <2> QED
    BY <2>1, OfficeRedacted
<1> HIDE DEF again
<1>7. scanned
  <2>1. ~fs[MacroFact].partial /\ fs[InstallFact].value
    BY <1>1, <1>2, <1>5, <1>6 DEF Usable
  <2> QED
    BY <1>1, <2>1, Zenon
<1> DEFINE rows == again[MacroFact].value.rows
<1>8. /\ rows = {RedactMacroRow(policy, r) : r \in MacroRows(w, b)}
      /\ again[MacroFact].value.unloaded = RedactList(policy, <<"meta", "profiles_unloaded">>, Unloaded(b))
  BY <1>1, <1>4, <1>6, <1>7, Zenon
<1> HIDE DEF rows, scanned
<1>9. \A s, a : Tells(RedactMacroRow(policy, MacroRow(w, s, a)), w, s, a)
  BY DEF RedactMacroRow, MacroRow, Tells
<1>10. \A r \in rows : \E s \in ReadScopes(b), a \in InScopeApps :
         w.setting[<<s, a>>] # "absent" /\ Tells(r, w, s, a)
  <2> TAKE r \in rows
  <2>1. PICK m \in MacroRows(w, b) : r = RedactMacroRow(policy, m)
    BY <1>8
  <2>2. PICK q \in ReadScopes(b) \X InScopeApps :
          w.setting[q] # "absent" /\ m = MacroRow(w, q[1], q[2])
    BY <2>1 DEF MacroRows, ReadScopes
  <2>3. q[1] \in ReadScopes(b) /\ q[2] \in InScopeApps /\ q = <<q[1], q[2]>>
    BY <2>2
  <2>4. w.setting[<<q[1], q[2]>>] # "absent"
    BY <2>2, <2>3
  <2> QED
    BY <1>9, <2>1, <2>2, <2>3, <2>4
<1>11. \A s \in ReadScopes(b), a \in InScopeApps :
         w.setting[<<s, a>>] # "absent" => \E r \in rows : Tells(r, w, s, a)
  <2> SUFFICES ASSUME NEW s \in ReadScopes(b), NEW a \in InScopeApps, w.setting[<<s, a>>] # "absent"
               PROVE  \E r \in rows : Tells(r, w, s, a)
    OBVIOUS
  <2>1. MacroRow(w, s, a) \in MacroRows(w, b)
    <3> DEFINE q == <<s, a>>
    <3>1. q \in ReadScopes(b) \X InScopeApps /\ w.setting[q] # "absent" /\ q[1] = s /\ q[2] = a
      OBVIOUS
    <3> HIDE DEF q
    <3> QED
      BY <3>1 DEF MacroRows, ReadScopes
  <2>2. RedactMacroRow(policy, MacroRow(w, s, a)) \in rows
    BY <1>8, <2>1
  <2> QED
    BY <1>9, <2>2
<1> QED
  BY <1>8, <1>10, <1>11, Zenon DEF rows, again, fs

\* Unread profiles that were written down are known to the check, unless SIDs are
\* dropped.
LEMMA NobodyUnread ==
  ASSUME NEW policy \in Policy, NEW b, b.skipped = {},
         ~(policy.sid = "drop" /\ b.hidden \cap People # {}),
         RedactList(policy, <<"meta", "profiles_unloaded">>, {Raw(p) : p \in (b.hidden \ b.skipped) \cap People}) = {}
  PROVE  b.hidden \cap People = {}
<1> DEFINE ids == {Raw(p) : p \in (b.hidden \ b.skipped) \cap People}
<1>1. CASE policy.sid # "drop"
  <2>1. ids \subseteq {Raw(p) : p \in People}
    OBVIOUS
  <2> HIDE DEF ids
  <2>2. ids = {}
    BY <1>1, <2>1, ProfilesRemain DEF ids
  <2>3. ids = {} => (b.hidden \ b.skipped) \cap People = {}
    BY DEF ids
  <2> QED
    BY <2>2, <2>3
<1> QED
  BY <1>1

LEMMA OfficeTruth ==
  ASSUME NEW policy \in Policy, NEW w, NEW b, b.skipped = {}, Machine \notin b.hidden,
         NEW c \in OfficeChecks
  PROVE  LET said == OfficeJudge(c, RedactOffice(policy, CollectOffice(w, b))).says
         IN  /\ /\ said = "satisfied"
                /\ ~(policy.sid = "drop" /\ b.hidden \cap People # {})
                /\ ~(c = "macro-av-scanning" /\ b.hidden # {})
                => PassClaim(c, w)
             /\ said = "not-satisfied" => FailureClaim(c, w)
<1> DEFINE fs       == RedactOffice(policy, CollectOffice(w, b))
           value    == fs[MacroFact].value
           rows     == value.rows
           judgment == OfficeJudge(c, fs)
           said     == judgment.says
           hides    == ~(policy.sid = "drop" /\ b.hidden \cap People # {})
<1> SUFFICES ASSUME said \in {"satisfied", "not-satisfied"}
             PROVE  /\ /\ said = "satisfied" /\ hides
                       /\ ~(c = "macro-av-scanning" /\ b.hidden # {})
                       => PassClaim(c, w)
                    /\ said = "not-satisfied" => FailureClaim(c, w)
  OBVIOUS
<1>1. /\ Usable(fs, InstallFact) /\ fs[InstallFact].value /\ Usable(fs, MacroFact)
      /\ c = "macro-internet-blocked" => judgment = MacroInternetBlocked(value)
      /\ c = "macro-settings-locked" => judgment = MacroSettingsLocked(value)
      /\ c = "macros-disabled" => judgment = MacrosDisabled(value)
      /\ c = "macro-av-scanning" => judgment = MacroAntivirusScanning(value)
  BY OfficeJudged
<1>2. /\ \A r \in rows : \E s \in ReadScopes(b), a \in InScopeApps :
           w.setting[<<s, a>>] # "absent" /\ Tells(r, w, s, a)
      /\ \A s \in ReadScopes(b), a \in InScopeApps :
           w.setting[<<s, a>>] # "absent" => \E r \in rows : Tells(r, w, s, a)
      /\ value.unloaded = RedactList(policy, <<"meta", "profiles_unloaded">>, Unloaded(b))
  BY <1>1, OfficeRows, Zenon
<1>3. hides /\ value.unloaded = {} => ReadScopes(b) = Scopes
  <2> SUFFICES ASSUME hides, value.unloaded = {} PROVE ReadScopes(b) = Scopes
    OBVIOUS
  <2>1. RedactList(policy, <<"meta", "profiles_unloaded">>,
                   {Raw(p) : p \in (b.hidden \ b.skipped) \cap People}) = {}
    BY <1>2, Zenon DEF Unloaded
  <2>2. b.hidden \cap People = {}
    BY <2>1, NobodyUnread
  <2> QED
    BY <2>2 DEF ReadScopes, Scopes
<1>4. Machine \in ReadScopes(b) /\ ReadScopes(b) \subseteq Scopes
      /\ Machine \notin People /\ ReadScopes(b) \ {Machine} \subseteq People
  BY DEF ReadScopes, Scopes, Machine, People
<1>5. /\ \A k : NotSatisfied(k, OfficeCites).says = "not-satisfied"
      /\ \A k : Satisfied(k, OfficeCites).says = "satisfied"
      /\ \A k : CannotTell(k).says = "unassessed"
  BY DEF NotSatisfied, Satisfied, CannotTell, Outcome
<1>6. \A failing, gap, k : LET v == MacroVerdict(failing, gap, k)
                           IN  /\ v.says = "satisfied" => ~failing /\ ~gap
                               /\ v.says = "not-satisfied" => failing
  BY <1>5, Zenon DEF MacroVerdict
<1> HIDE DEF fs, value, rows, judgment
<1>7. CASE c = "macro-internet-blocked"
  <2> DEFINE blocked == BlockedMachineWide(rows)
             open    == InScopeApps \ blocked
             user    == {r \in rows : r.scope = "user"}
             failing == {r \in user : r.app \in open /\ (r.value # "right" \/ ~r.gpo)}
             silent  == {a \in open : \A r \in user : r.app # a}
             fails   == failing # {}
             gap     == silent # {} \/ value.unloaded # {}
  <2>1. judgment = MacroVerdict(fails, gap, "proxy")
    BY <1>1, <1>7 DEF MacroInternetBlocked, rows
  <2>2. /\ said = "satisfied" => ~fails /\ ~gap
        /\ said = "not-satisfied" => fails
    <3> HIDE DEF fails, gap
    <3> QED
      BY <1>6, <2>1
  <2>3. \A a \in InScopeApps : a \in blocked <=> w.setting[<<Machine, a>>] = "right"
    <3> TAKE a \in InScopeApps
    <3>1. ASSUME a \in blocked PROVE w.setting[<<Machine, a>>] = "right"
      <4>1. PICK r \in rows : r.scope = "machine" /\ r.value = "right" /\ r.app = a
        BY <3>1 DEF BlockedMachineWide
      <4>2. PICK s \in ReadScopes(b), d \in InScopeApps : Tells(r, w, s, d)
        BY <1>2
      <4>3. s = Machine /\ d = a
        BY <4>1, <4>2 DEF Tells
      <4> QED
        BY <4>1, <4>2, <4>3 DEF Tells
    <3>2. ASSUME w.setting[<<Machine, a>>] = "right" PROVE a \in blocked
      <4>1. w.setting[<<Machine, a>>] # "absent"
        BY <3>2
      <4>2. PICK r \in rows : Tells(r, w, Machine, a)
        BY <1>2, <1>4, <4>1
      <4> QED
        BY <3>2, <4>2 DEF Tells, BlockedMachineWide
    <3> QED
      BY <3>1, <3>2
  <2> HIDE DEF blocked
  <2>4. ASSUME said = "satisfied", hides PROVE \A a \in InScopeApps : InForce(w, a)
    <3> SUFFICES ASSUME NEW a \in InScopeApps, a \in open PROVE InForce(w, a)
      BY <2>3 DEF InForce
    <3>1. failing = {} /\ silent = {} /\ value.unloaded = {}
      BY <2>2, <2>4
    <3>2. ReadScopes(b) = Scopes
      BY <1>3, <2>4, <3>1
    <3>3. PICK r \in user : r.app = a
      BY <3>1
    <3>4. PICK s \in ReadScopes(b), d \in InScopeApps :
            w.setting[<<s, d>>] # "absent" /\ Tells(r, w, s, d)
      BY <1>2
    <3>5. s \in Keyed(w, a) \cap People
      <4>1. s # Machine /\ d = a
        BY <3>3, <3>4 DEF Tells
      <4> QED
        BY <1>4, <3>4, <4>1 DEF Keyed
    <3>6. ASSUME NEW p \in Keyed(w, a) \cap People PROVE w.setting[<<p, a>>] = "right"
      <4>1. w.setting[<<p, a>>] # "absent" /\ p \in ReadScopes(b) /\ p # Machine
        BY <1>4, <3>2, <3>6 DEF Keyed
      <4>2. PICK q \in rows : Tells(q, w, p, a)
        BY <1>2, <4>1
      <4>3. q \in user /\ q.app = a /\ q.value = w.setting[<<p, a>>]
        BY <4>1, <4>2 DEF Tells
      <4> QED
        BY <3>1, <4>3
    <3> QED
      BY <3>5, <3>6 DEF InForce
  <2>5. ASSUME said = "not-satisfied" PROVE \E a \in InScopeApps : ~InForce(w, a)
    <3>1. PICK r \in user : r.app \in open /\ (r.value # "right" \/ ~r.gpo)
      BY <2>2, <2>5
    <3>2. PICK s \in ReadScopes(b), a \in InScopeApps :
            w.setting[<<s, a>>] # "absent" /\ Tells(r, w, s, a)
      BY <1>2
    <3>3. s # Machine /\ a \in open /\ w.setting[<<s, a>>] # "right"
      BY <3>1, <3>2 DEF Tells
    <3>4. s \in Keyed(w, a) \cap People
      BY <1>4, <3>2, <3>3 DEF Keyed
    <3>5. w.setting[<<Machine, a>>] # "right"
      BY <2>3, <3>3
    <3>6. ~InForce(w, a)
      BY <3>3, <3>4, <3>5 DEF InForce
    <3> QED
      BY <3>6
  <2>6. PassClaim(c, w) = \A a \in InScopeApps : InForce(w, a)
    BY <1>7 DEF PassClaim
  <2>7. FailureClaim(c, w) = \E a \in InScopeApps : ~InForce(w, a)
    BY <1>7 DEF FailureClaim
  <2> QED
    BY <2>4, <2>5, <2>6, <2>7, Zenon
<1>8. CASE c = "macro-settings-locked"
  <2> DEFINE fails == \E r \in rows : ~r.gpo
             gap   == InScopeApps \ {r.app : r \in rows} # {} \/ value.unloaded # {}
  <2>1. judgment = MacroVerdict(fails, gap, "proxy")
    BY <1>1, <1>8 DEF MacroSettingsLocked, rows
  <2>2. /\ said = "satisfied" => ~fails /\ ~gap
        /\ said = "not-satisfied" => fails
    <3> HIDE DEF fails, gap
    <3> QED
      BY <1>6, <2>1
  <2>3. ~fails
    BY <1>2 DEF Tells
  <2>4. ASSUME said = "satisfied", NEW a \in InScopeApps PROVE Keyed(w, a) # {}
    <3>1. PICK r \in rows : r.app = a
      BY <2>2, <2>4
    <3>2. PICK s \in ReadScopes(b), d \in InScopeApps :
            w.setting[<<s, d>>] # "absent" /\ Tells(r, w, s, d)
      BY <1>2
    <3>3. s \in Keyed(w, a)
      BY <1>4, <3>1, <3>2 DEF Tells, Keyed
    <3> QED
      BY <3>3
  <2>5. PassClaim(c, w) = \A a \in InScopeApps : Keyed(w, a) # {}
    BY <1>8 DEF PassClaim
  <2> QED
    BY <2>2, <2>3, <2>4, <2>5, Zenon
<1> DEFINE valued == {r \in rows : r.value \in {"wrong", "right"}}
           wrong  == \E r \in valued : r.value = "wrong"
<1>9. wrong => SomeWrong(w)
  <2> SUFFICES ASSUME wrong PROVE SomeWrong(w)
    OBVIOUS
  <2>1. PICK r \in rows : r.value = "wrong"
    OBVIOUS
  <2>2. PICK s \in ReadScopes(b), a \in InScopeApps : Tells(r, w, s, a)
    BY <1>2
  <2> QED
    BY <1>4, <2>1, <2>2 DEF Tells, SomeWrong
<1>10. ReadScopes(b) = Scopes /\ ~wrong => ~SomeWrong(w)
  <2> SUFFICES ASSUME ReadScopes(b) = Scopes, SomeWrong(w) PROVE wrong
    OBVIOUS
  <2>1. PICK s \in ReadScopes(b), a \in InScopeApps : w.setting[<<s, a>>] = "wrong"
    BY DEF SomeWrong
  <2>2. w.setting[<<s, a>>] # "absent"
    BY <2>1
  <2>3. PICK r \in rows : Tells(r, w, s, a)
    BY <1>2, <2>2
  <2> QED
    BY <2>1, <2>3 DEF Tells
<1>11. \A r \in valued : r.app \in InScopeApps /\ Valued(w, r.app)
  <2> TAKE r \in valued
  <2>1. PICK s \in ReadScopes(b), a \in InScopeApps : Tells(r, w, s, a)
    BY <1>2
  <2> QED
    BY <1>4, <2>1 DEF Tells, Valued
<1> HIDE DEF wrong
<1>12. CASE c = "macros-disabled"
  <2> DEFINE gap == InScopeApps \ {r.app : r \in valued} # {} \/ value.unloaded # {}
  <2>1. judgment = MacroVerdict(wrong, gap, "partial")
    BY <1>1, <1>12 DEF MacrosDisabled, rows, wrong
  <2>2. /\ said = "satisfied" => ~wrong /\ ~gap
        /\ said = "not-satisfied" => wrong
    <3> HIDE DEF gap
    <3> QED
      BY <1>6, <2>1
  <2>3. said = "satisfied" /\ hides => ~SomeWrong(w)
    BY <1>3, <1>10, <2>2
  <2>4. said = "satisfied" => \A a \in InScopeApps : Valued(w, a)
    BY <1>11, <2>2
  <2>5. PassClaim(c, w) = (~SomeWrong(w) /\ \A a \in InScopeApps : Valued(w, a))
    BY <1>12 DEF PassClaim
  <2>6. FailureClaim(c, w) = SomeWrong(w)
    BY <1>12 DEF FailureClaim
  <2> QED
    BY <1>9, <2>2, <2>3, <2>4, <2>5, <2>6, Zenon
<1>13. CASE c = "macro-av-scanning"
  <2> DEFINE none == valued = {}
  <2>1. judgment = IF none THEN CannotTell("partial-population")
                   ELSE MacroVerdict(wrong, FALSE, "proxy")
    BY <1>1, <1>13, Zenon DEF MacroAntivirusScanning, rows, wrong
  <2>2. /\ said = "satisfied" => ~wrong /\ ~none
        /\ said = "not-satisfied" => wrong
    <3> HIDE DEF none
    <3> QED
      BY <1>5, <1>6, <2>1
  <2>3. said = "satisfied" /\ b.hidden = {} => ~SomeWrong(w)
    <3>1. b.hidden = {} => ReadScopes(b) = Scopes
      BY DEF ReadScopes
    <3> QED
      BY <1>10, <2>2, <3>1
  <2>4. said = "satisfied" => \E a \in InScopeApps : Valued(w, a)
    BY <1>11, <2>2
  <2>5. PassClaim(c, w) = (~SomeWrong(w) /\ \E a \in InScopeApps : Valued(w, a))
    BY <1>13 DEF PassClaim
  <2>6. FailureClaim(c, w) = SomeWrong(w)
    BY <1>13 DEF FailureClaim
  <2> QED
    BY <1>9, <1>13, <2>2, <2>3, <2>4, <2>5, <2>6, Zenon
<1>14. c \in {"macro-internet-blocked", "macro-settings-locked", "macros-disabled", "macro-av-scanning"}
  BY DEF OfficeChecks
<1> QED
  BY <1>7, <1>8, <1>12, <1>13, <1>14

\* A verdict on application control is one on the state that was read.
LEMMA AppControlTruth ==
  ASSUME NEW policy \in Policy, NEW w, NEW b, NEW c \in AppControlChecks \ OnPaths
  PROVE  LET said == AppControlJudge(c, RedactAppControl(policy, CollectAppControl(w, b))).says
         IN  /\ said = "satisfied" => PassClaim(c, w)
             /\ said = "not-satisfied" /\ b.hidden \cap {"applocker", "deviceguard"} = {} =>
                  FailureClaim(c, w)
<1> DEFINE fs       == CollectAppControl(w, b)
           again    == RedactAppControl(policy, fs)
           old      == fs[StateFact].value
           new      == again[StateFact].value
           judgment == AppControlJudge(c, again)
           said     == judgment.says
           seen     == b.hidden \cap {"applocker", "deviceguard"} = {}
<1> SUFFICES ASSUME said \in {"satisfied", "not-satisfied"}
             PROVE  /\ said = "satisfied" => PassClaim(c, w)
                    /\ said = "not-satisfied" /\ seen => FailureClaim(c, w)
  OBVIOUS
<1>1. /\ DOMAIN fs = {StateFact, PathsFact}
      /\ old = IF "state" \in b.garbled THEN NothingRead ELSE StateValue(w, b)
  BY AppControlFacts, Zenon
<1> HIDE DEF fs
<1>2. /\ new.read = old.read /\ new.wdac = old.wdac
      /\ new.collections = [t \in DOMAIN old.collections |-> RedactCollection(policy, old.collections[t])]
  <2>1. StateFact \in DOMAIN fs
    BY <1>1
  <2> QED
    BY <2>1, AppControlRedacted
<1>3. /\ \A k, x : NotSatisfied(k, x).says = "not-satisfied"
      /\ \A k, x : Satisfied(k, x).says = "satisfied"
      /\ \A k : CannotTell(k).says = "unassessed"
  BY DEF NotSatisfied, Satisfied, CannotTell, Outcome
<1> HIDE DEF again, old, new
<1>4. c \in {"application-control-implemented", "application-control-file-types"}
  BY DEF AppControlChecks, OnPaths
<1>5. /\ StateGuard(again) = Proceed
      /\ c = "application-control-implemented" => judgment = ApplicationControlImplemented(new)
      /\ c = "application-control-file-types" => judgment = FileTypesCovered(new)
  <2>1. StateGuard(again) # Proceed => judgment = StateGuard(again)
    BY <1>4 DEF AppControlJudge
  <2>2. StateGuard(again) # Proceed => StateGuard(again).says = "unassessed"
    BY <1>3, Zenon DEF StateGuard
  <2>3. StateGuard(again) = Proceed
    BY <2>1, <2>2
  <2> QED
    BY <1>4, <2>3 DEF AppControlJudge, new
<1>6. old = StateValue(w, b)
  <2>1. new.read
    <3>1. \A k : CannotTell(k) # Proceed
      BY DEF CannotTell, Outcome, Proceed
    <3> QED
      BY <1>5, <3>1, Zenon DEF StateGuard, new
  <2>2. ~NothingRead.read
    BY DEF NothingRead
  <2> QED
    BY <1>1, <1>2, <2>1, <2>2
<1>7. /\ WdacEnforcing(new) <=> WdacEnforcing(old)
      /\ Enforced(new) = Enforced(old)
  BY <1>2, RedactedState
<1>8. /\ old.wdac = IF "deviceguard" \in b.hidden THEN "off" ELSE w.wdac
      /\ old.collections = IF "applocker" \in b.hidden THEN [t \in {} |-> <<>>] ELSE w.collections
  BY <1>6 DEF StateValue
<1>9. /\ WdacEnforcing(old) => w.wdac = "enforcing"
      /\ seen => (WdacEnforcing(old) <=> w.wdac = "enforcing")
  BY <1>8 DEF WdacEnforcing
<1>10. /\ Enforced(old) # {} => EnforcedCollections(w) # {}
       /\ seen => Enforced(old) = EnforcedCollections(w)
  <2>1. CASE "applocker" \in b.hidden
    <3>1. DOMAIN old.collections = {}
      BY <1>8, <2>1
    <3>2. Enforced(old) = {}
      BY <3>1 DEF Enforced
    <3> QED
      BY <2>1, <3>2
  <2>2. CASE "applocker" \notin b.hidden
    <3>1. old.collections = w.collections
      BY <1>8, <2>2
    <3>2. Enforced(old) = EnforcedCollections(w)
      BY <3>1, Zenon DEF Enforced, EnforcedCollections
    <3> QED
      BY <3>2
  <2> QED
    BY <2>1, <2>2
<1> HIDE DEF judgment, seen
<1>11. CASE c = "application-control-implemented"
  <2>1. /\ said = "satisfied" <=> WdacEnforcing(new) \/ Enforced(new) # {}
    BY <1>3, <1>5, <1>11 DEF ApplicationControlImplemented
  <2>2. PassClaim(c, w) = (w.wdac = "enforcing" \/ EnforcedCollections(w) # {})
    BY <1>11 DEF PassClaim
  <2>3. FailureClaim(c, w) = ~PassClaim(c, w)
    BY <1>11 DEF FailureClaim
  <2> QED
    BY <1>7, <1>9, <1>10, <2>1, <2>2, <2>3, Zenon
<1>12. CASE c = "application-control-file-types"
  <2>1. said = "not-satisfied" /\ ~WdacEnforcing(new)
    BY <1>3, <1>5, <1>12 DEF FileTypesCovered
  <2>2. PassClaim(c, w) = (w.wdac = "enforcing")
    BY <1>12 DEF PassClaim
  <2>3. FailureClaim(c, w) = ~PassClaim(c, w)
    BY <1>12 DEF FailureClaim
  <2> QED
    BY <1>7, <1>9, <2>1, <2>2, <2>3
<1> QED
  BY <1>4, <1>11, <1>12

\* Rows that say what the keys of the hives that were read say.
RowsOfKeys(rows, w, b) ==
  /\ \A r \in rows : \E k \in KeysRead :
       /\ k[1] \notin b.hidden \cup b.skipped /\ w.policy[k] # "absent"
       /\ r.browser = k[2] /\ r.level = k[3] /\ r.content = w.policy[k]
  /\ \A k \in KeysRead :
       k[1] \notin b.hidden \cup b.skipped /\ w.policy[k] # "absent" =>
         \E r \in rows : r.browser = k[2] /\ r.level = k[3] /\ r.content = w.policy[k]

LEMMA BrowserRows ==
  ASSUME NEW policy, NEW w, NEW b,
         Usable(RedactBrowsers(policy, CollectFamily("browsers", w, b)), PolicyFact)
  PROVE  LET value == RedactBrowsers(policy, CollectFamily("browsers", w, b))[PolicyFact].value
         IN  /\ RowsOfKeys(value.rows, w, b)
             /\ value.unloaded = RedactList(policy, <<"meta", "profiles_unloaded">>, Unloaded(b))
<1> DEFINE fs     == CollectFamily("browsers", w, b)
           again  == RedactBrowsers(policy, fs)
           walked == "browsers" \notin b.garbled /\ "registry" \notin b.hidden
           keys   == {k \in KeysRead : k[1] \notin b.hidden \cup b.skipped /\ w.policy[k] # "absent"}
           people == {Raw(p) : p \in People \cap (b.hidden \ b.skipped)}
           value  == [rows     |-> IF walked THEN {BrowserRow(w, k) : k \in keys} ELSE {},
                      unloaded |-> IF walked THEN people ELSE {}]
<1>1. /\ DOMAIN fs = {PolicyFact, JavaFact} \cup IF w.inventoried THEN {AppsFact} ELSE {}
      /\ fs[PolicyFact] = CollectBrowsers(w, b)[PolicyFact]
  BY BrowsersFamilyFacts, Zenon
<1>2. /\ CollectBrowsers(w, b)[PolicyFact].partial <=> ~walked
      /\ CollectBrowsers(w, b)[PolicyFact].value = value
  BY BrowsersFacts, Zenon
<1>3. \A k \in DOMAIN fs : again[k].partial = fs[k].partial
  <2>1. again = Redacted("browsers", policy, fs)
    BY Zenon DEF Redacted
  <2>2. "browsers" \in Families
    BY DEF Families
  <2> HIDE DEF again
  <2> QED
    BY <2>1, <2>2, RedactedKeeps
<1>4. /\ value.rows = (IF walked THEN {BrowserRow(w, k) : k \in keys} ELSE {})
      /\ value.unloaded = IF walked THEN people ELSE {}
  OBVIOUS
<1>5. ~again[PolicyFact].partial
  BY Zenon DEF Usable
<1> HIDE DEF fs, value, walked
<1>6. PolicyFact \in DOMAIN fs
  BY <1>1
<1>7. /\ again[PolicyFact].value.rows = {RedactBrowserRow(policy, r) : r \in fs[PolicyFact].value.rows}
      /\ again[PolicyFact].value.unloaded =
           RedactList(policy, <<"meta", "profiles_unloaded">>, fs[PolicyFact].value.unloaded)
  BY <1>6, BrowsersRedacted
<1> DEFINE rows == again[PolicyFact].value.rows
<1>8. walked
  BY <1>1, <1>2, <1>3, <1>5, <1>6, Zenon
<1> HIDE DEF again
<1>9. fs[PolicyFact].value.rows = {BrowserRow(w, k) : k \in keys} /\ fs[PolicyFact].value.unloaded = people
  BY <1>1, <1>2, <1>4, <1>8, Zenon
<1>10. again[PolicyFact].value.unloaded = RedactList(policy, <<"meta", "profiles_unloaded">>, people)
  BY <1>7, <1>9, Zenon
<1>11. rows = {RedactBrowserRow(policy, BrowserRow(w, k)) : k \in keys}
  BY <1>7, <1>9
<1> HIDE DEF rows, people
<1>12. \A k : LET r == RedactBrowserRow(policy, BrowserRow(w, k))
              IN  r.browser = k[2] /\ r.level = k[3] /\ r.content = w.policy[k]
  BY DEF RedactBrowserRow, BrowserRow
<1>13. \A r \in rows : \E k \in KeysRead :
         /\ k[1] \notin b.hidden \cup b.skipped /\ w.policy[k] # "absent"
         /\ r.browser = k[2] /\ r.level = k[3] /\ r.content = w.policy[k]
  <2> TAKE r \in rows
  <2>1. PICK k \in keys : r = RedactBrowserRow(policy, BrowserRow(w, k))
    BY <1>11
  <2>2. /\ k \in KeysRead /\ k[1] \notin b.hidden \cup b.skipped /\ w.policy[k] # "absent"
        /\ r.browser = k[2] /\ r.level = k[3] /\ r.content = w.policy[k]
    BY <1>12, <2>1
  <2> QED
    BY <2>2, Zenon
<1>14. \A k \in KeysRead :
         k[1] \notin b.hidden \cup b.skipped /\ w.policy[k] # "absent" =>
           \E r \in rows : r.browser = k[2] /\ r.level = k[3] /\ r.content = w.policy[k]
  <2> SUFFICES ASSUME NEW k \in KeysRead, k[1] \notin b.hidden \cup b.skipped, w.policy[k] # "absent"
               PROVE  \E r \in rows : r.browser = k[2] /\ r.level = k[3] /\ r.content = w.policy[k]
    OBVIOUS
  <2>1. k \in keys
    OBVIOUS
  <2>2. RedactBrowserRow(policy, BrowserRow(w, k)) \in rows
    BY <1>11, <2>1
  <2> QED
    BY <1>12, <2>2, Zenon
<1>15. people = Unloaded(b)
  BY DEF people, Unloaded
<1>16. RowsOfKeys(rows, w, b)
  BY <1>13, <1>14, Zenon DEF RowsOfKeys
<1> QED
  BY <1>10, <1>15, <1>16, Zenon DEF rows, again, fs

\* The browsers that a check knows of are browsers of the subject; when the check
\* knows of any and no hive was missed, it knows of all of them.
LEMMA BrowserInventory ==
  ASSUME NEW policy, NEW w, NEW b
  PROVE  LET known == InstalledBrowsers(RedactBrowsers(policy, CollectFamily("browsers", w, b)))
         IN  /\ \A x \in known : \E a \in BrowsersOf(w) : x.kind = a.kind /\ x.version = a.version
             /\ known # {} /\ b.inventory = {} =>
                  \A a \in BrowsersOf(w) : \E x \in known : x.kind = a.kind /\ x.version = a.version
<1> DEFINE fs    == CollectFamily("browsers", w, b)
           again == RedactBrowsers(policy, fs)
           known == InstalledBrowsers(again)
           apps  == CollectApplications(w, b)[AppsFact].value
           read  == "applications" \notin b.garbled
           seen  == {a \in w.installed : a.scope \notin b.inventory}
           value == {[kind |-> a.kind, version |-> a.version] : a \in seen}
<1>1. /\ DOMAIN fs = {PolicyFact, JavaFact} \cup IF w.inventoried THEN {AppsFact} ELSE {}
      /\ w.inventoried => fs[AppsFact] = CollectApplications(w, b)[AppsFact]
  BY BrowsersFamilyFacts, Zenon
<1>2. apps = IF read THEN value ELSE {}
  BY ApplicationsFacts, Zenon
<1>3. AppsFact # PolicyFact /\ AppsFact # JavaFact
  BY DEF AppsFact, PolicyFact, JavaFact
<1>4. DOMAIN again = DOMAIN fs
  <2>1. again = Redacted("browsers", policy, fs)
    BY Zenon DEF Redacted
  <2>2. "browsers" \in Families
    BY DEF Families
  <2> HIDE DEF again
  <2> QED
    BY <2>1, <2>2, RedactedKeeps
<1> HIDE DEF fs
<1>5. \A k \in DOMAIN fs \ {PolicyFact} : again[k] = fs[k]
  <2>1. PolicyFact \in DOMAIN fs
    BY <1>1
  <2> QED
    BY <2>1, BrowsersRedacted
<1> HIDE DEF again
<1>6. known = {} \/ known = {a \in value : a.kind \in BrowserKinds}
  <2>1. CASE AppsFact \in DOMAIN again
    <3>1. again[AppsFact] = CollectApplications(w, b)[AppsFact]
      BY <1>1, <1>3, <1>4, <1>5, <2>1
    <3>2. known = {a \in apps : a.kind \in BrowserKinds}
      BY <2>1, <3>1 DEF InstalledBrowsers
    <3> HIDE DEF apps
    <3>3. CASE read
      BY <1>2, <3>2, <3>3
    <3>4. CASE ~read
      BY <1>2, <3>2, <3>4
    <3> QED
      BY <3>3, <3>4
  <2>2. CASE AppsFact \notin DOMAIN again
    BY <2>2 DEF InstalledBrowsers
  <2> QED
    BY <2>1, <2>2
<1> HIDE DEF known
<1>7. \A x \in known : \E a \in BrowsersOf(w) : x.kind = a.kind /\ x.version = a.version
  <2> SUFFICES ASSUME NEW x \in known PROVE \E a \in BrowsersOf(w) : x.kind = a.kind /\ x.version = a.version
    OBVIOUS
  <2>1. x \in value /\ x.kind \in BrowserKinds
    BY <1>6
  <2>2. PICK a \in seen : x = [kind |-> a.kind, version |-> a.version]
    BY <2>1
  <2>3. a \in BrowsersOf(w) /\ x.kind = a.kind /\ x.version = a.version
    BY <2>1, <2>2 DEF BrowsersOf
  <2> QED
    BY <2>3
<1>8. known # {} /\ b.inventory = {} =>
        \A a \in BrowsersOf(w) : \E x \in known : x.kind = a.kind /\ x.version = a.version
  <2> SUFFICES ASSUME known # {}, b.inventory = {}, NEW a \in BrowsersOf(w)
               PROVE  \E x \in known : x.kind = a.kind /\ x.version = a.version
    OBVIOUS
  <2> DEFINE x == [kind |-> a.kind, version |-> a.version]
  <2>1. a \in seen /\ a.kind \in BrowserKinds
    BY DEF BrowsersOf
  <2>2. x \in value /\ x.kind = a.kind /\ x.version = a.version
    BY <2>1
  <2>3. x \in known
    BY <1>6, <2>1, <2>2
  <2> QED
    BY <2>2, <2>3
<1> QED
  BY <1>7, <1>8, Zenon DEF known, again, fs

\* What was read of Java is so.
LEMMA JavaSurface ==
  ASSUME NEW policy, NEW w, NEW b,
         Usable(RedactBrowsers(policy, CollectFamily("browsers", w, b)), JavaFact)
  PROVE  LET java == RedactBrowsers(policy, CollectFamily("browsers", w, b))[JavaFact].value
         IN  java.ieMode /\ java.javasoft <=> "machine" \in w.ieMode /\ w.javasoft
<1> DEFINE fs      == CollectFamily("browsers", w, b)
           again   == RedactBrowsers(policy, fs)
           java    == again[JavaFact].value
           asked   == "browsers" \notin b.garbled /\ "java" \notin b.hidden
           surface == [ieMode |-> asked /\ "machine" \in w.ieMode, javasoft |-> asked /\ w.javasoft]
           own     == CollectBrowsers(w, b)
<1>1. own[JavaFact].partial <=> ~asked
  BY BrowsersFacts, Zenon
<1>2. own[JavaFact].value = surface
  BY BrowsersFacts, Zenon
<1>3. again[JavaFact] = own[JavaFact]
  <2>1. /\ DOMAIN fs = {PolicyFact, JavaFact} \cup IF w.inventoried THEN {AppsFact} ELSE {}
        /\ fs[JavaFact] = own[JavaFact]
    BY BrowsersFamilyFacts, Zenon
  <2>2. PolicyFact # JavaFact
    BY DEF PolicyFact, JavaFact
  <2> HIDE DEF fs, own
  <2>3. PolicyFact \in DOMAIN fs /\ JavaFact \in DOMAIN fs \ {PolicyFact}
    BY <2>1, <2>2
  <2>4. again[JavaFact] = fs[JavaFact]
    BY <2>3, BrowsersRedacted
  <2> QED
    BY <2>1, <2>4
<1>4. surface.ieMode = (asked /\ "machine" \in w.ieMode) /\ surface.javasoft = (asked /\ w.javasoft)
  OBVIOUS
<1>5. ~again[JavaFact].partial
  BY Zenon DEF Usable
<1> HIDE DEF own, surface, asked, again
<1>6. asked
  BY <1>1, <1>3, <1>5, Zenon
<1>7. java.ieMode /\ java.javasoft <=> "machine" \in w.ieMode /\ w.javasoft
  BY <1>2, <1>3, <1>4, <1>6, Zenon
<1> QED
  BY <1>7, Zenon DEF again, fs

LEMMA BrowsersTruth ==
  ASSUME NEW policy \in Policy, NEW w, NEW b, b.skipped = {}, Machine \notin b.hidden,
         w.policy \in KeyPolicies, w.ieMode \subseteq Hives,
         NEW c \in BrowserChecks
  PROVE  LET said == BrowsersJudge(c, RedactBrowsers(policy, CollectFamily("browsers", w, b))).says
         IN  /\ /\ said = "satisfied" /\ b.inventory = {}
                /\ ~(policy.sid = "drop" /\ b.hidden \cap People # {})
                /\ c = "browser-ads-blocked" =>
                     ~\E s \in Hives, k \in BrowserKinds : w.policy[<<s, k, "recommended">>] = "blocker"
                /\ c = "browser-java-blocked" => w.ieMode \cap People = {}
                => PassClaim(c, w)
             /\ said = "not-satisfied" /\ b.hidden \cap People = {} => FailureClaim(c, w)
<1> DEFINE fs       == CollectFamily("browsers", w, b)
           again    == RedactBrowsers(policy, fs)
           value    == again[PolicyFact].value
           rows     == value.rows
           known    == InstalledBrowsers(again)
           judgment == BrowsersJudge(c, again)
           said     == judgment.says
           cites    == BrowserCites(again)
           hides    == ~(policy.sid = "drop" /\ b.hidden \cap People # {})
           kinds    == {a.kind : a \in known}
<1> SUFFICES ASSUME said \in {"satisfied", "not-satisfied"}
             PROVE  /\ /\ said = "satisfied" /\ b.inventory = {} /\ hides
                       /\ c = "browser-ads-blocked" =>
                            ~\E s \in Hives, k \in BrowserKinds : w.policy[<<s, k, "recommended">>] = "blocker"
                       /\ c = "browser-java-blocked" => w.ieMode \cap People = {}
                       => PassClaim(c, w)
                    /\ said = "not-satisfied" /\ b.hidden \cap People = {} => FailureClaim(c, w)
  OBVIOUS
<1>1. /\ \A k, x : NotSatisfied(k, x).says = "not-satisfied"
      /\ \A k, x : Satisfied(k, x).says = "satisfied"
      /\ \A k : CannotTell(k).says = "unassessed"
  BY DEF NotSatisfied, Satisfied, CannotTell, Outcome
<1>2. Usable(again, PolicyFact)
  <2> HIDE DEF again
  <2> QED
    BY <1>1, Zenon DEF BrowsersJudge
<1>3. /\ RowsOfKeys(rows, w, b)
      /\ value.unloaded = RedactList(policy, <<"meta", "profiles_unloaded">>, Unloaded(b))
  BY <1>2, BrowserRows, Zenon
<1>4. /\ \A x \in known : \E a \in BrowsersOf(w) : x.kind = a.kind /\ x.version = a.version
      /\ known # {} /\ b.inventory = {} =>
           \A a \in BrowsersOf(w) : \E x \in known : x.kind = a.kind /\ x.version = a.version
  BY BrowserInventory
<1>5. hides /\ value.unloaded = {} => b.hidden \cap People = {}
  <2> SUFFICES ASSUME hides, value.unloaded = {} PROVE b.hidden \cap People = {}
    OBVIOUS
  <2>1. RedactList(policy, <<"meta", "profiles_unloaded">>,
                   {Raw(p) : p \in (b.hidden \ b.skipped) \cap People}) = {}
    BY <1>3, Zenon DEF Unloaded
  <2> QED
    BY <2>1, NobodyUnread
<1>6. \A k, x : LET v == UnlessGap(again, k, x)
                IN  v.says # "not-satisfied" /\ (v.says = "satisfied" => value.unloaded = {})
  <2> HIDE DEF again
  <2> QED
    BY <1>1, Zenon DEF UnlessGap, CoverageGap, value
<1>7. \A s \in {"machine"} \cup (People \ b.hidden), k \in BrowserKinds :
        w.policy[<<s, k, "mandatory">>] # "absent" =>
          \E r \in rows : /\ r.browser = k /\ r.level = "mandatory"
                          /\ r.content = w.policy[<<s, k, "mandatory">>]
  <2> SUFFICES ASSUME NEW s \in {"machine"} \cup (People \ b.hidden), NEW k \in BrowserKinds,
                      w.policy[<<s, k, "mandatory">>] # "absent"
               PROVE  \E r \in rows : /\ r.browser = k /\ r.level = "mandatory"
                                      /\ r.content = w.policy[<<s, k, "mandatory">>]
    OBVIOUS
  <2> DEFINE key == <<s, k, "mandatory">>
  <2>1. key \in KeysRead /\ key[1] = s /\ key[2] = k /\ key[3] = "mandatory"
    BY DEF KeysRead, Hives, Levels
  <2>2. s \notin b.hidden \cup b.skipped
    BY DEF Machine
  <2> HIDE DEF key, rows
  <2>3. w.policy[key] # "absent"
    BY DEF key
  <2>4. PICK r \in rows : r.browser = key[2] /\ r.level = key[3] /\ r.content = w.policy[key]
    BY <1>3, <2>1, <2>2, <2>3 DEF RowsOfKeys
  <2> QED
    BY <2>1, <2>4 DEF key
<1>8. \A r \in rows : \E s \in Hives, k \in BrowserKinds, l \in Levels :
        /\ w.policy[<<s, k, l>>] # "absent"
        /\ r.browser = k /\ r.level = l /\ r.content = w.policy[<<s, k, l>>]
  <2> TAKE r \in rows
  <2>1. PICK key \in KeysRead :
          /\ w.policy[key] # "absent"
          /\ r.browser = key[2] /\ r.level = key[3] /\ r.content = w.policy[key]
    BY <1>3 DEF RowsOfKeys
  <2>2. /\ key[1] \in Hives /\ key[2] \in BrowserKinds /\ key[3] \in Levels
        /\ key = <<key[1], key[2], key[3]>>
    BY DEF KeysRead
  <2> QED
    BY <2>1, <2>2
<1>9. \A s \in Hives, k \in BrowserKinds, l \in Levels : w.policy[<<s, k, l>>] \in KeyContents
  BY DEF KeyPolicies
<1>10. c \in {"browser-ads-blocked", "browser-java-blocked", "browser-settings-locked"}
  BY DEF BrowserChecks
<1>11. \A contents : \A k \in BrowserKinds :
         GovernedForAll(w, k, contents) /\ b.hidden \cap People = {} /\ "absent" \notin contents =>
           \E r \in rows : r.browser = k /\ r.level = "mandatory" /\ r.content \in contents
  <2> SUFFICES ASSUME NEW contents, NEW k \in BrowserKinds, GovernedForAll(w, k, contents),
                      b.hidden \cap People = {}, "absent" \notin contents
               PROVE  \E r \in rows : r.browser = k /\ r.level = "mandatory" /\ r.content \in contents
    OBVIOUS
  <2>1. PICK s \in {"machine"} \cup (People \ b.hidden) : w.policy[<<s, k, "mandatory">>] \in contents
    BY DEF GovernedForAll, PolicyIn, People
  <2>2. w.policy[<<s, k, "mandatory">>] # "absent"
    BY <2>1
  <2> HIDE DEF rows
  <2> QED
    BY <1>7, <2>1, <2>2
<1> HIDE DEF fs, again, value, rows, known, judgment, hides
<1>12. CASE c = "browser-ads-blocked"
  <2>1. judgment = AdvertisementsNotProcessed(again)
    BY <1>2, <1>12 DEF BrowsersJudge, judgment
  <2> DEFINE blocked == ForcedBlockers(rows)
  <2>2. judgment = IF kinds = {} THEN CannotTell("partial-population")
                   ELSE IF kinds \ blocked # {} THEN NotSatisfied("partial", cites)
                   ELSE UnlessGap(again, "partial", cites)
    BY <2>1, Zenon DEF AdvertisementsNotProcessed, known, rows, value
  <2> HIDE DEF blocked, kinds, cites
  <2>3. /\ kinds # {}
        /\ said = "satisfied" => kinds \subseteq blocked
        /\ said = "not-satisfied" => kinds \ blocked # {}
    BY <1>1, <1>6, <2>2
  <2>4. ASSUME said = "satisfied", b.inventory = {},
               ~\E s \in Hives, k \in BrowserKinds : w.policy[<<s, k, "recommended">>] = "blocker",
               NEW a \in BrowsersOf(w)
        PROVE  Governed(w, a.kind, {"blocker"})
    <3>1. known # {}
      BY <2>3 DEF kinds
    <3>2. a.kind \in kinds
      BY <1>4, <2>4, <3>1 DEF kinds
    <3>3. PICK r \in rows : r.content = "blocker" /\ r.browser = a.kind
      BY <2>3, <2>4, <3>2 DEF blocked, ForcedBlockers
    <3>4. PICK s \in Hives, k \in BrowserKinds, l \in Levels :
            r.browser = k /\ r.level = l /\ r.content = w.policy[<<s, k, l>>]
      BY <1>8
    <3>5. l = "mandatory" /\ k = a.kind
      BY <2>4, <3>3, <3>4 DEF Levels
    <3> QED
      BY <3>3, <3>4, <3>5 DEF Governed, PolicyIn
  <2>5. ASSUME said = "not-satisfied", b.hidden \cap People = {}
        PROVE  \E a \in BrowsersOf(w) : ~GovernedForAll(w, a.kind, {"blocker"})
    <3>1. PICK x \in known : x.kind \notin blocked
      BY <2>3, <2>5 DEF kinds
    <3>2. PICK a \in BrowsersOf(w) : x.kind = a.kind
      BY <1>4
    <3>3. ~\E r \in rows : r.browser = a.kind /\ r.content \in {"blocker"}
      BY <3>1, <3>2 DEF blocked, ForcedBlockers
    <3>4. a.kind \in BrowserKinds
      BY DEF BrowsersOf
    <3>5. ~GovernedForAll(w, a.kind, {"blocker"})
      BY <1>11, <2>5, <3>3, <3>4
    <3> QED
      BY <3>5
  <2>6. PassClaim(c, w) = \A a \in BrowsersOf(w) : Governed(w, a.kind, {"blocker"})
    BY <1>12 DEF PassClaim
  <2>7. FailureClaim(c, w) = \E a \in BrowsersOf(w) : ~GovernedForAll(w, a.kind, {"blocker"})
    BY <1>12 DEF FailureClaim
  <2> QED
    BY <1>12, <2>4, <2>5, <2>6, <2>7, Zenon
<1>13. CASE c = "browser-settings-locked"
  <2>1. judgment = SecuritySettingsLocked(again)
    BY <1>2, <1>13 DEF BrowsersJudge, judgment
  <2> DEFINE broken    == \E r \in rows : r.browser = "firefox" /\ r.content = "unparseable"
             mandatory == {r.browser : r \in {q \in rows : q.level = "mandatory"}}
  <2>2. judgment = IF broken THEN CannotTell("collection-error")
                   ELSE IF kinds = {} THEN CannotTell("partial-population")
                   ELSE IF kinds \ mandatory # {} THEN NotSatisfied("partial", cites)
                   ELSE UnlessGap(again, "partial", cites)
    BY <2>1, Zenon DEF SecuritySettingsLocked, known, rows, value
  <2> HIDE DEF broken, mandatory, kinds, cites
  <2>3. /\ kinds # {}
        /\ said = "satisfied" => kinds \subseteq mandatory
        /\ said = "not-satisfied" => kinds \ mandatory # {}
    BY <1>1, <1>6, <2>2
  <2>4. ASSUME said = "satisfied", b.inventory = {}, NEW a \in BrowsersOf(w)
        PROVE  Governed(w, a.kind, AnyPolicy)
    <3>1. known # {}
      BY <2>3 DEF kinds
    <3>2. a.kind \in kinds
      BY <1>4, <2>4, <3>1 DEF kinds
    <3>3. PICK r \in rows : r.level = "mandatory" /\ r.browser = a.kind
      BY <2>3, <2>4, <3>2 DEF mandatory
    <3>4. PICK s \in Hives, k \in BrowserKinds, l \in Levels :
            w.policy[<<s, k, l>>] # "absent" /\ r.browser = k /\ r.level = l
      BY <1>8
    <3>5. l = "mandatory" /\ k = a.kind
      BY <3>3, <3>4
    <3>6. w.policy[<<s, a.kind, "mandatory">>] \in AnyPolicy
      BY <1>9, <3>4, <3>5 DEF AnyPolicy
    <3> QED
      BY <3>6 DEF Governed, PolicyIn
  <2>5. ASSUME said = "not-satisfied", b.hidden \cap People = {}
        PROVE  \E a \in BrowsersOf(w) : ~GovernedForAll(w, a.kind, AnyPolicy)
    <3>1. PICK x \in known : x.kind \notin mandatory
      BY <2>3, <2>5 DEF kinds
    <3>2. PICK a \in BrowsersOf(w) : x.kind = a.kind
      BY <1>4
    <3>3. ~\E r \in rows : r.browser = a.kind /\ r.level = "mandatory"
      BY <3>1, <3>2 DEF mandatory
    <3>4. a.kind \in BrowserKinds /\ "absent" \notin AnyPolicy
      BY DEF BrowsersOf, AnyPolicy
    <3>5. ~GovernedForAll(w, a.kind, AnyPolicy)
      BY <1>11, <2>5, <3>3, <3>4
    <3> QED
      BY <3>5
  <2>6. PassClaim(c, w) = \A a \in BrowsersOf(w) : Governed(w, a.kind, AnyPolicy)
    BY <1>13 DEF PassClaim
  <2>7. FailureClaim(c, w) = \E a \in BrowsersOf(w) : ~GovernedForAll(w, a.kind, AnyPolicy)
    BY <1>13 DEF FailureClaim
  <2> QED
    BY <2>4, <2>5, <2>6, <2>7, Zenon
<1>14. CASE c = "browser-java-blocked"
  <2>1. judgment = JavaNotProcessed(again)
    BY <1>2, <1>14 DEF BrowsersJudge, judgment
  <2> DEFINE java  == again[JavaFact].value
             both  == java.ieMode /\ java.javasoft
             below == \E a \in known : BelowNpapiFloor(a)
             all   == cites \cup {JavaFact}
  <2>2. judgment = IF ~Usable(again, JavaFact) THEN CannotTell("collection-error")
                   ELSE IF known = {} THEN CannotTell("partial-population")
                   ELSE IF both THEN NotSatisfied("proxy", all)
                   ELSE IF below THEN CannotTell("partial-population")
                   ELSE UnlessGap(again, "proxy", all)
    BY <2>1, Zenon DEF JavaNotProcessed, known
  <2> HIDE DEF below, both, all
  <2>3. /\ known # {} /\ Usable(again, JavaFact)
        /\ said = "satisfied" => ~both /\ ~below
        /\ said = "not-satisfied" => both
    BY <1>1, <1>6, <2>2
  <2>4. both <=> "machine" \in w.ieMode /\ w.javasoft
    BY <2>3, JavaSurface, Zenon DEF both, again, fs
  <2> HIDE DEF java
  <2>5. ASSUME said = "satisfied", b.inventory = {}, w.ieMode \cap People = {}
        PROVE  ~(\E a \in BrowsersOf(w) : BelowNpapiFloor(a)) /\ ~(w.javasoft /\ w.ieMode # {})
    <3>1. ASSUME NEW a \in BrowsersOf(w), BelowNpapiFloor(a) PROVE FALSE
      <4>1. PICK x \in known : x.kind = a.kind /\ x.version = a.version
        BY <1>4, <2>3, <2>5
      <4>2. BelowNpapiFloor(x)
        BY <3>1, <4>1 DEF BelowNpapiFloor
      <4> QED
        BY <2>3, <2>5, <4>2 DEF below
    <3>2. w.ieMode # {} => "machine" \in w.ieMode
      BY <2>5 DEF Hives
    <3> QED
      BY <2>3, <2>4, <2>5, <3>1, <3>2
  <2>6. said = "not-satisfied" => w.javasoft /\ w.ieMode # {}
    BY <2>3, <2>4
  <2>7. PassClaim(c, w)
          = (~(\E a \in BrowsersOf(w) : BelowNpapiFloor(a)) /\ ~(w.javasoft /\ w.ieMode # {}))
    BY <1>14 DEF PassClaim
  <2>8. FailureClaim(c, w) = (w.javasoft /\ w.ieMode # {})
    BY <1>14 DEF FailureClaim
  <2> QED
    BY <1>14, <2>5, <2>6, <2>7, <2>8, Zenon
<1> QED
  BY <1>10, <1>12, <1>13, <1>14

LEMMA IeTruth ==
  ASSUME NEW w, NEW b
  PROVE  LET said == Ie11Disabled(CollectWindowsBase(w, b)).says
         IN  /\ said = "satisfied" => PassClaim("ie11-disabled", w)
             /\ said = "not-satisfied" /\ "ie" \notin b.garbled => FailureClaim("ie11-disabled", w)
<1> DEFINE fs       == CollectWindowsBase(w, b)
           listed   == "features" \notin b.garbled \cup b.hidden /\ "features" \notin b.skipped
           features == [empty |-> ~listed, ie |-> IF listed THEN w.ie ELSE "absent"]
           said     == Ie11Disabled(fs).says
           disabled == IePolicyFact \in DOMAIN fs /\ fs[IePolicyFact].value
           cites    == {FeaturesFact, IePolicyFact} \cap DOMAIN fs
<1>1. /\ DOMAIN fs = {FeaturesFact, IePolicyFact, ReleaseFact}
      /\ fs[FeaturesFact].value = features
      /\ fs[IePolicyFact].value <=> "ie" \notin b.garbled /\ w.iePolicy
  BY WindowsFacts, Zenon
<1>2. features.empty = ~listed /\ features.ie = IF listed THEN w.ie ELSE "absent"
  OBVIOUS
<1>3. /\ \A k, x : NotSatisfied(k, x).says = "not-satisfied"
      /\ \A k, x : Satisfied(k, x).says = "satisfied"
      /\ \A k : CannotTell(k).says = "unassessed"
  BY DEF NotSatisfied, Satisfied, CannotTell, Outcome
<1> HIDE DEF fs, features, listed
<1>4. disabled <=> "ie" \notin b.garbled /\ w.iePolicy
  <2>1. IePolicyFact \in DOMAIN fs
    BY <1>1
  <2> QED
    BY <1>1, <2>1, Zenon
<1>5. Ie11Disabled(fs) =
        IF ~Usable(fs, FeaturesFact) \/ features.empty THEN CannotTell("collection-error")
        ELSE IF features.ie # "enabled" \/ disabled THEN Satisfied("direct", cites)
        ELSE NotSatisfied("direct", cites)
  BY <1>1, Zenon DEF Ie11Disabled
<1> HIDE DEF disabled, cites
<1>6. /\ said = "satisfied" => listed /\ (features.ie # "enabled" \/ disabled)
      /\ said = "not-satisfied" => listed /\ features.ie = "enabled" /\ ~disabled
  BY <1>2, <1>3, <1>5
<1>7. PassClaim("ie11-disabled", w) = (w.ie # "enabled" \/ w.iePolicy)
  BY DEF PassClaim
<1>8. FailureClaim("ie11-disabled", w) = ~PassClaim("ie11-disabled", w)
  BY DEF FailureClaim
<1>9. /\ said = "satisfied" => PassClaim("ie11-disabled", w)
      /\ said = "not-satisfied" /\ "ie" \notin b.garbled => FailureClaim("ie11-disabled", w)
  BY <1>2, <1>4, <1>6, <1>7, <1>8, Zenon
<1> QED
  BY <1>9, Zenon DEF fs

LEMMA EntraTruth ==
  ASSUME NEW w, NEW b, b.skipped = {}, NEW c \in EntraChecks
  PROVE  LET said == EntraJudge(c, CollectEntraId(w, b)).says
         IN  /\ /\ said = "satisfied"
                /\ c = "mfa-required" => ~\E p \in w.policies : p.orElse \/ p.appsExcluded
                => PassClaim(c, w)
             /\ /\ said = "not-satisfied"
                /\ c = "mfa-required" => "strengths" \notin b.garbled \cup b.hidden
                => FailureClaim(c, w)
<1> DEFINE fs        == CollectEntraId(w, b)
           answered  == "methods" \notin b.garbled \cup b.skipped
           methods   == [configurations |-> IF answered THEN w.methods ELSE {}]
           policies  == Answers("policies", w.policies, b)
           strengths == Answers("strengths", w.strengths, b)
           said      == EntraJudge(c, fs).says
<1>1. /\ DOMAIN fs = {MethodsFact, PoliciesFact, StrengthsFact}
      /\ fs[PoliciesFact].partial <=> "policies" \in b.garbled \/ "policies" \in b.hidden \ b.skipped
      /\ fs[MethodsFact].value = methods
      /\ fs[PoliciesFact].value = policies
      /\ fs[StrengthsFact].value = strengths
  BY EntraFacts, Zenon
<1>2. methods.configurations = IF answered THEN w.methods ELSE {}
  OBVIOUS
<1>3. /\ \A k, x : NotSatisfied(k, x).says = "not-satisfied"
      /\ \A k, x : Satisfied(k, x).says = "satisfied"
      /\ \A k : CannotTell(k).says = "unassessed"
  BY DEF NotSatisfied, Satisfied, CannotTell, Outcome
<1>4. /\ policies \subseteq w.policies /\ strengths \subseteq w.strengths
      /\ "policies" \notin b.garbled \cup b.hidden => policies = w.policies
      /\ "strengths" \notin b.garbled \cup b.hidden => strengths = w.strengths
  BY DEF Answers
<1> HIDE DEF fs, methods, policies, strengths, answered
<1>5. CASE c = "mfa-factor-types"
  <2> DEFINE found == methods.configurations
             mail  == \E m \in found : m.id = "email" /\ m.enabled
  <2>1. EntraJudge(c, fs) = MfaFactorTypes(fs)
    BY <1>5 DEF EntraJudge
  <2>2. MfaFactorTypes(fs)
          = IF MethodsFact \notin DOMAIN fs THEN CannotTell("collection-error")
            ELSE IF fs[MethodsFact].partial THEN CannotTell("partial-population")
            ELSE IF found = {} THEN CannotTell("collection-error")
            ELSE IF mail THEN NotSatisfied("proxy", {MethodsFact})
            ELSE Satisfied("proxy", {MethodsFact})
    BY <1>1, Zenon DEF MfaFactorTypes
  <2> HIDE DEF mail, found
  <2>3. /\ said = "satisfied" => found # {} /\ ~mail
        /\ said = "not-satisfied" => found # {} /\ mail
    BY <1>3, <2>1, <2>2
  <2>4. found # {} => found = w.methods
    BY <1>2 DEF found
  <2>5. PassClaim(c, w) = ~\E m \in w.methods : m.id = "email" /\ m.enabled
    BY <1>5 DEF PassClaim
  <2>6. FailureClaim(c, w) = ~PassClaim(c, w)
    BY <1>5 DEF FailureClaim
  <2> QED
    BY <2>3, <2>4, <2>5, <2>6, Zenon DEF mail, fs
<1>6. CASE c = "mfa-required"
  <2> DEFINE qualifying == {p \in Enforcing(policies) : TargetsEveryone(p) /\ GrantsMfa(p, strengths)}
             cites      == {PoliciesFact, StrengthsFact} \cap DOMAIN fs
  <2>1. EntraJudge(c, fs) = MfaRequired(fs)
    BY <1>6 DEF EntraJudge
  <2>2. StrengthsFact \in DOMAIN fs /\ PoliciesFact \in DOMAIN fs
    BY <1>1
  <2>3. MfaRequired(fs)
          = IF fs[PoliciesFact].partial THEN CannotTell("partial-population")
            ELSE IF qualifying # {} THEN Satisfied("proxy", cites)
            ELSE NotSatisfied("proxy", cites)
    BY <1>1, <2>2 DEF MfaRequired
  <2> HIDE DEF qualifying, cites
  <2>4. /\ said = "satisfied" => qualifying # {}
        /\ said = "not-satisfied" => qualifying = {} /\ ~fs[PoliciesFact].partial
    BY <1>3, <2>1, <2>3
  <2>5. ASSUME said = "satisfied", ~\E p \in w.policies : p.orElse \/ p.appsExcluded
        PROVE  \E p \in w.policies : DemandsMfa(w, p)
    <3>1. PICK p \in policies : /\ p.state = "enabled" /\ TargetsEveryone(p)
                                /\ GrantsMfa(p, strengths)
      BY <2>4, <2>5 DEF qualifying, Enforcing
    <3>2. p \in w.policies
      BY <1>4
    <3>3. ~p.appsExcluded /\ ~p.orElse
      BY <2>5, <3>2
    <3>4. p.mfa \/ p.strength \in {s.id : s \in w.strengths}
      BY <1>4, <3>1 DEF GrantsMfa
    <3>5. p.allUsers /\ p.allApps /\ p.excluded <= MaxExcluded
      BY <3>1, Zenon DEF TargetsEveryone
    <3>6. DemandsMfa(w, p)
      BY <3>1, <3>3, <3>4, <3>5, Zenon DEF DemandsMfa
    <3> QED
      BY <3>2, <3>6
  <2>6. ASSUME said = "not-satisfied", "strengths" \notin b.garbled \cup b.hidden
        PROVE  ~\E p \in w.policies : DemandsMfa(w, p)
    <3>1. policies = w.policies /\ strengths = w.strengths
      BY <1>1, <1>4, <2>4, <2>6
    <3>2. ASSUME NEW p \in w.policies, DemandsMfa(w, p) PROVE p \in qualifying
      <4>1. /\ p.state = "enabled" /\ p.allUsers /\ p.allApps /\ p.excluded <= MaxExcluded
            /\ p.mfa \/ p.strength \in {s.id : s \in w.strengths}
        BY <3>2, Zenon DEF DemandsMfa
      <4>2. TargetsEveryone(p)
        BY <4>1, Zenon DEF TargetsEveryone
      <4>3. GrantsMfa(p, strengths)
        BY <3>1, <4>1, Zenon DEF GrantsMfa
      <4>4. p \in Enforcing(policies)
        BY <3>1, <4>1 DEF Enforcing
      <4> QED
        BY <4>2, <4>3, <4>4 DEF qualifying
    <3> QED
      BY <2>4, <2>6, <3>2
  <2>7. PassClaim(c, w) = \E p \in w.policies : DemandsMfa(w, p)
    BY <1>6 DEF PassClaim
  <2>8. FailureClaim(c, w) = ~PassClaim(c, w)
    BY <1>6 DEF FailureClaim
  <2> QED
    BY <1>6, <2>5, <2>6, <2>7, <2>8, Zenon DEF fs
<1> QED
  BY <1>5, <1>6 DEF EntraChecks

\* What a family's checks say, unless the code is known to say it wrongly.
LEMMA VerdictTruth ==
  ASSUME PathInv, NEW c \in AllChecks \ (OnPaths \cup OnDates), Judged(c)
  PROVE  LET said == Evaluator(c, Written).says
             w    == case.world
         IN  /\ said = "satisfied" => PassClaim(c, w) \/ PassesWrongly(c, w)
             /\ said = "not-satisfied" => FailureClaim(c, w) \/ FailsWrongly(c, w)
<1> DEFINE said == Evaluator(c, Written).says
           w    == case.world
           b    == blind
           goal == /\ said = "satisfied" => PassClaim(c, w) \/ PassesWrongly(c, w)
                   /\ said = "not-satisfied" => FailureClaim(c, w) \/ FailsWrongly(c, w)
<1>1. /\ case.family \in Families /\ case.policy \in Policy /\ c \in ChecksOf(case.family)
      /\ Machine \notin b.hidden
  <2>1. blind \in Unreadable[case.family] /\ case.family \in Families
    BY JudgedOnWritten, Zenon
  <2>2. Machine \notin b.hidden \cup b.skipped
    BY <2>1, UnreadableAssumption
  <2>3. case.policy \in Policy /\ c \in ChecksOf(case.family)
    BY JudgedOnWritten, Zenon
  <2> QED
    BY <2>1, <2>2, <2>3
<1> SUFFICES ASSUME b.skipped = {} PROVE goal
  BY DEF PassesWrongly, FailsWrongly
<1>2. CASE case.family = "office" /\ c \in OfficeChecks
  <2>1. Written = RedactOffice(case.policy, CollectOffice(w, b))
    BY <1>2, Zenon DEF Written, Redacted, Collected, CollectFamily
  <2>2. Evaluator(c, Written) = OfficeJudge(c, RedactOffice(case.policy, CollectOffice(w, b)))
    BY <1>2, <2>1, OfficeCheck, Zenon
  <2>3. /\ /\ said = "satisfied"
           /\ ~(case.policy.sid = "drop" /\ b.hidden \cap People # {})
           /\ ~(c = "macro-av-scanning" /\ b.hidden # {})
           => PassClaim(c, w)
        /\ said = "not-satisfied" => FailureClaim(c, w)
    BY <1>1, <1>2, <2>2, OfficeTruth
  <2> QED
    BY <2>3, Zenon DEF PassesWrongly
<1>3. CASE case.family = "appcontrol" /\ c \in AppControlChecks
  <2>1. Written = RedactAppControl(case.policy, CollectAppControl(w, b))
    BY <1>3, Zenon DEF Written, Redacted, Collected, CollectFamily
  <2>2. Evaluator(c, Written) = AppControlJudge(c, RedactAppControl(case.policy, CollectAppControl(w, b)))
    BY <1>3, <2>1, AppControlCheck, Zenon
  <2>3. c \in AppControlChecks \ OnPaths
    BY <1>3
  <2>4. /\ said = "satisfied" => PassClaim(c, w)
        /\ said = "not-satisfied" /\ b.hidden \cap {"applocker", "deviceguard"} = {} => FailureClaim(c, w)
    BY <1>1, <2>2, <2>3, AppControlTruth
  <2> QED
    BY <1>3, <2>4, Zenon DEF FailsWrongly
<1>4. CASE case.family = "browsers" /\ c \in BrowserChecks
  <2>1. Written = RedactBrowsers(case.policy, CollectFamily("browsers", w, b))
    BY <1>4, Zenon DEF Written, Redacted, Collected
  <2>2. Evaluator(c, Written)
          = BrowsersJudge(c, RedactBrowsers(case.policy, CollectFamily("browsers", w, b)))
    BY <1>4, <2>1, BrowserCheck, Zenon
  <2>3. w.policy \in KeyPolicies /\ w.ieMode \subseteq Hives
    BY <1>4, CasesAssumption DEF PathInv
  <2>4. /\ /\ said = "satisfied" /\ b.inventory = {}
           /\ ~(case.policy.sid = "drop" /\ b.hidden \cap People # {})
           /\ c = "browser-ads-blocked" =>
                ~\E s \in Hives, k \in BrowserKinds : w.policy[<<s, k, "recommended">>] = "blocker"
           /\ c = "browser-java-blocked" => w.ieMode \cap People = {}
           => PassClaim(c, w)
        /\ said = "not-satisfied" /\ b.hidden \cap People = {} => FailureClaim(c, w)
    BY <1>1, <1>4, <2>2, <2>3, BrowsersTruth
  <2> QED
    BY <1>4, <2>4, Zenon DEF PassesWrongly, FailsWrongly
<1>5. CASE case.family = "windows" /\ c = "ie11-disabled"
  <2>1. Written = CollectWindowsBase(w, b)
    BY <1>5, Zenon DEF Written, Redacted, Collected, CollectFamily
  <2>2. Evaluator(c, Written) = WindowsBaseJudge(c, CollectWindowsBase(w, b))
    <3>1. c \in WindowsBaseChecks
      BY <1>5 DEF WindowsBaseChecks
    <3> QED
      BY <2>1, <3>1, WindowsBaseCheck, Zenon
  <2>3. WindowsBaseJudge(c, CollectWindowsBase(w, b)) = Ie11Disabled(CollectWindowsBase(w, b))
    BY <1>5 DEF WindowsBaseJudge
  <2>4. /\ said = "satisfied" => PassClaim("ie11-disabled", w)
        /\ said = "not-satisfied" /\ "ie" \notin b.garbled => FailureClaim("ie11-disabled", w)
    BY <2>2, <2>3, IeTruth
  <2> QED
    BY <1>5, <2>4, Zenon DEF FailsWrongly
<1>6. CASE case.family = "tenant" /\ c \in EntraChecks
  <2>1. Written = CollectEntraId(w, b)
    BY <1>6, Zenon DEF Written, Redacted, Collected, CollectFamily
  <2>2. Evaluator(c, Written) = EntraJudge(c, CollectEntraId(w, b))
    BY <1>6, <2>1, EntraCheck, Zenon
  <2>3. /\ /\ said = "satisfied"
           /\ c = "mfa-required" => ~\E p \in w.policies : p.orElse \/ p.appsExcluded
           => PassClaim(c, w)
        /\ /\ said = "not-satisfied"
           /\ c = "mfa-required" => "strengths" \notin b.garbled \cup b.hidden
           => FailureClaim(c, w)
    BY <1>6, <2>2, EntraTruth
  <2> QED
    BY <2>3, Zenon DEF PassesWrongly, FailsWrongly
<1>7. c \notin ApplicationChecks /\ c \notin ReleaseChecks
      /\ (c \in WindowsBaseChecks => c = "ie11-disabled")
  BY DEF OnDates, ReleaseChecks, WindowsBaseChecks
<1> HIDE DEF goal
<1> QED
  BY <1>1, <1>2, <1>3, <1>4, <1>5, <1>6, <1>7, FamilyChecks

LEMMA PassHolds == PathInv => PassIsTrueOfTheSubject
<1> SUFFICES ASSUME PathInv, NEW c \in AllChecks \ (OnPaths \cup OnDates), Judged(c),
                    Status(c) = "satisfied"
             PROVE  PassClaim(c, case.world) \/ PassesWrongly(c, case.world)
  BY DEF PassIsTrueOfTheSubject
<1>1. Eval!JudgeCheck(c, Written, {}).status = "satisfied"
  BY JudgedOnWritten, Zenon
<1>2. Evaluator(c, Written).says = "satisfied"
  BY <1>1, StatusIsSaid, Zenon
<1> QED
  BY <1>2, VerdictTruth

LEMMA FailureHolds == PathInv => FailureIsTrueOfTheSubject
<1> SUFFICES ASSUME PathInv, NEW c \in AllChecks \ (OnPaths \cup OnDates), Judged(c),
                    Status(c) = "not-satisfied"
             PROVE  FailureClaim(c, case.world) \/ FailsWrongly(c, case.world)
  BY DEF FailureIsTrueOfTheSubject
<1>1. Eval!JudgeCheck(c, Written, {}).status = "not-satisfied"
  BY JudgedOnWritten, Zenon
<1>2. Evaluator(c, Written).says = "not-satisfied"
  BY <1>1, StatusIsSaid, Zenon
<1> QED
  BY <1>2, VerdictTruth

\* A pass is true of the subject as it is, with what was not read of it: whatever
\* the subject, the blindness of its collectors and the redaction policy, outside
\* the cases that PassesWrongly names.  evaluate.py:139-163; checks/
THEOREM PassIsTrueOfTheSubjectAlways == Spec => []PassIsTrueOfTheSubject
BY PathTaken, PassHolds, PTL

\* A failure is true of the subject: what could not be read is never counted as
\* one, outside the cases that FailsWrongly names.
\* tests/test_assurance_invariants.py; docs/platforms/entra-id.md:119-124
THEOREM FailureIsTrueOfTheSubjectAlways == Spec => []FailureIsTrueOfTheSubject
BY PathTaken, FailureHolds, PTL

-----------------------------------------------------------------------------
(* Vendor support.                                                         *)

\* What lookup knows of a cycle is what the only entry it selects says.
LEMMA LookupSettles ==
  ASSUME NEW product, NEW wanted, ~Lookup(product, wanted).unknown
  PROVE  /\ product \in DOMAIN Dataset
         /\ \E e : /\ Selected(Dataset[product], wanted) = {e}
                   /\ Lookup(product, wanted) = StatusOf(e)
<1> DEFINE found == Selected(Dataset[product], wanted)
<1>1. UnknownStatus.unknown = TRUE
  BY DEF UnknownStatus, SupportStatus
<1>2. product \in DOMAIN Dataset
  BY <1>1, Zenon DEF Lookup
<1>3. Lookup(product, wanted) =
        IF Cardinality(found) = 1 THEN StatusOf(CHOOSE e \in found : TRUE) ELSE UnknownStatus
  BY <1>2, Zenon DEF Lookup
<1>4. found \subseteq Dataset[product]
  BY DEF Selected, Editions
<1>5. IsFiniteSet(found)
  BY <1>2, <1>4, DatasetAssumption, FS_Subset
<1> HIDE DEF found
<1>6. Cardinality(found) = 1 /\ Lookup(product, wanted) = StatusOf(CHOOSE e \in found : TRUE)
  BY <1>1, <1>3
<1>7. PICK x : found = {x}
  BY <1>5, <1>6, FS_Singleton
<1>8. (CHOOSE e \in found : TRUE) = x
  BY <1>7
<1>9. found = {x} /\ Lookup(product, wanted) = StatusOf(x)
  BY <1>6, <1>7, <1>8
<1> QED
  BY <1>2, <1>9 DEF found

\* A verdict on an operating system is that of its status, when it is known.
LEMMA OsVerdict ==
  ASSUME NEW value, OsVendorSupported(value).says # "unassessed"
  PROVE  LET cycle  == IF value.product \in {"windows", "windows-server"} /\ value.cycle = NoCycle
                       THEN WindowsCycle(value) ELSE value.cycle
             status == Lookup(value.product, cycle)
         IN  /\ value.product # "" /\ cycle # NoCycle /\ ~status.unknown
             /\ OsVendorSupported(value).says =
                  IF Supported(status) THEN "satisfied" ELSE "not-satisfied"
<1> DEFINE cycle  == IF value.product \in {"windows", "windows-server"} /\ value.cycle = NoCycle
                     THEN WindowsCycle(value) ELSE value.cycle
           status == Lookup(value.product, cycle)
           none   == value.product = "" \/ cycle = NoCycle
<1>1. OsVendorSupported(value) =
        IF none \/ status.unknown THEN CannotTell("unsupported-platform")
        ELSE IF Supported(status) THEN Satisfied("proxy", {ReleaseFact})
        ELSE NotSatisfied("proxy", {ReleaseFact})
  BY Zenon DEF OsVendorSupported
<1>2. /\ \A k, x : NotSatisfied(k, x).says = "not-satisfied"
      /\ \A k, x : Satisfied(k, x).says = "satisfied"
      /\ \A k : CannotTell(k).says = "unassessed"
  BY DEF NotSatisfied, Satisfied, CannotTell, Outcome
<1> HIDE DEF none, status, cycle
<1>3. /\ ~none /\ ~status.unknown
      /\ OsVendorSupported(value).says = IF Supported(status) THEN "satisfied" ELSE "not-satisfied"
  BY <1>1, <1>2
<1> QED
  BY <1>3, Zenon DEF none, status, cycle

LEMMA SupportHolds == PathInv => SupportIsNeverGuessed
<1> DEFINE c     == "os-vendor-supported"
           value == bundle[ReleaseFact].value
<1> SUFFICES ASSUME PathInv, Judged(c), case.family = "windows",
                    Status(c) \in {"satisfied", "not-satisfied"},
                    NEW e \in Selected(Dataset[value.product], WindowsCycle(value))
             PROVE  Supported(StatusOf(e)) = (Status(c) = "satisfied")
  BY Zenon DEF SupportIsNeverGuessed
<1>1. c \in WindowsBaseChecks
  BY DEF WindowsBaseChecks
<1>2. bundle = Written
  BY DEF Judged, PathInv
<1>3. Written = CollectWindowsBase(case.world, blind)
  BY Zenon DEF Written, Redacted, Collected, CollectFamily
<1>4. /\ ReleaseFact \in DOMAIN Written
      /\ value = WindowsIdentity(case.world, "release" \notin blind.garbled)
  BY <1>2, <1>3, WindowsFacts, Zenon
<1>5. value.product \in {"windows", "windows-server"} /\ value.cycle = NoCycle
  <2>1. \A product, os, release, edition :
          LET r == [product |-> product, cycle |-> NoCycle, os |-> os, release |-> release,
                    edition |-> edition]
          IN  r.product = product /\ r.cycle = NoCycle
    OBVIOUS
  <2>2. \E product \in {"windows", "windows-server"} : \E os, release, edition :
          value = [product |-> product, cycle |-> NoCycle, os |-> os, release |-> release,
                   edition |-> edition]
    BY <1>4, Zenon DEF WindowsIdentity
  <2> HIDE DEF value
  <2> QED
    BY <2>1, <2>2
<1> HIDE DEF value
<1>6. Evaluator(c, Written) = OsVendorSupported(value)
  <2>1. Evaluator(c, Written) = WindowsBaseJudge(c, Written)
    BY <1>1, WindowsBaseCheck, Zenon
  <2>2. WindowsBaseJudge(c, Written) = OsVendorSupported(Written[ReleaseFact].value)
    BY <1>4 DEF WindowsBaseJudge
  <2> QED
    BY <1>2, <2>1, <2>2, Zenon DEF value
<1>7. Status(c) = OsVendorSupported(value).says
  <2>1. Status(c) = Eval!JudgeCheck(c, Written, {}).status
    BY JudgedOnWritten, Zenon
  <2>2. c \in AllChecks
    BY <1>1, WindowsBaseCheck, Zenon
  <2>3. /\ Status(c) = "satisfied" => Evaluator(c, Written).says = "satisfied"
        /\ Status(c) = "not-satisfied" => Evaluator(c, Written).says = "not-satisfied"
    BY <2>1, <2>2, StatusIsSaid, Zenon
  <2> QED
    BY <1>6, <2>3
<1> DEFINE status == Lookup(value.product, WindowsCycle(value))
<1>8. ~status.unknown /\ Status(c) = IF Supported(status) THEN "satisfied" ELSE "not-satisfied"
  <2>1. OsVendorSupported(value).says # "unassessed"
    BY <1>7
  <2> QED
    BY <1>5, <1>7, <2>1, OsVerdict, Zenon
<1>9. PICK x : /\ Selected(Dataset[value.product], WindowsCycle(value)) = {x}
               /\ status = StatusOf(x)
  BY <1>8, LookupSettles, Zenon
<1>10. e = x
  BY <1>9
<1>11. Supported(status) \in BOOLEAN
  BY DEF Supported
<1> HIDE DEF status
<1> QED
  BY <1>8, <1>9, <1>10, <1>11

\* No edition is guessed: of a Windows release that the dataset has several dates
\* for, there is no verdict that another of its editions would not get too,
\* whatever the dataset.  os_support.py:41-51; eol.py:114-143
THEOREM SupportIsNeverGuessedAlways == Spec => []SupportIsNeverGuessed
BY PathTaken, SupportHolds, PTL

-----------------------------------------------------------------------------
(* More evidence.                                                          *)

LEMMA EverythingIsRead ==
  /\ EverythingRead.garbled = {} /\ EverythingRead.hidden = {}
  /\ EverythingRead.skipped = {} /\ EverythingRead.inventory = {}
BY DEF EverythingRead

\* A pass is not overturned by more evidence, nor is a failure.
PassStays(some, all) == some = "satisfied" => all \notin {"not-satisfied", "not-applicable"}

FailureStays(some, all) == some = "not-satisfied" => all \notin {"satisfied", "not-applicable"}

LEMMA OfficeStays ==
  ASSUME NEW policy \in Policy, NEW w, NEW b, b.skipped = {}, Machine \notin b.hidden,
         NEW c \in OfficeChecks
  PROVE  LET some == OfficeJudge(c, RedactOffice(policy, CollectOffice(w, b))).says
             all  == OfficeJudge(c, RedactOffice(policy, CollectOffice(w, EverythingRead))).says
         IN  /\ /\ ~(policy.sid = "drop" /\ b.hidden \cap People # {})
                /\ ~(c = "macro-av-scanning" /\ b.hidden # {})
                => PassStays(some, all)
             /\ FailureStays(some, all)
<1> DEFINE fs(x)    == CollectOffice(w, x)
           again(x) == RedactOffice(policy, fs(x))
           says(x)  == OfficeJudge(c, again(x)).says
           hides    == /\ ~(policy.sid = "drop" /\ b.hidden \cap People # {})
                       /\ ~(c = "macro-av-scanning" /\ b.hidden # {})
<1>1. /\ says(b) = "satisfied" /\ hides => PassClaim(c, w)
      /\ says(b) = "not-satisfied" => FailureClaim(c, w)
  BY OfficeTruth
<1>2. /\ says(EverythingRead) = "satisfied" => PassClaim(c, w)
      /\ says(EverythingRead) = "not-satisfied" => FailureClaim(c, w)
  <2>1. EverythingRead.skipped = {} /\ EverythingRead.hidden = {} /\ Machine \notin EverythingRead.hidden
    BY EverythingIsRead
  <2>2. /\ ~(policy.sid = "drop" /\ EverythingRead.hidden \cap People # {})
        /\ ~(c = "macro-av-scanning" /\ EverythingRead.hidden # {})
    BY <2>1
  <2>3. /\ /\ says(EverythingRead) = "satisfied"
           /\ ~(policy.sid = "drop" /\ EverythingRead.hidden \cap People # {})
           /\ ~(c = "macro-av-scanning" /\ EverythingRead.hidden # {})
           => PassClaim(c, w)
        /\ says(EverythingRead) = "not-satisfied" => FailureClaim(c, w)
    BY <2>1, OfficeTruth
  <2> HIDE DEF says
  <2> QED
    BY <2>2, <2>3
<1>3. ~(PassClaim(c, w) /\ FailureClaim(c, w))
  BY DEF PassClaim, FailureClaim, OfficeChecks
<1>4. \A x : again(x)[InstallFact].value <=> "install" \notin x.garbled /\ w.product = "click-to-run"
  <2> TAKE x
  <2>1. /\ DOMAIN fs(x) = {InstallFact, MacroFact}
        /\ fs(x)[InstallFact].value <=> "install" \notin x.garbled /\ w.product = "click-to-run"
    BY OfficeFacts, Zenon
  <2>2. InstallFact # MacroFact
    BY DEF InstallFact, MacroFact
  <2> HIDE DEF fs
  <2>3. again(x)[InstallFact] = fs(x)[InstallFact]
    BY <2>1, <2>2, OfficeRedacted
  <2> QED
    BY <2>1, <2>3, Zenon
<1>5. says(b) \in {"satisfied", "not-satisfied"} => w.product = "click-to-run"
  <2> SUFFICES ASSUME says(b) \in {"satisfied", "not-satisfied"} PROVE w.product = "click-to-run"
    OBVIOUS
  <2> HIDE DEF again
  <2>1. again(b)[InstallFact].value
    BY OfficeJudged
  <2> QED
    BY <1>4, <2>1, Zenon
<1>6. says(EverythingRead) = "not-applicable" => w.product # "click-to-run"
  <2> SUFFICES ASSUME says(EverythingRead) = "not-applicable" PROVE w.product # "click-to-run"
    OBVIOUS
  <2> DEFINE answer == OfficeJudge(c, again(EverythingRead))
  <2>1. answer.says = "not-applicable"
    OBVIOUS
  <2>2. Answer(answer) \/ ~again(EverythingRead)[InstallFact].value
    BY OfficeAnswers, Zenon
  <2> HIDE DEF answer
  <2>3. ~Answer(answer)
    BY <2>1, AnswerSays
  <2>4. "install" \notin EverythingRead.garbled
    BY EverythingIsRead
  <2> QED
    BY <1>4, <2>2, <2>3, <2>4, Zenon
<1> HIDE DEF says
<1>7. /\ hides => PassStays(says(b), says(EverythingRead))
      /\ FailureStays(says(b), says(EverythingRead))
  BY <1>1, <1>2, <1>3, <1>5, <1>6 DEF PassStays, FailureStays
<1> QED
  BY <1>7, Zenon DEF says

LEMMA AppControlStays ==
  ASSUME NEW policy \in Policy, NEW w, NEW b, NEW c \in AppControlChecks \ OnPaths
  PROVE  LET some == AppControlJudge(c, RedactAppControl(policy, CollectAppControl(w, b))).says
             all  == AppControlJudge(c, RedactAppControl(policy, CollectAppControl(w, EverythingRead))).says
         IN  /\ PassStays(some, all)
             /\ b.hidden \cap {"applocker", "deviceguard"} = {} => FailureStays(some, all)
<1> DEFINE answer(x) == AppControlJudge(c, RedactAppControl(policy, CollectAppControl(w, x)))
           says(x)   == answer(x).says
<1>1. \A x : /\ says(x) = "satisfied" => PassClaim(c, w)
             /\ says(x) = "not-satisfied" /\ x.hidden \cap {"applocker", "deviceguard"} = {} =>
                  FailureClaim(c, w)
  BY AppControlTruth
<1>2. ~(PassClaim(c, w) /\ FailureClaim(c, w))
  BY DEF FailureClaim, AppControlChecks
<1>3. Answer(answer(EverythingRead))
  BY AppControlAnswers
<1> HIDE DEF answer
<1>4. says(EverythingRead) # "not-applicable"
  BY <1>3, AnswerSays
<1> HIDE DEF says
<1>5. /\ PassStays(says(b), says(EverythingRead))
      /\ b.hidden \cap {"applocker", "deviceguard"} = {} => FailureStays(says(b), says(EverythingRead))
  BY <1>1, <1>2, <1>4, EverythingIsRead DEF PassStays, FailureStays
<1> QED
  BY <1>5, Zenon DEF says, answer

\* The search for writable directories: a pass says that it was complete.
LEMMA PathsVerdict ==
  ASSUME NEW state, NEW paths
  PROVE  LET said  == UserWritablePathsControlled(state, paths).says
             found == WritableLocations(paths) # {} /\ PermittedRules(state, paths) # {}
         IN  /\ said = "satisfied" =>
                  /\ ~WdacEnforcing(state) /\ Enforced(state) # {}
                  /\ ~found /\ ~SearchIncomplete(paths)
             /\ said = "not-satisfied" =>
                  ~WdacEnforcing(state) /\ (Enforced(state) = {} \/ found)
<1> DEFINE verdict   == UserWritablePathsControlled(state, paths)
           wdac      == WdacEnforcing(state)
           enforced  == Enforced(state)
           locations == WritableLocations(paths)
           permitted == PermittedRules(state, paths)
           unparsed  == UNION {Unparsed(state.collections[t].pathRules) : t \in Enforced(state)}
           cut       == SearchIncomplete(paths)
           cites     == {StateFact, PathsFact}
           otherwise == IF cut THEN CannotTell("partial-population") ELSE Satisfied("partial", cites)
<1>1. /\ \A k, x : NotSatisfied(k, x).says = "not-satisfied"
      /\ \A k, x : Satisfied(k, x).says = "satisfied"
      /\ \A k : CannotTell(k).says = "unassessed"
  BY DEF NotSatisfied, Satisfied, CannotTell, Outcome
<1>2. verdict =
        CASE wdac  -> CannotTell("insufficient-privilege")
          [] ~wdac /\ enforced = {} -> NotSatisfied("partial", cites)
          [] ~wdac /\ enforced # {} ->
               IF locations = {} THEN otherwise
               ELSE IF permitted # {} THEN NotSatisfied("partial", cites)
               ELSE IF unparsed # {} THEN CannotTell("collection-error")
               ELSE otherwise
  BY DEF UserWritablePathsControlled
<1>3. wdac \in BOOLEAN /\ cut \in BOOLEAN
  BY DEF WdacEnforcing, SearchIncomplete
<1> HIDE DEF verdict, wdac, enforced, locations, permitted, unparsed, cut, cites
<1>4. /\ verdict.says = "satisfied" =>
           ~wdac /\ enforced # {} /\ ~(locations # {} /\ permitted # {}) /\ ~cut
      /\ verdict.says = "not-satisfied" =>
           ~wdac /\ (enforced = {} \/ (locations # {} /\ permitted # {}))
  BY <1>1, <1>2, <1>3
<1> QED
  BY <1>4, Zenon DEF verdict, wdac, enforced, locations, permitted, cut

\* What was found writable is found again by a reading that is not blind.
LEMMA MoreIsWritable ==
  ASSUME NEW w, NEW b, b.skipped = {}
  PROVE  /\ WritableLocations(PathsValue(w, b)) \subseteq WritableLocations(PathsValue(w, EverythingRead))
         /\ ~SearchIncomplete(PathsValue(w, b)) =>
              PathsValue(w, b) = PathsValue(w, EverythingRead)
<1> DEFINE e           == EverythingRead
           met(how)    == {d \in DOMAIN w.directories : w.directories[d].met = how}
           probes(x)   == {Probe(w, d, x) : d \in met("probe")}
           walks(x)    == {Probe(w, d, x) : d \in met("walk")}
           walked(x)   == {q \in walks(x) : q.writable}
           cut(x)      == x.hidden \cap met("walk") # {}
           value(x)    == [probes |-> probes(x), walked |-> walked(x), truncated |-> cut(x)]
           unread(x)   == {p \in probes(x) \cup walked(x) : p.access = "denied"}
<1>1. e.skipped = {} /\ e.hidden = {}
  BY EverythingIsRead
<1>2. ASSUME NEW x, x.skipped = {} PROVE PathsValue(w, x) = value(x)
  <2>1. DOMAIN w.directories \ x.skipped = DOMAIN w.directories
    BY <1>2
  <2> QED
    BY <2>1 DEF PathsValue
<1>3. \A x : /\ value(x).probes = probes(x) /\ value(x).walked = walked(x)
             /\ value(x).truncated = cut(x)
  OBVIOUS
<1>4. \A x, d : /\ Probe(w, d, x).path = w.directories[d].path
                /\ Probe(w, d, x).access = IF d \in x.hidden THEN "denied" ELSE "ok"
                /\ Probe(w, d, x).writable = (d \notin x.hidden /\ w.directories[d].writable)
                /\ d \notin x.hidden =>
                     Probe(w, d, x) = [path |-> w.directories[d].path, access |-> "ok",
                                       writable |-> TRUE /\ w.directories[d].writable]
  BY DEF Probe
<1>5. \A d : d \notin b.hidden => Probe(w, d, b) = Probe(w, d, e)
  BY <1>1, <1>4
<1> HIDE DEF e, value, met
<1>6. WritableLocations(value(b)) \subseteq WritableLocations(value(e))
  <2> SUFFICES ASSUME NEW l \in WritableLocations(value(b)) PROVE l \in WritableLocations(value(e))
    OBVIOUS
  <2>1. PICK p \in probes(b) \cup walked(b) : p.writable /\ p.path = l
    BY <1>3 DEF WritableLocations
  <2>2. p \in probes(e) \cup walked(e)
    <3>1. PICK d \in met("probe") \cup met("walk") :
            p = Probe(w, d, b) /\ (p \in probes(b) \/ d \in met("walk"))
      BY <2>1
    <3>2. d \notin b.hidden
      BY <1>4, <2>1, <3>1
    <3>3. p = Probe(w, d, e)
      BY <1>5, <3>1, <3>2
    <3> QED
      BY <2>1, <3>1, <3>3
  <2> QED
    BY <1>3, <2>1, <2>2 DEF WritableLocations
<1>7. ASSUME ~SearchIncomplete(value(b)) PROVE value(b) = value(e)
  <2>1. ~cut(b) /\ unread(b) = {}
    BY <1>3, <1>7, Zenon DEF SearchIncomplete, UnreadableProbes
  <2>2. \A d \in met("probe") \cup met("walk") : d \notin b.hidden
    <3> SUFFICES ASSUME NEW d \in met("probe") \cup met("walk"), d \in b.hidden PROVE FALSE
      OBVIOUS
    <3>1. d \in met("probe")
      BY <2>1
    <3>2. Probe(w, d, b).access = "denied" /\ Probe(w, d, b) \in probes(b)
      BY <1>4, <3>1
    <3> QED
      BY <2>1, <3>2
  <2>3. \A d \in met("probe") \cup met("walk") : Probe(w, d, b) = Probe(w, d, e)
    BY <1>5, <2>2
  <2>4. probes(b) = probes(e) /\ walks(b) = walks(e)
    BY <2>3
  <2>5. ~cut(e)
    BY <1>1
  <2>6. cut(b) = cut(e)
    BY <2>1, <2>5
  <2> HIDE DEF probes, walks, cut
  <2> QED
    BY <2>4, <2>6 DEF value
<1> QED
  BY <1>1, <1>2, <1>6, <1>7 DEF e

\* Enforcement and permission are read off the collections alone.
LEMMA OfTheCollections ==
  ASSUME NEW state, NEW other, state.collections = other.collections, NEW paths, NEW more,
         WritableLocations(paths) \subseteq WritableLocations(more)
  PROVE  /\ Enforced(state) = Enforced(other)
         /\ PermittedRules(state, paths) \subseteq PermittedRules(other, more)
<1>1. Enforced(state) = Enforced(other)
  BY DEF Enforced
<1>2. \A r \in PermittedRules(state, paths) : r \in PermittedRules(other, more)
  <2> TAKE r \in PermittedRules(state, paths)
  <2>1. ~IsAdminSid(r.sid) /\ \E t \in Enforced(state) : \E l \in WritableLocations(paths) :
          r \in Permitting(state.collections[t].pathRules, l)
    BY DEF PermittedRules
  <2>2. PICK t \in Enforced(other), l \in WritableLocations(more) :
          r \in Permitting(other.collections[t].pathRules, l)
    BY <1>1, <2>1
  <2> QED
    BY <2>1, <2>2 DEF PermittedRules
<1> QED
  BY <1>1, <1>2

\* What a verdict on writable paths is reached on: the collections that answered,
\* and what the search found.
CollectionsAnswered(w, x) ==
  IF "applocker" \in x.hidden THEN [t \in {} |-> <<>>] ELSE w.collections

JudgedAsFound(said, state, rules, paths, policy) ==
  LET found == WritableLocations(paths) # {} /\ PermittedRules(state, paths) # {}
  IN  said \in {"satisfied", "not-satisfied"} =>
        /\ state.collections = [t \in DOMAIN rules |-> RedactCollection(policy, rules[t])]
        /\ said = "satisfied" => Enforced(state) # {} /\ ~found /\ ~SearchIncomplete(paths)
        /\ said = "not-satisfied" => Enforced(state) = {} \/ found

LEMMA PathsJudged ==
  ASSUME NEW policy, NEW w, NEW x, NEW c \in OnPaths
  PROVE  LET again == RedactAppControl(policy, CollectAppControl(w, x))
         IN  JudgedAsFound(AppControlJudge(c, again).says, again[StateFact].value,
                           CollectionsAnswered(w, x), PathsValue(w, x), policy)
<1> DEFINE fs       == CollectAppControl(w, x)
           again    == RedactAppControl(policy, fs)
           answer   == AppControlJudge(c, again)
           state    == again[StateFact].value
           rules    == CollectionsAnswered(w, x)
           paths    == PathsValue(w, x)
           found    == WritableLocations(paths) # {} /\ PermittedRules(state, paths) # {}
           kept(cs) == [t \in DOMAIN cs |-> RedactCollection(policy, cs[t])]
<1> SUFFICES ASSUME answer.says \in {"satisfied", "not-satisfied"}
             PROVE  /\ state.collections = kept(rules)
                    /\ answer.says = "satisfied" =>
                         Enforced(state) # {} /\ ~found /\ ~SearchIncomplete(paths)
                    /\ answer.says = "not-satisfied" => Enforced(state) = {} \/ found
  BY Zenon DEF JudgedAsFound
<1>1. /\ DOMAIN fs = {StateFact, PathsFact}
      /\ "state" \in x.garbled => fs[StateFact].partial
      /\ "paths" \in x.garbled => fs[PathsFact].partial
      /\ fs[StateFact].value = IF "state" \in x.garbled THEN NothingRead ELSE StateValue(w, x)
      /\ fs[PathsFact].value = IF "paths" \in x.garbled THEN NoPaths ELSE PathsValue(w, x)
  BY AppControlFacts, Zenon
<1>2. StateFact # PathsFact
  BY DEF StateFact, PathsFact
<1>3. DOMAIN again = DOMAIN fs /\ \A k \in DOMAIN fs : again[k].partial = fs[k].partial
  <2>1. fs = CollectFamily("appcontrol", w, x) /\ again = Redacted("appcontrol", policy, fs)
    BY Zenon DEF CollectFamily, Redacted
  <2>2. "appcontrol" \in Families
    BY DEF Families
  <2> HIDE DEF fs, again
  <2> QED
    BY <2>1, <2>2, RedactedKeeps
<1> HIDE DEF fs
<1>4. /\ again[PathsFact] = fs[PathsFact]
      /\ state.collections = kept(fs[StateFact].value.collections)
  <2>1. PathsFact \in DOMAIN fs \ {StateFact} /\ StateFact \in DOMAIN fs
    BY <1>1, <1>2
  <2> QED
    BY <2>1, AppControlRedacted
<1> HIDE DEF again
<1>5. answer = UserWritablePathsControlled(state, paths) /\ fs[StateFact].value = StateValue(w, x)
  <2>1. c = "application-control-user-writable-paths"
    BY DEF OnPaths
  <2>2. answer = IF PathsGuard(again) # Proceed THEN PathsGuard(again)
                 ELSE UserWritablePathsControlled(state, again[PathsFact].value)
    BY <2>1 DEF AppControlJudge
  <2>3. \A k : CannotTell(k).says = "unassessed"
    BY DEF CannotTell, Outcome
  <2> HIDE DEF state
  <2>4. PathsGuard(again) = Proceed
    BY <2>2, <2>3 DEF PathsGuard
  <2>5. ~again[StateFact].partial /\ ~again[PathsFact].partial
    <3>1. Proceed.says = "proceed"
      BY DEF Proceed, Outcome
    <3> QED
      BY <2>3, <2>4, <3>1 DEF PathsGuard
  <2>6. "state" \notin x.garbled /\ "paths" \notin x.garbled
    <3>1. StateFact \in DOMAIN fs /\ PathsFact \in DOMAIN fs
      BY <1>1
    <3>2. ~fs[StateFact].partial /\ ~fs[PathsFact].partial
      BY <1>3, <2>5, <3>1
    <3> QED
      BY <1>1, <3>2, Zenon
  <2>7. again[PathsFact].value = paths
    BY <1>1, <1>4, <2>6
  <2> QED
    BY <1>1, <2>2, <2>4, <2>6, <2>7
<1>6. /\ answer.says = "satisfied" => Enforced(state) # {} /\ ~found /\ ~SearchIncomplete(paths)
      /\ answer.says = "not-satisfied" => Enforced(state) = {} \/ found
  <2> HIDE DEF answer, state, paths
  <2> QED
    BY <1>5, PathsVerdict, Zenon
<1>7. state.collections = kept(rules)
  <2>1. fs[StateFact].value.collections = rules
    BY <1>5 DEF StateValue, CollectionsAnswered
  <2> HIDE DEF state, rules
  <2> QED
    BY <1>4, <2>1
<1> QED
  BY <1>6, <1>7

LEMMA PathsStay ==
  ASSUME NEW policy \in Policy, NEW w, NEW b, b.skipped = {}, NEW c \in OnPaths
  PROVE  LET some == AppControlJudge(c, RedactAppControl(policy, CollectAppControl(w, b))).says
             all  == AppControlJudge(c, RedactAppControl(policy, CollectAppControl(w, EverythingRead))).says
         IN  /\ PassStays(some, all)
             /\ b.hidden \cap {"applocker", "deviceguard"} = {} => FailureStays(some, all)
<1> DEFINE e        == EverythingRead
           fs(x)    == CollectAppControl(w, x)
           again(x) == RedactAppControl(policy, fs(x))
           answer(x) == AppControlJudge(c, again(x))
           says(x)  == answer(x).says
           state(x) == again(x)[StateFact].value
           paths(x) == PathsValue(w, x)
           found(x) == WritableLocations(paths(x)) # {} /\ PermittedRules(state(x), paths(x)) # {}
           rules(x) == CollectionsAnswered(w, x)
           kept(cs) == [t \in DOMAIN cs |-> RedactCollection(policy, cs[t])]
<1>5. \A x : Answer(answer(x))
  BY AppControlAnswers DEF OnPaths, AppControlChecks
<1>6. \A x : says(x) # "not-applicable"
  <2> HIDE DEF answer
  <2> QED
    BY <1>5, AnswerSays
<1> DEFINE judged(x) == says(x) \in {"satisfied", "not-satisfied"}
           reached(x) == /\ state(x).collections = kept(rules(x))
                         /\ says(x) = "satisfied" =>
                              Enforced(state(x)) # {} /\ ~found(x) /\ ~SearchIncomplete(paths(x))
                         /\ says(x) = "not-satisfied" => Enforced(state(x)) = {} \/ found(x)
<1>7. ASSUME NEW x PROVE judged(x) => reached(x)
  <2>1. JudgedAsFound(says(x), state(x), rules(x), paths(x), policy)
    BY PathsJudged
  <2> HIDE DEF says, state, rules, paths
  <2> QED
    BY <2>1 DEF JudgedAsFound
<1>10. rules(e) = w.collections
  BY EverythingIsRead DEF CollectionsAnswered
<1>11. /\ WritableLocations(paths(b)) \subseteq WritableLocations(paths(e))
       /\ ~SearchIncomplete(paths(b)) => paths(b) = paths(e)
  BY MoreIsWritable
<1> HIDE DEF says, state, paths, answer, e, kept
<1>8. ASSUME NEW x, says(x) \in {"satisfied", "not-satisfied"}
      PROVE  /\ says(x) = "satisfied" =>
                  Enforced(state(x)) # {} /\ ~found(x) /\ ~SearchIncomplete(paths(x))
             /\ says(x) = "not-satisfied" => Enforced(state(x)) = {} \/ found(x)
  BY <1>7, <1>8
<1>12. \A x : judged(x) => state(x).collections = kept(rules(x))
  BY <1>7
<1>13. \A x : says(x) \in {"satisfied", "not-satisfied"} => judged(x)
  OBVIOUS
<1> HIDE DEF judged, reached
<1>14. ASSUME says(b) = "satisfied" PROVE says(e) # "not-satisfied"
  <2> SUFFICES ASSUME says(e) = "not-satisfied" PROVE FALSE
    OBVIOUS
  <2>1. judged(b) /\ judged(e)
    BY <1>14, <1>13
  <2>2. Enforced(state(b)) # {} /\ ~found(b) /\ paths(b) = paths(e)
    BY <1>8, <1>11, <1>14
  <2>3. "applocker" \notin b.hidden
    <3> SUFFICES ASSUME "applocker" \in b.hidden PROVE FALSE
      OBVIOUS
    <3>1. DOMAIN rules(b) = {}
      BY DEF CollectionsAnswered
    <3> HIDE DEF rules
    <3>2. state(b).collections = kept(rules(b))
      BY <1>12, <2>1, Zenon
    <3>3. DOMAIN state(b).collections = {}
      BY <3>1, <3>2 DEF kept
    <3> QED
      BY <2>2, <3>3 DEF Enforced
  <2>4. state(b).collections = state(e).collections
    <3>1. rules(b) = rules(e)
      BY <1>10, <2>3 DEF CollectionsAnswered
    <3> HIDE DEF rules
    <3> QED
      BY <1>12, <2>1, <3>1, Zenon
  <2>5. /\ Enforced(state(e)) = Enforced(state(b))
        /\ PermittedRules(state(e), paths(e)) \subseteq PermittedRules(state(b), paths(b))
    BY <2>2, <2>4, OfTheCollections
  <2>6. found(e)
    BY <1>8, <2>2, <2>5
  <2> QED
    BY <2>2, <2>5, <2>6
<1>15. ASSUME says(b) = "not-satisfied", b.hidden \cap {"applocker", "deviceguard"} = {}
       PROVE  says(e) # "satisfied"
  <2> SUFFICES ASSUME says(e) = "satisfied" PROVE FALSE
    OBVIOUS
  <2>1. judged(b) /\ judged(e)
    BY <1>15, <1>13
  <2>2. state(b).collections = state(e).collections
    <3>1. rules(b) = rules(e)
      BY <1>10, <1>15 DEF CollectionsAnswered
    <3> HIDE DEF rules
    <3> QED
      BY <1>12, <2>1, <3>1, Zenon
  <2>3. /\ Enforced(state(b)) = Enforced(state(e))
        /\ PermittedRules(state(b), paths(b)) \subseteq PermittedRules(state(e), paths(e))
    BY <1>11, <2>2, OfTheCollections
  <2>4. Enforced(state(e)) # {} /\ ~found(e)
    BY <1>8
  <2>5. found(b)
    BY <1>8, <1>15, <2>3, <2>4
  <2> QED
    BY <1>11, <2>3, <2>4, <2>5
<1>16. /\ PassStays(says(b), says(e))
       /\ b.hidden \cap {"applocker", "deviceguard"} = {} => FailureStays(says(b), says(e))
  BY <1>6, <1>14, <1>15 DEF PassStays, FailureStays
<1> QED
  BY <1>16, Zenon DEF says, answer, again, fs, e

\* Which blockers and which mandatory keys a reading finds.
LEMMA MoreKeys ==
  ASSUME NEW w, NEW b, NEW rows, RowsOfKeys(rows, w, b),
         NEW more, RowsOfKeys(more, w, EverythingRead)
  PROVE  /\ \A r \in rows : \E q \in more :
              q.browser = r.browser /\ q.level = r.level /\ q.content = r.content
         /\ b.skipped = {} /\ Machine \notin b.hidden /\ b.hidden \cap People = {} =>
              \A q \in more : \E r \in rows :
                q.browser = r.browser /\ q.level = r.level /\ q.content = r.content
<1>1. ASSUME NEW r \in rows
      PROVE  \E q \in more : q.browser = r.browser /\ q.level = r.level /\ q.content = r.content
  <2>1. PICK k \in KeysRead :
          w.policy[k] # "absent" /\ r.browser = k[2] /\ r.level = k[3] /\ r.content = w.policy[k]
    BY DEF RowsOfKeys
  <2>2. k[1] \notin EverythingRead.hidden \cup EverythingRead.skipped
    BY EverythingIsRead
  <2>3. PICK q \in more : q.browser = k[2] /\ q.level = k[3] /\ q.content = w.policy[k]
    BY <2>1, <2>2 DEF RowsOfKeys
  <2> QED
    BY <2>1, <2>3
<1>2. ASSUME b.skipped = {}, Machine \notin b.hidden, b.hidden \cap People = {}, NEW q \in more
      PROVE  \E r \in rows : q.browser = r.browser /\ q.level = r.level /\ q.content = r.content
  <2>1. PICK k \in KeysRead :
          w.policy[k] # "absent" /\ q.browser = k[2] /\ q.level = k[3] /\ q.content = w.policy[k]
    BY DEF RowsOfKeys
  <2>2. k[1] \in Hives
    BY DEF KeysRead
  <2>3. k[1] \notin b.hidden \cup b.skipped
    BY <1>2, <2>2 DEF Hives, Machine
  <2>4. PICK r \in rows : r.browser = k[2] /\ r.level = k[3] /\ r.content = w.policy[k]
    BY <2>1, <2>3 DEF RowsOfKeys
  <2> QED
    BY <2>1, <2>4
<1> QED
  BY <1>1, <1>2

\* What a verdict on a host's browsers says of the rows and the inventory.
BrowserGrounds(c, fs) ==
  LET passed == BrowsersJudge(c, fs).says = "satisfied"
      rows   == fs[PolicyFact].value.rows
      kinds  == {a.kind : a \in InstalledBrowsers(fs)}
      java   == fs[JavaFact].value
  IN  /\ Usable(fs, PolicyFact) /\ kinds # {}
      /\ c = "browser-ads-blocked" => passed = (kinds \subseteq ForcedBlockers(rows))
      /\ c = "browser-settings-locked" =>
           passed = (kinds \subseteq {r.browser : r \in {q \in rows : q.level = "mandatory"}})
      /\ c = "browser-java-blocked" =>
           Usable(fs, JavaFact) /\ passed = ~(java.ieMode /\ java.javasoft)

LEMMA BrowsersJudged ==
  ASSUME NEW c \in BrowserChecks, NEW fs,
         BrowsersJudge(c, fs).says \in {"satisfied", "not-satisfied"}
  PROVE  BrowserGrounds(c, fs)
<1> DEFINE judgment  == BrowsersJudge(c, fs)
           said      == judgment.says
           rows      == fs[PolicyFact].value.rows
           known     == InstalledBrowsers(fs)
           kinds     == {a.kind : a \in known}
           java      == fs[JavaFact].value
           both      == java.ieMode /\ java.javasoft
           below     == \E a \in known : BelowNpapiFloor(a)
           blocked   == ForcedBlockers(rows)
           mandatory == {r.browser : r \in {q \in rows : q.level = "mandatory"}}
           broken    == \E r \in rows : r.browser = "firefox" /\ r.content = "unparseable"
           cites     == BrowserCites(fs)
           all       == cites \cup {JavaFact}
<1>1. /\ \A k, x : NotSatisfied(k, x).says = "not-satisfied"
      /\ \A k, x : Satisfied(k, x).says = "satisfied"
      /\ \A k : CannotTell(k).says = "unassessed"
  BY DEF NotSatisfied, Satisfied, CannotTell, Outcome
<1>2. \A k, x : UnlessGap(fs, k, x).says # "not-satisfied"
  BY <1>1 DEF UnlessGap
<1>3. Usable(fs, PolicyFact)
  BY <1>1, Zenon DEF BrowsersJudge
<1>4. c = "browser-ads-blocked" =>
        judgment = IF kinds = {} THEN CannotTell("partial-population")
                   ELSE IF kinds \ blocked # {} THEN NotSatisfied("partial", cites)
                   ELSE UnlessGap(fs, "partial", cites)
  BY <1>3 DEF BrowsersJudge, AdvertisementsNotProcessed
<1>5. c = "browser-settings-locked" =>
        judgment = IF broken THEN CannotTell("collection-error")
                   ELSE IF kinds = {} THEN CannotTell("partial-population")
                   ELSE IF kinds \ mandatory # {} THEN NotSatisfied("partial", cites)
                   ELSE UnlessGap(fs, "partial", cites)
  BY <1>3 DEF BrowsersJudge, SecuritySettingsLocked
<1>6. c = "browser-java-blocked" =>
        judgment = IF ~Usable(fs, JavaFact) THEN CannotTell("collection-error")
                   ELSE IF known = {} THEN CannotTell("partial-population")
                   ELSE IF both THEN NotSatisfied("proxy", all)
                   ELSE IF below THEN CannotTell("partial-population")
                   ELSE UnlessGap(fs, "proxy", all)
  BY <1>3 DEF BrowsersJudge, JavaNotProcessed
<1>7. said \in {"satisfied", "not-satisfied"}
  OBVIOUS
<1>8. known # {} => kinds # {}
  OBVIOUS
<1>9. c \in {"browser-ads-blocked", "browser-java-blocked", "browser-settings-locked"}
  BY DEF BrowserChecks
<1> HIDE DEF judgment, known, kinds, both, below, blocked, mandatory, broken, cites, all
<1>10. c = "browser-ads-blocked" => kinds # {} /\ ((said = "satisfied") = (kinds \subseteq blocked))
  BY <1>1, <1>2, <1>4, <1>7
<1>11. c = "browser-settings-locked" => kinds # {} /\ ((said = "satisfied") = (kinds \subseteq mandatory))
  BY <1>1, <1>2, <1>5, <1>7
<1>12. c = "browser-java-blocked" =>
         kinds # {} /\ Usable(fs, JavaFact) /\ ((said = "satisfied") = ~both)
  BY <1>1, <1>2, <1>6, <1>7, <1>8
<1>13. kinds # {}
  BY <1>9, <1>10, <1>11, <1>12
<1> QED
  BY <1>3, <1>10, <1>11, <1>12, <1>13, Zenon DEF BrowserGrounds, judgment, kinds, both, blocked, mandatory, known

LEMMA BrowsersStay ==
  ASSUME NEW policy \in Policy, NEW w, NEW b, b.skipped = {}, Machine \notin b.hidden,
         NEW c \in BrowserChecks
  PROVE  LET some == BrowsersJudge(c, RedactBrowsers(policy, CollectFamily("browsers", w, b))).says
             all  == BrowsersJudge(c, RedactBrowsers(policy, CollectFamily("browsers", w, EverythingRead))).says
         IN  /\ b.inventory = {} => PassStays(some, all)
             /\ b.hidden \cap People = {} => FailureStays(some, all)
<1> DEFINE e            == EverythingRead
           again(x)     == RedactBrowsers(policy, CollectFamily("browsers", w, x))
           answer(x)    == BrowsersJudge(c, again(x))
           says(x)      == answer(x).says
           rows(x)      == again(x)[PolicyFact].value.rows
           known(x)     == InstalledBrowsers(again(x))
           kinds(x)     == {a.kind : a \in known(x)}
           blocked(x)   == ForcedBlockers(rows(x))
           mandatory(x) == {r.browser : r \in {q \in rows(x) : q.level = "mandatory"}}
           java(x)      == again(x)[JavaFact].value
           both(x)      == java(x).ieMode /\ java(x).javasoft
           judged(x)    == says(x) \in {"satisfied", "not-satisfied"}
<1>1. \A x : judged(x) =>
        /\ RowsOfKeys(rows(x), w, x) /\ kinds(x) # {}
        /\ c = "browser-ads-blocked" => (says(x) = "satisfied") = (kinds(x) \subseteq blocked(x))
        /\ c = "browser-settings-locked" => (says(x) = "satisfied") = (kinds(x) \subseteq mandatory(x))
        /\ c = "browser-java-blocked" =>
             (says(x) = "satisfied") = ~("machine" \in w.ieMode /\ w.javasoft)
  <2> SUFFICES ASSUME NEW x, judged(x)
               PROVE  /\ RowsOfKeys(rows(x), w, x) /\ kinds(x) # {}
                      /\ c = "browser-ads-blocked" =>
                           (says(x) = "satisfied") = (kinds(x) \subseteq blocked(x))
                      /\ c = "browser-settings-locked" =>
                           (says(x) = "satisfied") = (kinds(x) \subseteq mandatory(x))
                      /\ c = "browser-java-blocked" =>
                           (says(x) = "satisfied") = ~("machine" \in w.ieMode /\ w.javasoft)
    OBVIOUS
  <2>1. /\ Usable(again(x), PolicyFact) /\ kinds(x) # {}
        /\ c = "browser-ads-blocked" => (says(x) = "satisfied") = (kinds(x) \subseteq blocked(x))
        /\ c = "browser-settings-locked" => (says(x) = "satisfied") = (kinds(x) \subseteq mandatory(x))
        /\ c = "browser-java-blocked" => /\ Usable(again(x), JavaFact)
                                         /\ (says(x) = "satisfied") = ~both(x)
    <3>1. BrowserGrounds(c, again(x))
      <4> HIDE DEF again
      <4> QED
        BY BrowsersJudged
    <3> HIDE DEF again
    <3> QED
      BY <3>1, Zenon DEF BrowserGrounds
  <2>2. RowsOfKeys(rows(x), w, x)
    BY <2>1, BrowserRows, Zenon
  <2>3. Usable(again(x), JavaFact) => (both(x) <=> "machine" \in w.ieMode /\ w.javasoft)
    BY JavaSurface, Zenon
  <2> HIDE DEF says, again, kinds, blocked, mandatory, rows, both
  <2> QED
    BY <2>1, <2>2, <2>3
<1>2. \A x : /\ \A k \in kinds(x) : \E a \in BrowsersOf(w) : k = a.kind
             /\ kinds(x) # {} /\ x.inventory = {} => \A a \in BrowsersOf(w) : a.kind \in kinds(x)
  <2> TAKE x
  <2>1. /\ \A y \in known(x) : \E a \in BrowsersOf(w) : y.kind = a.kind /\ y.version = a.version
        /\ known(x) # {} /\ x.inventory = {} =>
             \A a \in BrowsersOf(w) : \E y \in known(x) : y.kind = a.kind /\ y.version = a.version
    BY BrowserInventory
  <2> HIDE DEF known
  <2> QED
    BY <2>1
<1>3. says(e) # "not-applicable"
  <2>1. Answer(answer(e))
    BY BrowsersAnswers
  <2> HIDE DEF answer
  <2> QED
    BY <2>1, AnswerSays
<1>4. c \in {"browser-ads-blocked", "browser-java-blocked", "browser-settings-locked"}
  BY DEF BrowserChecks
<1>5. e.inventory = {}
  BY EverythingIsRead
<1>6. RowsOfKeys(rows(b), w, b) /\ RowsOfKeys(rows(e), w, e) =>
        /\ blocked(b) \subseteq blocked(e) /\ mandatory(b) \subseteq mandatory(e)
        /\ b.hidden \cap People = {} => blocked(e) \subseteq blocked(b) /\ mandatory(e) \subseteq mandatory(b)
  <2> HIDE DEF rows
  <2> SUFFICES ASSUME RowsOfKeys(rows(b), w, b), RowsOfKeys(rows(e), w, e)
               PROVE  /\ blocked(b) \subseteq blocked(e) /\ mandatory(b) \subseteq mandatory(e)
                      /\ b.hidden \cap People = {} =>
                           blocked(e) \subseteq blocked(b) /\ mandatory(e) \subseteq mandatory(b)
    OBVIOUS
  <2>1. /\ \A r \in rows(b) : \E q \in rows(e) :
             q.browser = r.browser /\ q.level = r.level /\ q.content = r.content
        /\ b.hidden \cap People = {} =>
             \A q \in rows(e) : \E r \in rows(b) :
               q.browser = r.browser /\ q.level = r.level /\ q.content = r.content
    BY MoreKeys
  <2> QED
    BY <2>1 DEF ForcedBlockers
<1> HIDE DEF says, known, kinds, blocked, mandatory, rows, e
<1>7. ASSUME says(b) = "satisfied", b.inventory = {} PROVE says(e) # "not-satisfied"
  <2> SUFFICES ASSUME says(e) = "not-satisfied" PROVE FALSE
    OBVIOUS
  <2>1. judged(b) /\ judged(e)
    BY <1>7
  <2> HIDE DEF judged
  <2>2. kinds(e) \subseteq kinds(b)
    BY <1>1, <1>2, <1>7, <2>1
  <2>3. blocked(b) \subseteq blocked(e) /\ mandatory(b) \subseteq mandatory(e)
    BY <1>1, <1>6, <2>1
  <2> QED
    BY <1>1, <1>4, <1>7, <2>1, <2>2, <2>3
<1>8. ASSUME says(b) = "not-satisfied", b.hidden \cap People = {} PROVE says(e) # "satisfied"
  <2> SUFFICES ASSUME says(e) = "satisfied" PROVE FALSE
    OBVIOUS
  <2>1. judged(b) /\ judged(e)
    BY <1>8
  <2> HIDE DEF judged
  <2>2. kinds(b) \subseteq kinds(e)
    BY <1>1, <1>2, <1>5, <2>1
  <2>3. blocked(e) \subseteq blocked(b) /\ mandatory(e) \subseteq mandatory(b)
    BY <1>1, <1>6, <1>8, <2>1
  <2> QED
    BY <1>1, <1>4, <1>8, <2>1, <2>2, <2>3
<1>9. /\ b.inventory = {} => PassStays(says(b), says(e))
      /\ b.hidden \cap People = {} => FailureStays(says(b), says(e))
  BY <1>3, <1>7, <1>8 DEF PassStays, FailureStays
<1> QED
  BY <1>9, Zenon DEF says, answer, again, e

LEMMA SameSaidStays ==
  ASSUME NEW some, NEW all, some \in {"satisfied", "not-satisfied"} => all = some
  PROVE  PassStays(some, all) /\ FailureStays(some, all)
BY DEF PassStays, FailureStays

\* A whole inventory is the inventory.
LEMMA ApplicationsStay ==
  ASSUME NEW policy, NEW w, NEW b
  PROVE  LET some == UnsupportedAppsRemoved(RedactBrowsers(policy, CollectFamily("browsers", w, b))).says
             all  == UnsupportedAppsRemoved(
                       RedactBrowsers(policy, CollectFamily("browsers", w, EverythingRead))).says
         IN  PassStays(some, all) /\ FailureStays(some, all)
<1> DEFINE e         == EverythingRead
           fs(x)     == CollectFamily("browsers", w, x)
           again(x)  == RedactBrowsers(policy, fs(x))
           answer(x) == UnsupportedAppsRemoved(again(x))
           says(x)   == answer(x).says
           apps(x)   == CollectApplications(w, x)[AppsFact]
           read(x)   == "applications" \notin x.garbled
           seen(x)   == {a \in w.installed : a.scope \notin x.inventory}
           named(as) == {[kind |-> a.kind, version |-> a.version] : a \in as}
<1>1. \A x : /\ DOMAIN fs(x) = {PolicyFact, JavaFact} \cup IF w.inventoried THEN {AppsFact} ELSE {}
             /\ w.inventoried => fs(x)[AppsFact] = apps(x)
  BY BrowsersFamilyFacts, Zenon
<1>2. \A x : DOMAIN again(x) = DOMAIN fs(x)
  <2> TAKE x
  <2>1. again(x) = Redacted("browsers", policy, fs(x))
    BY Zenon DEF Redacted
  <2>2. "browsers" \in Families
    BY DEF Families
  <2> HIDE DEF again
  <2> QED
    BY <2>1, <2>2, RedactedKeeps
<1>3. \A x : /\ apps(x).partial <=> ~read(x) \/ x.inventory # {}
             /\ apps(x).value = IF read(x) THEN named(seen(x)) ELSE {}
  BY ApplicationsFacts, Zenon
<1>4. AppsFact # PolicyFact /\ AppsFact # JavaFact
  BY DEF AppsFact, PolicyFact, JavaFact
<1>5. \A k : CannotTell(k).says = "unassessed"
  BY DEF CannotTell, Outcome
<1> HIDE DEF fs, apps
<1>6. \A x : AppsFact \in DOMAIN again(x) => again(x)[AppsFact] = apps(x)
  <2> SUFFICES ASSUME NEW x, AppsFact \in DOMAIN again(x) PROVE again(x)[AppsFact] = apps(x)
    OBVIOUS
  <2>1. PolicyFact \in DOMAIN fs(x) /\ AppsFact \in DOMAIN fs(x) \ {PolicyFact} /\ w.inventoried
    <3> HIDE DEF again
    <3> QED
      BY <1>1, <1>2, <1>4
  <2>2. again(x)[AppsFact] = fs(x)[AppsFact]
    BY <2>1, BrowsersRedacted
  <2> QED
    BY <1>1, <2>1, <2>2
<1> HIDE DEF again
<1>7. ASSUME says(b) \in {"satisfied", "not-satisfied"} PROVE says(e) = says(b)
  <2>1. AppsFact \in DOMAIN again(b) /\ ~again(b)[AppsFact].partial
    BY <1>5, <1>7 DEF UnsupportedAppsRemoved
  <2>2. AppsFact \in DOMAIN again(e)
    BY <1>1, <1>2, <2>1
  <2>3. ~apps(b).partial
    BY <1>6, <2>1
  <2>4. read(b) /\ b.inventory = {}
    BY <1>3, <2>3, Zenon
  <2>5. read(e) /\ e.inventory = {}
    BY EverythingIsRead
  <2>6. seen(b) = seen(e)
    BY <2>4, <2>5
  <2> HIDE DEF seen, named, read, e
  <2>7. apps(e).value = apps(b).value /\ ~apps(e).partial
    BY <1>3, <2>4, <2>5, <2>6, Zenon
  <2>8. /\ again(e)[AppsFact].value = again(b)[AppsFact].value
        /\ ~again(e)[AppsFact].partial
    BY <1>6, <2>1, <2>2, <2>7
  <2>9. answer(e) = answer(b)
    BY <2>1, <2>2, <2>8 DEF UnsupportedAppsRemoved
  <2> QED
    BY <2>9
<1> HIDE DEF says
<1>8. PassStays(says(b), says(e)) /\ FailureStays(says(b), says(e))
  BY <1>7, SameSaidStays
<1> QED
  BY <1>8, Zenon DEF says, again, fs

\* The identity of an operating system is read as a whole or not at all.
LEMMA WindowsReleaseStays ==
  ASSUME NEW w, NEW b, Complete(CollectWindowsBase(w, b), {ReleaseFact})
  PROVE  WindowsBaseJudge("os-vendor-supported", CollectWindowsBase(w, EverythingRead))
           = WindowsBaseJudge("os-vendor-supported", CollectWindowsBase(w, b))
<1> DEFINE fs(x) == CollectWindowsBase(w, x)
           e     == EverythingRead
<1>1. \A x : /\ ReleaseFact \in DOMAIN fs(x)
             /\ fs(x)[ReleaseFact].partial <=> "release" \in x.garbled
             /\ fs(x)[ReleaseFact].value = WindowsIdentity(w, "release" \notin x.garbled)
  <2> TAKE x
  <2>1. /\ DOMAIN fs(x) = {FeaturesFact, IePolicyFact, ReleaseFact}
        /\ fs(x)[ReleaseFact].partial <=> "release" \in x.garbled
        /\ fs(x)[ReleaseFact].value = WindowsIdentity(w, "release" \notin x.garbled)
    BY WindowsFacts, Zenon
  <2> HIDE DEF fs
  <2> QED
    BY <2>1
<1> HIDE DEF fs
<1>2. ~fs(b)[ReleaseFact].partial
  BY PartialIsIncomplete DEF fs
<1>3. "release" \notin b.garbled /\ "release" \notin e.garbled
  BY <1>1, <1>2, EverythingIsRead
<1>4. ("release" \notin b.garbled) = ("release" \notin e.garbled)
  BY <1>3
<1>5. fs(e)[ReleaseFact].value = fs(b)[ReleaseFact].value
  BY <1>1, <1>4, Zenon
<1>6. \A x : WindowsBaseJudge("os-vendor-supported", fs(x)) = OsVendorSupported(fs(x)[ReleaseFact].value)
  BY <1>1 DEF WindowsBaseJudge
<1>7. WindowsBaseJudge("os-vendor-supported", fs(e)) = WindowsBaseJudge("os-vendor-supported", fs(b))
  BY <1>5, <1>6, Zenon
<1> QED
  BY <1>7, Zenon DEF fs

LEMMA LinuxReleaseStays ==
  ASSUME NEW w, NEW b, Complete(CollectLinuxBase(w, b), {ReleaseFact})
  PROVE  WindowsBaseJudge("os-vendor-supported", CollectLinuxBase(w, EverythingRead))
           = WindowsBaseJudge("os-vendor-supported", CollectLinuxBase(w, b))
<1> DEFINE fs(x)    == CollectLinuxBase(w, x)
           e        == EverythingRead
           read(x)  == "os-release" \notin x.hidden
           value(r) == [product |-> IF r THEN EolProduct(w.id) ELSE "",
                        cycle   |-> IF r THEN w.version ELSE NoCycle,
                        os |-> "", release |-> "", edition |-> ""]
<1>1. \A x : /\ DOMAIN fs(x) = {ReleaseFact}
             /\ fs(x)[ReleaseFact].partial <=> ~read(x)
             /\ fs(x)[ReleaseFact].value = value(read(x))
  BY LinuxFacts, Zenon
<1> HIDE DEF fs, value
<1>2. ~fs(b)[ReleaseFact].partial
  <2>1. ReleaseFact \in DOMAIN fs(b)
    BY <1>1
  <2> QED
    BY <2>1, PartialIsIncomplete DEF fs
<1>3. read(b) /\ read(e)
  BY <1>1, <1>2, EverythingIsRead
<1>4. read(b) = read(e)
  BY <1>3
<1> HIDE DEF read
<1>5. fs(e)[ReleaseFact].value = fs(b)[ReleaseFact].value
  BY <1>1, <1>4, Zenon
<1>6. \A x : WindowsBaseJudge("os-vendor-supported", fs(x)) = OsVendorSupported(fs(x)[ReleaseFact].value)
  BY <1>1 DEF WindowsBaseJudge
<1>7. WindowsBaseJudge("os-vendor-supported", fs(e)) = WindowsBaseJudge("os-vendor-supported", fs(b))
  BY <1>5, <1>6, Zenon
<1> QED
  BY <1>7, Zenon DEF fs

LEMMA IeStays ==
  ASSUME NEW w, NEW b
  PROVE  LET some == WindowsBaseJudge("ie11-disabled", CollectWindowsBase(w, b)).says
             all  == WindowsBaseJudge("ie11-disabled", CollectWindowsBase(w, EverythingRead)).says
         IN  /\ PassStays(some, all)
             /\ "ie" \notin b.garbled => FailureStays(some, all)
<1> DEFINE c         == "ie11-disabled"
           answer(x) == WindowsBaseJudge(c, CollectWindowsBase(w, x))
           says(x)   == answer(x).says
<1>1. \A x : /\ says(x) = "satisfied" => PassClaim(c, w)
             /\ says(x) = "not-satisfied" /\ "ie" \notin x.garbled => FailureClaim(c, w)
  <2> TAKE x
  <2>1. answer(x) = Ie11Disabled(CollectWindowsBase(w, x))
    BY DEF WindowsBaseJudge
  <2> HIDE DEF answer
  <2> QED
    BY <2>1, IeTruth, Zenon
<1>2. ~(PassClaim(c, w) /\ FailureClaim(c, w))
  BY DEF FailureClaim
<1>3. Answer(answer(EverythingRead))
  <2>1. c \in WindowsBaseChecks
    BY DEF WindowsBaseChecks
  <2> QED
    BY <2>1, WindowsBaseAnswers, Zenon
<1> HIDE DEF answer
<1>4. says(EverythingRead) # "not-applicable"
  BY <1>3, AnswerSays
<1>5. "ie" \notin EverythingRead.garbled
  BY EverythingIsRead
<1> HIDE DEF says, c
<1>6. /\ PassStays(says(b), says(EverythingRead))
      /\ "ie" \notin b.garbled => FailureStays(says(b), says(EverythingRead))
  BY <1>1, <1>2, <1>4, <1>5 DEF PassStays, FailureStays
<1> QED
  BY <1>6, Zenon DEF says, answer, c

\* Graph's answers are whole or not used at all, but for the strengths.
LEMMA EntraStays ==
  ASSUME NEW w, NEW b, b.skipped = {}, NEW c \in EntraChecks
  PROVE  LET some == EntraJudge(c, CollectEntraId(w, b)).says
             all  == EntraJudge(c, CollectEntraId(w, EverythingRead)).says
         IN  /\ PassStays(some, all)
             /\ (c = "mfa-required" => "strengths" \notin b.garbled \cup b.hidden) =>
                  FailureStays(some, all)
<1> DEFINE e            == EverythingRead
           fs(x)        == CollectEntraId(w, x)
           answer(x)    == EntraJudge(c, fs(x))
           says(x)      == answer(x).says
           answered(x)  == "methods" \notin x.garbled \cup x.skipped
           methods(x)   == [configurations |-> IF answered(x) THEN w.methods ELSE {}]
           policies(x)  == Answers("policies", w.policies, x)
           strengths(x) == Answers("strengths", w.strengths, x)
           asked        == c = "mfa-required" => "strengths" \notin b.garbled \cup b.hidden
<1>1. \A x : /\ DOMAIN fs(x) = {MethodsFact, PoliciesFact, StrengthsFact}
             /\ fs(x)[MethodsFact].partial <=> "methods" \in x.garbled
             /\ fs(x)[PoliciesFact].partial <=>
                  "policies" \in x.garbled \/ "policies" \in x.hidden \ x.skipped
             /\ fs(x)[MethodsFact].value = methods(x)
             /\ fs(x)[PoliciesFact].value = policies(x)
             /\ fs(x)[StrengthsFact].value = strengths(x)
  BY EntraFacts, Zenon
<1>2. /\ \A k, x : NotSatisfied(k, x).says = "not-satisfied"
      /\ \A k, x : Satisfied(k, x).says = "satisfied"
      /\ \A k : CannotTell(k).says = "unassessed"
  BY DEF NotSatisfied, Satisfied, CannotTell, Outcome
<1>3. e.garbled = {} /\ e.hidden = {} /\ e.skipped = {}
  BY EverythingIsRead
<1>4. policies(e) = w.policies /\ strengths(e) = w.strengths
  BY <1>3 DEF Answers
<1>5. /\ "policies" \notin b.garbled \cup b.hidden => policies(b) = w.policies
      /\ strengths(b) \subseteq w.strengths
      /\ "strengths" \notin b.garbled \cup b.hidden => strengths(b) = w.strengths
  BY DEF Answers
<1> HIDE DEF fs, policies, strengths, e
<1>6. CASE c = "mfa-factor-types"
  <2>1. \A x : answer(x)
          = IF fs(x)[MethodsFact].partial THEN CannotTell("partial-population")
            ELSE IF methods(x).configurations = {} THEN CannotTell("collection-error")
            ELSE IF \E m \in methods(x).configurations : m.id = "email" /\ m.enabled
            THEN NotSatisfied("proxy", {MethodsFact})
            ELSE Satisfied("proxy", {MethodsFact})
    <3> TAKE x
    <3>1. MethodsFact \in DOMAIN fs(x)
      BY <1>1
    <3>2. fs(x)[MethodsFact].value = methods(x)
      BY <1>1, Zenon
    <3> HIDE DEF methods
    <3> QED
      BY <1>6, <3>1, <3>2 DEF EntraJudge, MfaFactorTypes
  <2>2. ASSUME says(b) \in {"satisfied", "not-satisfied"} PROVE says(e) = says(b)
    <3> HIDE DEF methods
    <3>1. ~fs(b)[MethodsFact].partial
      BY <1>2, <2>1, <2>2
    <3>2. answered(b) /\ answered(e)
      BY <1>1, <1>3, <3>1
    <3>3. answered(b) = answered(e)
      BY <3>2
    <3> HIDE DEF answered
    <3>4. methods(b) = methods(e)
      BY <3>3, Zenon DEF methods
    <3>5. ~fs(e)[MethodsFact].partial
      BY <1>1, <1>3
    <3>6. answer(e) = answer(b)
      BY <2>1, <3>1, <3>4, <3>5
    <3> QED
      BY <3>6
  <2> HIDE DEF says
  <2>3. PassStays(says(b), says(e)) /\ FailureStays(says(b), says(e))
    BY <2>2, SameSaidStays
  <2> QED
    BY <2>3, Zenon DEF says, fs, e
<1>7. CASE c = "mfa-required"
  <2> DEFINE grants(p, ss)     == TargetsEveryone(p) /\ GrantsMfa(p, ss)
             qualifying(ps, ss) == {p \in Enforcing(ps) : grants(p, ss)}
             cites              == {PoliciesFact, StrengthsFact}
  <2>1. \A x : answer(x)
          = IF fs(x)[PoliciesFact].partial THEN CannotTell("partial-population")
            ELSE IF qualifying(policies(x), strengths(x)) # {} THEN Satisfied("proxy", cites)
            ELSE NotSatisfied("proxy", cites)
    <3> TAKE x
    <3>1. StrengthsFact \in DOMAIN fs(x) /\ PoliciesFact \in DOMAIN fs(x)
      BY <1>1
    <3>2. {PoliciesFact, StrengthsFact} \cap DOMAIN fs(x) = cites
      BY <3>1
    <3> QED
      BY <1>1, <1>7, <3>1, <3>2 DEF EntraJudge, MfaRequired
  <2>2. ~fs(e)[PoliciesFact].partial
    BY <1>1, <1>3
  <2>3. \A p, ss, ts : ss \subseteq ts /\ grants(p, ss) => grants(p, ts)
    BY DEF GrantsMfa
  <2> HIDE DEF grants
  <2>4. /\ says(b) = "satisfied" =>
             ~fs(b)[PoliciesFact].partial /\ qualifying(policies(b), strengths(b)) # {}
        /\ says(b) = "not-satisfied" =>
             ~fs(b)[PoliciesFact].partial /\ qualifying(policies(b), strengths(b)) = {}
        /\ says(e) = IF qualifying(policies(e), strengths(e)) # {} THEN "satisfied" ELSE "not-satisfied"
    <3> HIDE DEF qualifying, cites
    <3> QED
      BY <1>2, <2>1, <2>2
  <2>5. ~fs(b)[PoliciesFact].partial => policies(b) = policies(e)
    BY <1>1, <1>4, <1>5
  <2> HIDE DEF says
  <2>6. says(b) = "satisfied" => says(e) = "satisfied"
    BY <1>4, <1>5, <2>3, <2>4, <2>5
  <2>7. says(b) = "not-satisfied" /\ asked => says(e) = "not-satisfied"
    BY <1>4, <1>5, <1>7, <2>4, <2>5
  <2>8. PassStays(says(b), says(e)) /\ (asked => FailureStays(says(b), says(e)))
    BY <2>6, <2>7 DEF PassStays, FailureStays
  <2> QED
    BY <2>8, Zenon DEF says, fs, e
<1> QED
  BY <1>6, <1>7 DEF EntraChecks

\* The bundle of the same subject, had everything been read.
Whole == Redacted(case.family, case.policy, CollectFamily(case.family, case.world, EverythingRead))

LEMMA VerdictStays ==
  ASSUME PathInv, NEW c, Judged(c), Complete(Written, RequiredFacts[c])
  PROVE  LET some == Evaluator(c, Written).says
             all  == Evaluator(c, Whole).says
         IN  /\ PassStays(some, all) \/ PassesWrongly(c, case.world)
             /\ FailureStays(some, all) \/ FailsWrongly(c, case.world)
<1> DEFINE some == Evaluator(c, Written).says
           all  == Evaluator(c, Whole).says
           w    == case.world
           b    == blind
           e    == EverythingRead
           goal == /\ PassStays(some, all) \/ PassesWrongly(c, w)
                   /\ FailureStays(some, all) \/ FailsWrongly(c, w)
<1>1. /\ case.family \in Families /\ case.policy \in Policy /\ c \in ChecksOf(case.family)
      /\ Machine \notin b.hidden
  <2>1. /\ blind \in Unreadable[case.family] /\ case.family \in Families
        /\ case.policy \in Policy /\ c \in ChecksOf(case.family)
    BY JudgedOnWritten, Zenon
  <2>2. Machine \notin b.hidden \cup b.skipped
    BY <2>1, UnreadableAssumption
  <2> QED
    BY <2>1, <2>2
<1> SUFFICES ASSUME b.skipped = {} PROVE goal
  BY DEF PassesWrongly, FailsWrongly
<1>2. CASE case.family = "office" /\ c \in OfficeChecks
  <2> DEFINE judged(x) == OfficeJudge(c, RedactOffice(case.policy, CollectOffice(w, x)))
  <2>1. /\ Written = RedactOffice(case.policy, CollectOffice(w, b))
        /\ Whole = RedactOffice(case.policy, CollectOffice(w, e))
    BY <1>2, Zenon DEF Written, Whole, Redacted, Collected, CollectFamily
  <2>2. Evaluator(c, Written) = judged(b) /\ Evaluator(c, Whole) = judged(e)
    BY <1>2, <2>1, OfficeCheck, Zenon
  <2>3. /\ /\ ~(case.policy.sid = "drop" /\ b.hidden \cap People # {})
           /\ ~(c = "macro-av-scanning" /\ b.hidden # {})
           => PassStays(judged(b).says, judged(e).says)
        /\ FailureStays(judged(b).says, judged(e).says)
    BY <1>1, <1>2, OfficeStays
  <2> HIDE DEF judged
  <2> QED
    BY <2>2, <2>3, Zenon DEF PassesWrongly
<1>3. CASE case.family = "appcontrol" /\ c \in AppControlChecks
  <2> DEFINE judged(x) == AppControlJudge(c, RedactAppControl(case.policy, CollectAppControl(w, x)))
  <2>1. /\ Written = RedactAppControl(case.policy, CollectAppControl(w, b))
        /\ Whole = RedactAppControl(case.policy, CollectAppControl(w, e))
    BY <1>3, Zenon DEF Written, Whole, Redacted, Collected, CollectFamily
  <2>2. Evaluator(c, Written) = judged(b) /\ Evaluator(c, Whole) = judged(e)
    BY <1>3, <2>1, AppControlCheck, Zenon
  <2>3. /\ PassStays(judged(b).says, judged(e).says)
        /\ b.hidden \cap {"applocker", "deviceguard"} = {} =>
             FailureStays(judged(b).says, judged(e).says)
    <3>1. CASE c \in OnPaths
      BY <1>1, <3>1, PathsStay
    <3>2. CASE c \notin OnPaths
      BY <1>1, <1>3, <3>2, AppControlStays
    <3> QED
      BY <3>1, <3>2
  <2> HIDE DEF judged
  <2> QED
    BY <1>3, <2>2, <2>3, Zenon DEF FailsWrongly
<1>4. CASE case.family = "browsers" /\ c \in BrowserChecks
  <2> DEFINE judged(x) == BrowsersJudge(c, RedactBrowsers(case.policy, CollectFamily("browsers", w, x)))
  <2>1. /\ Written = RedactBrowsers(case.policy, CollectFamily("browsers", w, b))
        /\ Whole = RedactBrowsers(case.policy, CollectFamily("browsers", w, e))
    BY <1>4, Zenon DEF Written, Whole, Redacted, Collected
  <2>2. Evaluator(c, Written) = judged(b) /\ Evaluator(c, Whole) = judged(e)
    BY <1>4, <2>1, BrowserCheck, Zenon
  <2>3. /\ b.inventory = {} => PassStays(judged(b).says, judged(e).says)
        /\ b.hidden \cap People = {} => FailureStays(judged(b).says, judged(e).says)
    BY <1>1, <1>4, BrowsersStay
  <2> HIDE DEF judged
  <2> QED
    BY <1>4, <2>2, <2>3, Zenon DEF PassesWrongly, FailsWrongly
<1>5. CASE case.family = "browsers" /\ c \in ApplicationChecks
  <2> DEFINE judged(x) == UnsupportedAppsRemoved(
                            RedactBrowsers(case.policy, CollectFamily("browsers", w, x)))
  <2>1. /\ Written = RedactBrowsers(case.policy, CollectFamily("browsers", w, b))
        /\ Whole = RedactBrowsers(case.policy, CollectFamily("browsers", w, e))
    BY <1>5, Zenon DEF Written, Whole, Redacted, Collected
  <2>2. Evaluator(c, Written) = judged(b) /\ Evaluator(c, Whole) = judged(e)
    BY <1>5, <2>1, ApplicationCheck, Zenon
  <2>3. PassStays(judged(b).says, judged(e).says) /\ FailureStays(judged(b).says, judged(e).says)
    BY ApplicationsStay
  <2> HIDE DEF judged
  <2> QED
    BY <2>2, <2>3, Zenon
<1>6. CASE case.family = "windows" /\ c \in WindowsBaseChecks
  <2> DEFINE judged(x) == WindowsBaseJudge(c, CollectWindowsBase(w, x))
  <2>1. Written = CollectWindowsBase(w, b) /\ Whole = CollectWindowsBase(w, e)
    BY <1>6, Zenon DEF Written, Whole, Redacted, Collected, CollectFamily
  <2>2. Evaluator(c, Written) = judged(b) /\ Evaluator(c, Whole) = judged(e)
    BY <1>6, <2>1, WindowsBaseCheck, Zenon
  <2>3. CASE c = "ie11-disabled"
    <3>1. /\ PassStays(judged(b).says, judged(e).says)
          /\ "ie" \notin b.garbled => FailureStays(judged(b).says, judged(e).says)
      BY <2>3, IeStays
    <3> HIDE DEF judged
    <3> QED
      BY <2>2, <2>3, <3>1, Zenon DEF FailsWrongly
  <2>4. CASE c = "os-vendor-supported"
    <3>1. Complete(CollectWindowsBase(w, b), {ReleaseFact})
      BY <1>6, <2>1, <2>4, WindowsBaseCheck
    <3>2. judged(e) = judged(b)
      BY <2>4, <3>1, WindowsReleaseStays, Zenon
    <3> HIDE DEF judged
    <3>3. some = all
      BY <2>2, <3>2, Zenon
    <3> HIDE DEF some, all
    <3>4. PassStays(some, all) /\ FailureStays(some, all)
      BY <3>3, SameSaidStays
    <3> QED
      BY <3>4
  <2> QED
    BY <1>6, <2>3, <2>4 DEF WindowsBaseChecks
<1>7. CASE case.family = "linux" /\ c \in ReleaseChecks
  <2> DEFINE judged(x) == WindowsBaseJudge(c, CollectLinuxBase(w, x))
  <2>1. Written = CollectLinuxBase(w, b) /\ Whole = CollectLinuxBase(w, e)
    BY <1>7, Zenon DEF Written, Whole, Redacted, Collected, CollectFamily
  <2>2. c = "os-vendor-supported" /\ c \in WindowsBaseChecks
    BY <1>7 DEF ReleaseChecks, WindowsBaseChecks
  <2>3. Evaluator(c, Written) = judged(b) /\ Evaluator(c, Whole) = judged(e)
    BY <2>1, <2>2, WindowsBaseCheck, Zenon
  <2>4. Complete(CollectLinuxBase(w, b), {ReleaseFact})
    BY <2>1, <2>2, WindowsBaseCheck
  <2>5. judged(e) = judged(b)
    BY <2>2, <2>4, LinuxReleaseStays, Zenon
  <2> HIDE DEF judged
  <2>6. some = all
    BY <2>3, <2>5, Zenon
  <2> HIDE DEF some, all
  <2>7. PassStays(some, all) /\ FailureStays(some, all)
    BY <2>6, SameSaidStays
  <2> QED
    BY <2>7
<1>8. CASE case.family = "tenant" /\ c \in EntraChecks
  <2> DEFINE judged(x) == EntraJudge(c, CollectEntraId(w, x))
             asked     == c = "mfa-required" => "strengths" \notin b.garbled \cup b.hidden
  <2>1. Written = CollectEntraId(w, b) /\ Whole = CollectEntraId(w, e)
    BY <1>8, Zenon DEF Written, Whole, Redacted, Collected, CollectFamily
  <2>2. Evaluator(c, Written) = judged(b) /\ Evaluator(c, Whole) = judged(e)
    BY <1>8, <2>1, EntraCheck, Zenon
  <2>3. /\ PassStays(judged(b).says, judged(e).says)
        /\ asked => FailureStays(judged(b).says, judged(e).says)
    BY <1>8, EntraStays
  <2>4. ~asked => FailsWrongly(c, w)
    BY Zenon DEF FailsWrongly
  <2> HIDE DEF judged, asked
  <2> QED
    BY <2>2, <2>3, <2>4, Zenon
<1> HIDE DEF goal
<1> QED
  BY <1>1, <1>2, <1>3, <1>4, <1>5, <1>6, <1>7, <1>8, FamilyChecks

LEMMA EvidenceHolds == PathInv => MoreEvidenceOverturnsNothing
<1> DEFINE whole == VerdictsOn(case.family, Whole)
<1> SUFFICES ASSUME PathInv, stage = "judged", NEW c \in ChecksOf(case.family)
             PROVE  /\ Status(c) = "satisfied" /\ whole[c].status \in {"not-satisfied", "not-applicable"} =>
                         PassesWrongly(c, case.world)
                    /\ Status(c) = "not-satisfied" /\ whole[c].status \in {"satisfied", "not-applicable"} =>
                         FailsWrongly(c, case.world)
  BY Zenon DEF MoreEvidenceOverturnsNothing, Whole
<1>1. Judged(c)
  BY DEF Judged
<1>2. case.family \in Families /\ Status(c) = Eval!JudgeCheck(c, Written, {}).status
  BY <1>1, JudgedOnWritten, Zenon
<1>3. c \in AllChecks
  BY <1>2, FamilyChecks, Zenon
<1>4. whole[c].status = Eval!JudgeCheck(c, Whole, {}).status
  BY Zenon DEF VerdictsOn
<1> DEFINE some == Evaluator(c, Written).says
           all  == Evaluator(c, Whole).says
<1>5. /\ Status(c) \in {"satisfied", "not-satisfied"} =>
           Status(c) = some /\ Complete(Written, RequiredFacts[c])
      /\ whole[c].status \in {"satisfied", "not-satisfied", "not-applicable"} => whole[c].status = all
  <2> DEFINE status(fs) == Eval!JudgeCheck(c, fs, {}).status
             said(fs)   == Evaluator(c, fs).says
             settled(fs) == Complete(fs, RequiredFacts[c])
  <2>1. \A fs : /\ status(fs) = "satisfied" => said(fs) = "satisfied" /\ settled(fs)
                /\ status(fs) = "not-satisfied" => said(fs) = "not-satisfied" /\ settled(fs)
                /\ status(fs) = "not-applicable" => said(fs) = "not-applicable" /\ settled(fs)
    BY <1>3, StatusIsSaid, Zenon
  <2>2. Status(c) = status(Written) /\ whole[c].status = status(Whole)
    BY <1>2, <1>4, Zenon
  <2> HIDE DEF status, said, settled, whole
  <2>3. /\ Status(c) \in {"satisfied", "not-satisfied"} => Status(c) = said(Written) /\ settled(Written)
        /\ whole[c].status \in {"satisfied", "not-satisfied", "not-applicable"} =>
             whole[c].status = said(Whole)
    BY <2>1, <2>2
  <2> QED
    BY <2>3, Zenon DEF said, settled
<1>6. Complete(Written, RequiredFacts[c]) =>
        /\ PassStays(some, all) \/ PassesWrongly(c, case.world)
        /\ FailureStays(some, all) \/ FailsWrongly(c, case.world)
  BY <1>1, VerdictStays
<1> HIDE DEF whole, some, all
<1> QED
  BY <1>5, <1>6 DEF PassStays, FailureStays

\* What is reached on part of the evidence is not overturned by the rest: for
\* every subject, whatever was not read of it and whatever the policy, a pass
\* would not have been a failure had everything been read, nor a failure a pass,
\* nor either of them a subject outside the population, outside the cases that
\* PassesWrongly and FailsWrongly name.
\* office.py:126-149; appcontrol_paths.py:313-489
THEOREM MoreEvidenceOverturnsNothingAlways == Spec => []MoreEvidenceOverturnsNothing
BY PathTaken, EvidenceHolds, PTL

-----------------------------------------------------------------------------
(* Writable paths, as the host has them and as its policy has them.          *)

\* A complete search finds what is writable.
LEMMA WritableIsFound ==
  ASSUME NEW w, \A d \in DOMAIN w.directories : w.directories[d] \in Directory
  PROVE  WritableLocations(PathsValue(w, EverythingRead)) = WritableDirectories(w)
<1> DEFINE e        == EverythingRead
           ds       == DOMAIN w.directories
           at(d)    == w.directories[d]
           met(how) == {d \in ds : at(d).met = how}
           probes   == {Probe(w, d, e) : d \in met("probe")}
           walked   == {q \in {Probe(w, d, e) : d \in met("walk")} : q.writable}
<1>1. e.skipped = {} /\ e.hidden = {}
  BY EverythingIsRead
<1>2. PathsValue(w, e).probes = probes /\ PathsValue(w, e).walked = walked
  <2>1. ds \ e.skipped = ds
    BY <1>1
  <2> QED
    BY <2>1 DEF PathsValue
<1>3. \A d \in ds : /\ Probe(w, d, e).path = at(d).path
                   /\ Probe(w, d, e).writable = at(d).writable
                   /\ d \in met("probe") \cup met("walk")
  <2> TAKE d \in ds
  <2>1. at(d) \in Directory
    OBVIOUS
  <2>2. at(d).writable \in BOOLEAN /\ at(d).met \in {"walk", "probe"}
    BY <2>1 DEF Directory
  <2>3. Probe(w, d, e).path = at(d).path /\ Probe(w, d, e).writable = (d \notin e.hidden /\ at(d).writable)
    BY DEF Probe
  <2> HIDE DEF e, at
  <2> QED
    BY <1>1, <2>2, <2>3 DEF at
<1>4. WritableLocations(PathsValue(w, e)) = {p.path : p \in {q \in probes \cup walked : q.writable}}
  BY <1>2 DEF WritableLocations
<1> HIDE DEF e
<1>5. ASSUME NEW l \in WritableLocations(PathsValue(w, e)) PROVE l \in WritableDirectories(w)
  <2>1. PICK p \in probes \cup walked : p.writable /\ p.path = l
    BY <1>4
  <2>2. PICK d \in ds : p = Probe(w, d, e)
    BY <2>1
  <2> QED
    BY <1>3, <2>1, <2>2 DEF WritableDirectories
<1>6. ASSUME NEW l \in WritableDirectories(w) PROVE l \in WritableLocations(PathsValue(w, e))
  <2>1. PICK d \in ds : at(d).writable /\ l = at(d).path
    BY DEF WritableDirectories
  <2>2. Probe(w, d, e) \in probes \cup walked /\ Probe(w, d, e).writable /\ Probe(w, d, e).path = l
    BY <1>3, <2>1
  <2> QED
    BY <1>4, <2>2
<1> QED
  BY <1>5, <1>6 DEF e

\* Redaction of a rule's principal under a policy that keeps it or cuts off its
\* RID leaves an administrator one.
LEMMA AdministratorStays ==
  ASSUME NEW policy \in Policy, policy.sid \notin {"hash", "drop"}, NEW r, r.sid \in Administrators
  PROVE  IsAdminSid(RedactRule(policy, r).sid)
<1> DEFINE keys == <<"collections", "path_rules", "sid">>
<1>1. Len(keys) = 3 /\ keys[1] = "collections" /\ keys[2] = "path_rules" /\ keys[3] = "sid"
  OBVIOUS
<1>2. policy.sid \in {"retain", "truncate"}
  BY DEF Policy, Actions
<1>3. \A i \in 1..3 : Named(policy, keys[i]) # "drop"
  <2>1. \A i \in 1..3 : i = 1 \/ i = 2 \/ i = 3
    OBVIOUS
  <2> QED
    BY <1>1, <1>2, <2>1 DEF Named
<1>4. ActionFor(policy, keys[3], r.sid) = policy.sid
  BY <1>1, <1>2 DEF ActionFor, Named
<1> HIDE DEF keys
<1>5. Redact(policy, keys, FALSE, r.sid) = Apply(policy.sid, r.sid)
  BY <1>1, <1>3, <1>4 DEF Redact
<1>6. Apply(policy.sid, r.sid) = r.sid
  BY <1>2 DEF Apply, Administrators, Raw, People, NoSid
<1>7. IsAdminSid(r.sid)
  BY DEF IsAdminSid, Administrators, Raw
<1>8. RedactRule(policy, r).sid = Redact(policy, keys, FALSE, r.sid)
  BY DEF RedactRule, keys
<1> QED
  BY <1>5, <1>6, <1>7, <1>8

\* Where the rules are not among those that PathsPassWrongly names, a file that a
\* standard user may run from a directory is run by a rule that is held against
\* the directory.
LEMMA MayRunIsPermitted ==
  ASSUME NEW policy, NEW rules, rules \subseteq PathRule,
         \A r \in rules : ~Narrow(r) /\ \A p \in r.paths : HasWildcard(p) => Last(p) = Star,
         NEW dir \in Seq(Segments), dir # <<>>, NEW p \in People, NEW f \in Executables,
         MayRun(rules, StandardUser(p), Append(dir, f))
  PROVE  \E s \in Permitting({RedactRule(policy, r) : r \in rules}, dir) : ~IsAdminSid(s.sid)
<1> DEFINE file   == Append(dir, f)
           denied == UNION {q.paths : q \in {u \in rules : u.action = "deny"}}
<1>1. PICK r \in rules : r.action = "allow" /\ AppliesTo(r, file) /\ r.sid \in StandardUser(p)
  BY DEF MayRun
<1>2. \A q \in rules : q.action = "deny" /\ q.sid \in StandardUser(p) => ~AppliesTo(q, file)
  BY DEF MayRun
<1>3. f \in Segments
  BY FilesAreSegments
<1>4. \A q \in rules : q.paths \subseteq Seq(Segments) /\ q.exceptions \subseteq Seq(Segments)
  BY DEF PathRule
<1> HIDE DEF file
<1>5. \A x \in Seq(Segments) : PatternContains(x, dir) => Governs(x, file)
  BY <1>3, ContainsGoverns DEF file
<1>6. \A x \in Seq(Segments) :
        (HasWildcard(x) => Last(x) = Star) /\ Governs(x, file) => PatternCovers(x, dir)
  BY <1>3, GovernsCovers DEF file
<1>7. \E x \in r.paths : PatternCovers(x, dir)
  BY <1>1, <1>4, <1>6 DEF AppliesTo
<1>8. ~\E x \in r.exceptions : PatternContains(x, dir)
  BY <1>1, <1>4, <1>5 DEF AppliesTo
<1>9. ~\E x \in denied : PatternContains(x, dir)
  <2> SUFFICES ASSUME NEW q \in rules, q.action = "deny", NEW x \in q.paths, PatternContains(x, dir)
               PROVE  FALSE
    OBVIOUS
  <2>1. q.sid = Raw("everyone") /\ q.exceptions = {}
    BY DEF Narrow
  <2>2. AppliesTo(q, file)
    BY <1>4, <1>5, <2>1 DEF AppliesTo
  <2> QED
    BY <1>2, <2>1, <2>2 DEF StandardUser
<1> HIDE DEF denied
<1>10. r \in Permitting(rules, dir)
  BY <1>1, <1>7, <1>8, <1>9 DEF Permitting, denied
<1>11. ~IsAdminSid(r.sid)
  BY <1>1 DEF StandardUser, IsAdminSid, Raw, People
<1>12. RedactRule(policy, r) \in Permitting({RedactRule(policy, q) : q \in rules}, dir)
  BY <1>10, PermittingRedacted
<1>13. ~IsAdminSid(RedactRule(policy, r).sid)
  BY <1>11, RedactedRule, Zenon
<1> QED
  BY <1>12, <1>13

\* Where neither the policy nor the rules are among those that PathsFailWrongly
\* names, a rule that is held against a directory lets a standard user run a file
\* from it.
LEMMA PermittedMayRun ==
  ASSUME NEW policy \in Policy, NEW rules, rules \subseteq PathRule, NEW dir,
         NEW s \in Permitting({RedactRule(policy, r) : r \in rules}, dir), ~IsAdminSid(s.sid),
         policy.sid \in {"hash", "drop"} =>
           \A r \in rules : r.action = "allow" => r.sid \notin Administrators,
         \A r \in rules : r.action = "allow" => ~AllowsNothingIn(r, dir),
         \A r \in rules : r.action = "deny" =>
           \A p \in Naming(r.paths, FilesIn(dir)) : PatternContains(p, dir)
  PROVE  \E p \in People, f \in Executables : MayRun(rules, StandardUser(p), Append(dir, f))
<1> DEFINE redacted == {RedactRule(policy, q) : q \in rules}
           denied   == UNION {q.paths : q \in {u \in redacted : u.action = "deny"}}
<1>1. /\ s \in redacted /\ s.action = "allow"
      /\ \E x \in s.paths : PatternCovers(x, dir)
      /\ ~\E x \in s.exceptions \cup denied : PatternContains(x, dir)
  BY Zenon DEF Permitting
<1>2. PICK r \in rules : s = RedactRule(policy, r)
  BY <1>1
<1>3. ASSUME NEW q
      PROVE  LET u == RedactRule(policy, q)
             IN  u.action = q.action /\ u.paths = q.paths /\ u.exceptions = q.exceptions
  BY RedactedRule
<1>4. r.action = "allow" /\ \E x \in r.paths : PatternCovers(x, dir)
  BY <1>1, <1>2, <1>3
<1>5. r.sid \notin Administrators
  BY <1>2, <1>4, AdministratorStays
<1>6. PICK p \in People : r.sid \in StandardUser(p)
  <2>1. r.sid \in {Raw(x) : x \in Principals}
    BY DEF PathRule
  <2>2. PICK x \in Principals : r.sid = Raw(x)
    BY <2>1
  <2>3. x \in People \/ x = "everyone"
    BY <1>5, <2>2 DEF Administrators, Principals, Groups
  <2>4. "alice" \in People
    BY DEF People
  <2>5. \A y : Raw(y) \in StandardUser(y) /\ Raw("everyone") \in StandardUser(y)
    BY DEF StandardUser
  <2> QED
    BY <2>2, <2>3, <2>4, <2>5
<1>7. PICK f \in Executables : AppliesTo(r, Append(dir, f))
  <2> DEFINE within   == {x \in FilesIn(dir) : \E y \in r.paths : Governs(y, x)}
             excepted == {x \in within : \E y \in r.exceptions : Governs(y, x)}
  <2>1. within # excepted
    BY <1>4 DEF AllowsNothingIn
  <2>2. PICK x \in within : x \notin excepted
    BY <2>1
  <2>3. AppliesTo(r, x) /\ x \in FilesIn(dir)
    BY <2>2 DEF AppliesTo
  <2> QED
    BY <2>3 DEF FilesIn
<1>8. ASSUME NEW q \in rules, q.action = "deny" PROVE ~AppliesTo(q, Append(dir, f))
  <2> SUFFICES ASSUME AppliesTo(q, Append(dir, f)) PROVE FALSE
    OBVIOUS
  <2>1. PICK x \in q.paths : Governs(x, Append(dir, f))
    BY DEF AppliesTo
  <2>2. x \in Naming(q.paths, FilesIn(dir))
    BY <2>1 DEF Naming, FilesIn
  <2>3. PatternContains(x, dir)
    BY <1>8, <2>2
  <2>4. RedactRule(policy, q) \in redacted /\ RedactRule(policy, q).action = "deny"
        /\ x \in RedactRule(policy, q).paths
    BY <1>3, <1>8
  <2>5. x \in denied
    BY <2>4
  <2> QED
    BY <1>1, <2>3, <2>5
<1>9. MayRun(rules, StandardUser(p), Append(dir, f))
  BY <1>4, <1>6, <1>7, <1>8 DEF MayRun
<1> QED
  BY <1>9

\* Enforcement on the host, and in the state that was redacted.
LEMMA EnforcedAlike ==
  ASSUME NEW policy, NEW w, NEW state,
         state.collections = [t \in DOMAIN w.collections |-> RedactCollection(policy, w.collections[t])]
  PROVE  /\ Enforced(state) = EnforcedCollections(w)
         /\ \A t \in EnforcedCollections(w) :
              state.collections[t].pathRules = {RedactRule(policy, r) : r \in w.collections[t].pathRules}
<1> DEFINE cs == w.collections
           ds == state.collections
<1>1. \A t \in DOMAIN cs :
        /\ ds[t].mode = cs[t].mode /\ ds[t].ruleCount = cs[t].ruleCount
        /\ ds[t].pathRules = {RedactRule(policy, r) : r \in cs[t].pathRules}
  <2>1. \A c : LET d == RedactCollection(policy, c)
               IN  /\ d.mode = c.mode /\ d.ruleCount = c.ruleCount
                   /\ d.pathRules = {RedactRule(policy, r) : r \in c.pathRules}
    BY DEF RedactCollection
  <2>2. \A t \in DOMAIN cs : ds[t] = RedactCollection(policy, cs[t])
    OBVIOUS
  <2> QED
    BY <2>1, <2>2, Zenon
<1>2. DOMAIN ds = DOMAIN cs
  OBVIOUS
<1> HIDE DEF cs, ds
<1>3. {t \in DOMAIN ds : ds[t].mode = "Enabled" /\ ds[t].ruleCount > 0}
        = {t \in DOMAIN cs : cs[t].mode = "Enabled" /\ cs[t].ruleCount > 0}
  BY <1>1, <1>2
<1>4. Enforced(state) = EnforcedCollections(w)
  BY <1>3, Zenon DEF Enforced, EnforcedCollections, cs, ds
<1>5. EnforcedCollections(w) \subseteq DOMAIN cs
  BY DEF EnforcedCollections, cs
<1> QED
  BY <1>1, <1>4, <1>5 DEF cs, ds

\* What AppLocker would do, said of the collections that answered.
LEMMA PathsTruth ==
  ASSUME PathInv, NEW c \in OnPaths, Judged(c), case.family = "appcontrol", blind.skipped = {}
  PROVE  LET said == Evaluator(c, Written).says
             w    == case.world
             runs == EnforcedCollections(w) # {} /\ ~RunsFromWritable(w)
         IN  /\ said = "satisfied" => runs \/ PathsPassWrongly(w)
             /\ said = "not-satisfied" =>
                  \/ ~runs
                  \/ blind.hidden \cap {"applocker", "deviceguard"} # {} \/ PathsFailWrongly(w)
<1> DEFINE w        == case.world
           policy   == case.policy
           again    == RedactAppControl(policy, CollectAppControl(w, blind))
           state    == again[StateFact].value
           said     == AppControlJudge(c, again).says
           paths    == PathsValue(w, blind)
           places   == WritableLocations(paths)
           enforced == EnforcedCollections(w)
           rules(t) == w.collections[t].pathRules
           kept(t)  == {RedactRule(policy, r) : r \in rules(t)}
           all      == [t \in DOMAIN w.collections |-> RedactCollection(policy, w.collections[t])]
           runs     == enforced # {} /\ ~RunsFromWritable(w)
<1>1. /\ policy \in Policy
      /\ \A t \in DOMAIN w.collections : rules(t) \subseteq PathRule
      /\ \A d \in DOMAIN w.directories : w.directories[d] \in Directory
  BY CasesAssumption DEF PathInv
<1>2. Evaluator(c, Written).says = said
  <2>1. Written = again
    BY Zenon DEF Written, Redacted, Collected, CollectFamily
  <2>2. c \in AppControlChecks
    BY DEF OnPaths, AppControlChecks
  <2> QED
    BY <2>1, <2>2, AppControlCheck, Zenon
<1>3. JudgedAsFound(said, state, CollectionsAnswered(w, blind), paths, policy)
  BY PathsJudged
<1>4. /\ places \subseteq WritableDirectories(w)
      /\ ~SearchIncomplete(paths) => places = WritableDirectories(w)
  BY <1>1, MoreIsWritable, WritableIsFound
<1>5. WritableDirectories(w) \subseteq Seq(Segments) \ {<<>>}
  BY <1>1 DEF WritableDirectories, Directory
<1>6. /\ enforced \subseteq DOMAIN w.collections
      /\ \A t \in enforced : rules(t) \subseteq AllRules(w)
  BY DEF EnforcedCollections, AllRules
<1> HIDE DEF said, state, paths, again
\* What is held against a place is found where the collections answered.
<1>7. ASSUME state.collections = all
      PROVE  /\ Enforced(state) = enforced
             /\ \A t \in enforced : state.collections[t].pathRules = kept(t)
  BY <1>7, EnforcedAlike
<1>8. ASSUME said = "satisfied", ~PathsPassWrongly(w) PROVE runs
  <2>1. "applocker" \notin blind.hidden
    <3> SUFFICES ASSUME "applocker" \in blind.hidden PROVE FALSE
      OBVIOUS
    <3>1. DOMAIN state.collections = {}
      BY <1>3, <1>8 DEF JudgedAsFound, CollectionsAnswered
    <3> QED
      BY <1>3, <1>8, <3>1 DEF JudgedAsFound, Enforced
  <2>2. state.collections = all /\ Enforced(state) # {} /\ ~SearchIncomplete(paths)
        /\ ~(places # {} /\ PermittedRules(state, paths) # {})
    BY <1>3, <1>8, <2>1 DEF JudgedAsFound, CollectionsAnswered
  <2> SUFFICES ASSUME RunsFromWritable(w) PROVE FALSE
    BY <1>7, <2>2
  <2>3. PICK t \in enforced, d \in DOMAIN w.directories, p \in People, f \in Executables :
          /\ w.directories[d].writable
          /\ MayRun(rules(t), StandardUser(p), Append(w.directories[d].path, f))
    BY DEF RunsFromWritable
  <2> DEFINE dir == w.directories[d].path
  <2>4. dir \in WritableDirectories(w)
    BY <2>3 DEF WritableDirectories
  <2>5. dir \in Seq(Segments) /\ dir # <<>> /\ dir \in places
    BY <1>4, <1>5, <2>2, <2>4
  <2>6. \A r \in rules(t) : ~Narrow(r) /\ \A x \in r.paths : HasWildcard(x) => Last(x) = Star
    BY <1>6, <1>8 DEF PathsPassWrongly
  <2>7. rules(t) \subseteq PathRule
    BY <1>1, <1>6
  <2> HIDE DEF dir, rules
  <2>8. \E s \in Permitting(kept(t), dir) : ~IsAdminSid(s.sid)
    BY <2>3, <2>5, <2>6, <2>7, MayRunIsPermitted DEF dir
  <2>9. PermittedRules(state, paths) # {}
    <3>1. Enforced(state) = enforced /\ state.collections[t].pathRules = kept(t)
      BY <1>7, <2>2
    <3> HIDE DEF kept, enforced
    <3> QED
      BY <2>5, <2>8, <3>1 DEF PermittedRules
  <2> QED
    BY <2>2, <2>5, <2>9
<1>9. ASSUME said = "not-satisfied", blind.hidden \cap {"applocker", "deviceguard"} = {},
             ~PathsFailWrongly(w)
      PROVE  ~runs
  <2>1. state.collections = all
        /\ (Enforced(state) = {} \/ (places # {} /\ PermittedRules(state, paths) # {}))
    BY <1>3, <1>9 DEF JudgedAsFound, CollectionsAnswered
  <2> SUFFICES ASSUME PermittedRules(state, paths) # {} PROVE RunsFromWritable(w)
    BY <1>7, <2>1
  <2>2. PICK t \in enforced, l \in places :
          \E s \in Permitting(kept(t), l) : ~IsAdminSid(s.sid)
    <3>1. PICK t \in Enforced(state), l \in places :
            \E s \in Permitting(state.collections[t].pathRules, l) : ~IsAdminSid(s.sid)
      BY DEF PermittedRules
    <3>2. t \in enforced /\ state.collections[t].pathRules = kept(t)
      BY <1>7, <2>1
    <3> HIDE DEF kept, enforced
    <3> QED
      BY <3>1, <3>2
  <2>3. PICK d \in DOMAIN w.directories : w.directories[d].writable /\ l = w.directories[d].path
    BY <1>4 DEF WritableDirectories
  <2>4. l \in WritableDirectories(w) /\ rules(t) \subseteq PathRule /\ rules(t) \subseteq AllRules(w)
    BY <1>1, <1>4, <1>6
  <2>5. /\ policy.sid \in {"hash", "drop"} =>
             \A r \in rules(t) : r.action = "allow" => r.sid \notin Administrators
        /\ \A r \in rules(t) : r.action = "allow" => ~AllowsNothingIn(r, l)
        /\ \A r \in rules(t) : r.action = "deny" =>
             \A x \in Naming(r.paths, FilesIn(l)) : PatternContains(x, l)
    BY <1>9, <2>4 DEF PathsFailWrongly
  <2> HIDE DEF rules, enforced, policy
  <2>6. \E p \in People, f \in Executables : MayRun(rules(t), StandardUser(p), Append(l, f))
    BY <1>1, <2>2, <2>4, <2>5, PermittedMayRun
  <2> QED
    BY <2>3, <2>6 DEF RunsFromWritable, rules, enforced
<1> QED
  BY <1>2, <1>8, <1>9

LEMMA WritablePathsHold == PathInv => WritablePathsAreJudgedAsEnforced
<1> SUFFICES ASSUME PathInv, NEW c \in OnPaths, Judged(c)
             PROVE  /\ Status(c) = "satisfied" =>
                         \/ PassClaim(c, case.world)
                         \/ blind.skipped # {} \/ PathsPassWrongly(case.world)
                    /\ Status(c) = "not-satisfied" =>
                         \/ FailureClaim(c, case.world)
                         \/ FailsWrongly(c, case.world) \/ PathsFailWrongly(case.world)
  BY DEF WritablePathsAreJudgedAsEnforced
<1> DEFINE w    == case.world
           said == Evaluator(c, Written).says
           runs == EnforcedCollections(w) # {} /\ ~RunsFromWritable(w)
<1>1. c = "application-control-user-writable-paths" /\ c \in AppControlChecks
  BY DEF OnPaths, AppControlChecks
<1>2. case.family = "appcontrol"
  <2>1. case.family \in Families /\ c \in ChecksOf(case.family)
    BY JudgedOnWritten, Zenon
  <2> QED
    BY <1>1, <2>1, FamilyChecks DEF OnPaths, OfficeChecks, BrowserChecks, ApplicationChecks,
       WindowsBaseChecks, ReleaseChecks, EntraChecks
<1>3. PassClaim(c, w) <=> runs
  BY <1>1 DEF PassClaim
<1>4. FailureClaim(c, w) <=> ~runs
  BY <1>1, <1>3 DEF FailureClaim
<1>5. /\ blind.skipped # {} => FailsWrongly(c, w)
      /\ blind.hidden \cap {"applocker", "deviceguard"} # {} => FailsWrongly(c, w)
  BY <1>1 DEF FailsWrongly
<1>6. /\ Status(c) = "satisfied" => said = "satisfied"
      /\ Status(c) = "not-satisfied" => said = "not-satisfied"
  <2>1. Status(c) = Eval!JudgeCheck(c, Written, {}).status
    BY JudgedOnWritten, Zenon
  <2>2. c \in AllChecks
    BY <1>1, AppControlCheck
  <2> QED
    BY <2>1, <2>2, StatusIsSaid, Zenon
<1>7. blind.skipped = {} =>
        /\ said = "satisfied" => runs \/ PathsPassWrongly(w)
        /\ said = "not-satisfied" =>
             ~runs \/ blind.hidden \cap {"applocker", "deviceguard"} # {} \/ PathsFailWrongly(w)
  BY <1>2, PathsTruth
<1> HIDE DEF w, said, runs
<1> QED
  BY <1>3, <1>4, <1>5, <1>6, <1>7 DEF w

\* The verdict on writable paths is what AppLocker would do, whatever the rules,
\* the patterns in them, the directories and their depth, what was not read of
\* them and the redaction policy: outside the cases that PathsPassWrongly and
\* PathsFailWrongly name, a pass means that no standard user can run a file from
\* where one can write, and a failure that one can, or that nothing is enforced.
\* appcontrol_paths.py:227-286, 313-489
THEOREM WritablePathsAreJudgedAsEnforcedAlways == Spec => []WritablePathsAreJudgedAsEnforced
BY PathTaken, WritablePathsHold, PTL

-----------------------------------------------------------------------------
(* Vendor support of the subject as it is.                                 *)

\* What data/eol holds of a product is all there is to it.
LEMMA WholeFiles ==
  ASSUME NEW p \in {"windows", "windows-server", "rhel", "ubuntu", "office", "chrome", "firefox"}
  PROVE  /\ p \in DOMAIN Dataset /\ p \in DOMAIN Lifecycles
         /\ Dataset[p] = Lifecycles[p]
BY LifecyclesAssumption

\* A cycle is listed once.
LEMMA CycleOnce ==
  ASSUME NEW p \in DOMAIN Lifecycles, NEW e \in Lifecycles[p], NEW f \in Lifecycles[p], e.cycle = f.cycle
  PROVE  e = f
BY LifecyclesAssumption, Zenon

LEMMA SetAgain ==
  ASSUME NEW parts, NEW dot
  PROVE  [[parts |-> parts, minor |-> dot] EXCEPT !.minor = dot] = [parts |-> parts, minor |-> dot]
OBVIOUS

LEMMA NoMinor == ASSUME NEW parts PROVE [Cycle(parts) EXCEPT !.minor = ""] = Cycle(parts)
BY SetAgain, Zenon DEF Cycle

LEMMA PartsOf == \A t : Cycle(t).parts = t
BY Zenon DEF Cycle

\* An entry that a cycle selects alone is that cycle's own, or its only edition.
LEMMA SelectsAlone ==
  ASSUME NEW p \in DOMAIN Dataset, NEW parts, NEW x,
         Selected(Dataset[p], Cycle(parts)) = {x}
  PROVE  \/ {e \in Lifecycles[p] : e.cycle = Cycle(parts)} = {x}
         \/ ~Listed(p, Cycle(parts)) /\ Editions(Lifecycles[p], Cycle(parts)) = {x}
<1> DEFINE wanted == Cycle(parts)
           major  == [wanted EXCEPT !.minor = ""]
           of(c)  == {e \in Lifecycles[p] : e.cycle = c}
<1>1. Dataset[p] = Lifecycles[p]
  BY LifecyclesAssumption
<1>2. major = wanted
  BY NoMinor, Zenon
<1>3. Selected(Dataset[p], wanted) =
        IF of(wanted) # {} THEN of(wanted)
        ELSE IF of(major) # {} THEN of(major) ELSE Editions(Lifecycles[p], wanted)
  BY <1>1, Zenon DEF Selected
<1> HIDE DEF wanted, major
<1>4. {x} = IF of(wanted) # {} THEN of(wanted) ELSE Editions(Lifecycles[p], wanted)
  BY <1>2, <1>3, Zenon DEF wanted
<1>5. of(wanted) = {} => ~Listed(p, wanted)
  BY DEF Listed
<1> QED
  BY <1>4, <1>5, Zenon DEF wanted

LEMMA OwnEntry ==
  ASSUME NEW p \in DOMAIN Dataset, NEW parts, NEW x,
         Unequivocal(p, Cycle(parts)),
         Selected(Dataset[p], Cycle(parts)) = {x}
  PROVE  /\ x \in Lifecycles[p] /\ x.cycle = Cycle(parts)
         /\ InSupport(p, Cycle(parts)) <=> Supported(StatusOf(x))
<1> DEFINE wanted == Cycle(parts)
           own    == {e \in Lifecycles[p] : e.cycle = wanted}
<1>1. own = {x} \/ (~Listed(p, wanted) /\ Editions(Lifecycles[p], wanted) = {x})
  BY SelectsAlone, Zenon
<1> HIDE DEF wanted
<1>2. own = {x}
  <2>1. Cardinality({x}) = 1
    BY FS_Singleton
  <2> QED
    BY <1>1, <2>1, Zenon DEF Unequivocal, wanted
<1>3. x \in Lifecycles[p] /\ x.cycle = wanted /\ \A e \in Lifecycles[p] : e.cycle = wanted => e = x
  BY <1>2
<1>4. InSupport(p, wanted) <=> Supported(StatusOf(x))
  BY <1>3 DEF InSupport
<1> QED
  BY <1>3, <1>4 DEF wanted

\* The cycles of the editions of a release.
LEMMA Suffixed ==
  ASSUME NEW a, NEW b, NEW c, NEW d
  PROVE  /\ <<a, b>> \o <<c>> = <<a, b, c>>
         /\ <<a, b>> \o <<c, d>> = <<a, b, c, d>>
<1> DEFINE S   == {a, b, c, d}
           one == <<a, b>> \o <<c>>
           two == <<a, b>> \o <<c, d>>
<1>1. /\ <<a, b>> \in Seq(S) /\ <<c>> \in Seq(S) /\ <<c, d>> \in Seq(S)
      /\ <<a, b, c>> \in Seq(S) /\ <<a, b, c, d>> \in Seq(S)
  OBVIOUS
<1>2. /\ Len(<<a, b>>) = 2 /\ Len(<<c>>) = 1 /\ Len(<<c, d>>) = 2
      /\ Len(<<a, b, c>>) = 3 /\ Len(<<a, b, c, d>>) = 4
  OBVIOUS
<1>3. /\ one \in Seq(S) /\ Len(one) = 3
      /\ \A i \in 1..3 : one[i] = IF i <= 2 THEN <<a, b>>[i] ELSE <<c>>[i - 2]
  BY <1>1, <1>2, ConcatProperties
<1>4. /\ two \in Seq(S) /\ Len(two) = 4
      /\ \A i \in 1..4 : two[i] = IF i <= 2 THEN <<a, b>>[i] ELSE <<c, d>>[i - 2]
  BY <1>1, <1>2, ConcatProperties
<1> HIDE DEF S, one, two
<1>5. one = <<a, b, c>>
  <2>1. one[1] = a /\ one[2] = b /\ one[3] = c
    BY <1>3
  <2> QED
    BY <1>1, <1>2, <1>3, <2>1, SeqEqual
<1>6. two = <<a, b, c, d>>
  <2>1. two[1] = a /\ two[2] = b /\ two[3] = c /\ two[4] = d
    BY <1>4
  <2> QED
    BY <1>1, <1>2, <1>4, <2>1, SeqEqual
<1> QED
  BY <1>5, <1>6 DEF one, two

LEMMA Begins ==
  ASSUME NEW q \in Seq(STRING), NEW t, NEW k \in 2..Len(q), SubSeq(q, 1, k) = t
  PROVE  q[1] = t[1] /\ q[2] = t[2]
<1>1. \A i \in 1..k : SubSeq(q, 1, k)[i] = q[i]
  BY SubSeqProperties
<1> QED
  BY <1>1

\* A release has one date or one per edition, and lists no more than these.
OneOrPerEdition(os, release) ==
  LET plain  == Cycle(<<os, release>>)
      usual  == Cycle(<<os, release, "e">>)
      others == Cycle(<<os, release, "w">>)
  IN  /\ Unequivocal("windows", plain)
      /\ os = "11" => Unequivocal("windows", usual) /\ Unequivocal("windows", others)
      /\ Listed("windows", plain) => ~Listed("windows", usual) /\ ~Listed("windows", others)

\* WindowsAssumption speaks of the releases that have an entry of an edition;
\* where there is none, none is equivocal.
LEMMA WindowsReleases == \A os, release : OneOrPerEdition(os, release)
<1> SUFFICES ASSUME NEW os, NEW release PROVE OneOrPerEdition(os, release)
  OBVIOUS
<1> DEFINE listed == Lifecycles["windows"]
           of(e)  == Len(e.cycle.parts) > 2 /\ e.cycle.parts[1] = os /\ e.cycle.parts[2] = release
<1>1. \A e \in listed : e.cycle.parts \in Seq(STRING)
  <2>1. "windows" \in DOMAIN Lifecycles
    BY WholeFiles
  <2> QED
    BY <2>1, LifecyclesAssumption
<1>2. CASE \E e \in listed : of(e)
  <2>1. PICK e \in listed : of(e)
    BY <1>2
  <2> QED
    BY <2>1, WindowsAssumption, Zenon DEF OneOrPerEdition
<1>3. CASE ~\E e \in listed : of(e)
  <2>1. \A t, k : /\ k \in {2, 3} /\ Len(t) = k /\ t[1] = os /\ t[2] = release
                  => Editions(listed, Cycle(t)) = {}
    <3> SUFFICES ASSUME NEW t, NEW k \in {2, 3}, Len(t) = k, t[1] = os, t[2] = release,
                        NEW e \in Editions(listed, Cycle(t))
                 PROVE  FALSE
      OBVIOUS
    <3>1. Cycle(t).parts = t
      BY PartsOf, Zenon
    <3>2. e \in listed /\ Len(e.cycle.parts) > k /\ SubSeq(e.cycle.parts, 1, k) = t
      BY <3>1, Zenon DEF Editions
    <3>3. Len(e.cycle.parts) \in Nat /\ k \in 2..Len(e.cycle.parts) /\ Len(e.cycle.parts) > 2
      BY <1>1, <3>2
    <3>4. e.cycle.parts[1] = os /\ e.cycle.parts[2] = release
      BY <1>1, <3>2, <3>3, Begins
    <3> QED
      BY <1>3, <3>2, <3>3, <3>4
  <2>2. \A x : ~Listed("windows", Cycle(<<os, release, x>>))
    <3> SUFFICES ASSUME NEW x, NEW e \in listed, e.cycle = Cycle(<<os, release, x>>) PROVE FALSE
      BY DEF Listed
    <3> DEFINE t == <<os, release, x>>
    <3>1. e.cycle.parts = t
      BY PartsOf, Zenon
    <3>2. Len(t) > 2 /\ t[1] = os /\ t[2] = release
      OBVIOUS
    <3> HIDE DEF t
    <3>3. of(e)
      BY <3>1, <3>2, Zenon
    <3> QED
      BY <1>3, <3>3
  <2>3. \A t : Editions(listed, Cycle(t)) = {} => Unequivocal("windows", Cycle(t))
    <3>1. Cardinality({}) # 1
      BY FS_EmptySet
    <3> QED
      BY <3>1, Zenon DEF Unequivocal
  <2>4. /\ Len(<<os, release>>) = 2 /\ <<os, release>>[1] = os /\ <<os, release>>[2] = release
        /\ \A x : /\ Len(<<os, release, x>>) = 3
                  /\ <<os, release, x>>[1] = os /\ <<os, release, x>>[2] = release
    OBVIOUS
  <2> HIDE DEF listed
  <2>5. /\ Unequivocal("windows", Cycle(<<os, release>>))
        /\ \A x : Unequivocal("windows", Cycle(<<os, release, x>>))
    <3>1. 2 \in {2, 3} /\ 3 \in {2, 3}
      OBVIOUS
    <3>2. Editions(listed, Cycle(<<os, release>>)) = {}
      BY <2>1, <2>4, <3>1, Zenon
    <3>3. \A x : Editions(listed, Cycle(<<os, release, x>>)) = {}
      BY <2>1, <2>4, <3>1, Zenon
    <3> QED
      BY <2>3, <3>2, <3>3, Zenon
  <2> QED
    BY <2>2, <2>5, Zenon DEF OneOrPerEdition
<1> QED
  BY <1>2, <1>3

\* The long-term channel lasts as long as the release.
LEMMA LongTermLasts ==
  ASSUME NEW os, NEW release, Listed("windows", Cycle(<<os, release, "e", "lts">>)),
         \/ InSupport("windows", Cycle(<<os, release>>))
         \/ InSupport("windows", Cycle(<<os, release, "e">>))
  PROVE  InSupport("windows", Cycle(<<os, release, "e", "lts">>))
<1>1. PICK e \in Lifecycles["windows"] : e.cycle = Cycle(<<os, release, "e", "lts">>)
  BY DEF Listed
<1>2. PICK s \in Lifecycles["windows"] :
        /\ s.cycle \in {Cycle(<<os, release>>), Cycle(<<os, release, "e">>)}
        /\ Supported(StatusOf(s))
  BY DEF InSupport
<1>3. e.cycle.parts = <<os, release, "e", "lts">>
  BY <1>1, PartsOf, Zenon
<1>4. Len(e.cycle.parts) > 2 /\ e.cycle.parts[1] = os /\ e.cycle.parts[2] = release
  BY <1>3
<1>5. Supported(StatusOf(e))
  BY <1>1, <1>2, <1>4, WindowsAssumption, Zenon
<1> QED
  BY <1>1, <1>5 DEF InSupport

\* A host's identity, read.
LEMMA IdentityRead ==
  ASSUME NEW w
  PROVE  LET value == WindowsIdentity(w, TRUE)
         IN  /\ value.product = IF w.os = "server" THEN "windows-server" ELSE "windows"
             /\ value.cycle = NoCycle
             /\ value.os = w.os /\ value.release = w.release /\ value.edition = w.edition
<1> DEFINE product == IF w.os = "server" THEN "windows-server" ELSE "windows"
           value   == WindowsIdentity(w, TRUE)
<1>1. value =
        [product |-> product, cycle |-> NoCycle, os |-> w.os, release |-> w.release,
         edition |-> w.edition]
  BY Zenon DEF WindowsIdentity
<1> HIDE DEF product, value
<1>2. /\ value.product = product /\ value.cycle = NoCycle
      /\ value.os = w.os /\ value.release = w.release /\ value.edition = w.edition
  BY <1>1
<1> QED
  BY <1>2, Zenon DEF product, value

LEMMA ReleaseRecord ==
  ASSUME NEW product, NEW cycle, NEW os, NEW release, NEW edition
  PROVE  LET r == [product |-> product, cycle |-> cycle, os |-> os, release |-> release,
                   edition |-> edition]
         IN  r.product = product /\ r.cycle = cycle
OBVIOUS

\* What it is looked up as.
LEMMA LookedUpAs ==
  ASSUME NEW w, WindowsCycle(WindowsIdentity(w, TRUE)) # NoCycle
  PROVE  LET cycle == WindowsCycle(WindowsIdentity(w, TRUE))
             plain == Cycle(<<w.os, w.release>>)
         IN  \/ w.os = "server" /\ cycle = ServerCycle(w)
             \/ w.os = "10" /\ cycle = plain
             \/ w.os = "11" /\ w.edition = "pro" /\ cycle = Cycle(<<w.os, w.release, "w">>)
             \/ w.os = "11" /\ w.edition \in {"enterprise", "ltsc"}
                /\ cycle = Cycle(<<w.os, w.release, "e">>)
             \/ w.os = "11" /\ w.edition \notin {"pro", "enterprise", "ltsc"} /\ cycle = plain
<1> DEFINE value == WindowsIdentity(w, TRUE)
           cycle == WindowsCycle(value)
<1>1. value.os = w.os /\ value.release = w.release /\ value.edition = w.edition
  BY IdentityRead, Zenon
<1> HIDE DEF value
<1>2. CASE w.os = "server" /\ w.release # ""
  <2>1. cycle = IF w.edition = "r2" THEN Cycle(<<w.release, "r2">>) ELSE Cycle(<<w.release>>)
    BY <1>1, <1>2, Zenon DEF WindowsCycle
  <2> QED
    BY <1>2, <2>1, Zenon DEF ServerCycle, value
<1>3. CASE w.os = "10" /\ w.release # ""
  <2>1. "10" # "server"
    OBVIOUS
  <2>2. cycle = Cycle(<<w.os, w.release>>)
    BY <1>1, <1>3, <2>1, Zenon DEF WindowsCycle
  <2> QED
    BY <1>3, <2>2, Zenon DEF value
<1>4. CASE w.os = "11" /\ w.release # ""
  <2>1. "11" # "server" /\ "11" # "10"
    OBVIOUS
  <2>2. cycle = Cycle(<<w.os, w.release>> \o EditionSuffix(w.edition))
    BY <1>1, <1>4, <2>1, Zenon DEF WindowsCycle
  <2>3. EditionSuffix(w.edition) =
          IF w.edition \in {"enterprise", "ltsc"} THEN <<"e">>
          ELSE IF w.edition = "pro" THEN <<"w">> ELSE <<>>
    BY DEF EditionSuffix
  <2>4. <<w.os, w.release>> \o <<>> = <<w.os, w.release>>
    OBVIOUS
  <2>5. /\ <<w.os, w.release>> \o <<"e">> = <<w.os, w.release, "e">>
        /\ <<w.os, w.release>> \o <<"w">> = <<w.os, w.release, "w">>
    BY Suffixed, Zenon
  <2>6. "pro" \notin {"enterprise", "ltsc"}
    OBVIOUS
  <2>7. CASE w.edition \in {"enterprise", "ltsc"}
    BY <1>4, <2>2, <2>3, <2>5, <2>7, Zenon DEF value
  <2>8. CASE w.edition = "pro"
    BY <1>4, <2>2, <2>3, <2>5, <2>6, <2>8, Zenon DEF value
  <2>9. CASE w.edition \notin {"pro", "enterprise", "ltsc"}
    <3>1. EditionSuffix(w.edition) = <<>>
      BY <2>3, <2>9, Zenon
    <3> QED
      BY <1>4, <2>2, <2>4, <2>9, <3>1, Zenon DEF value
  <2> QED
    BY <2>7, <2>8, <2>9, Zenon
<1>5. ~(w.os \in {"server", "10", "11"} /\ w.release # "") => cycle = NoCycle
  BY <1>1, Zenon DEF WindowsCycle
<1> QED
  BY <1>2, <1>3, <1>4, <1>5, Zenon DEF value

\* A client is of the cycle of its edition, if that has one.
LEMMA OwnCycleIs ==
  ASSUME NEW w
  PROVE  LET special == IF w.edition = "pro" THEN Cycle(<<w.os, w.release, "w">>)
                        ELSE IF w.edition = "ltsc" THEN Cycle(<<w.os, w.release, "e", "lts">>)
                        ELSE Cycle(<<w.os, w.release, "e">>)
         IN  OwnCycle(w) = IF w.os = "server" THEN ServerCycle(w)
                           ELSE IF Listed("windows", special) THEN special
                           ELSE Cycle(<<w.os, w.release>>)
<1> DEFINE edition == CASE w.edition = "pro"  -> <<"w">>
                        [] w.edition = "ltsc" -> <<"e", "lts">>
                        [] OTHER              -> <<"e">>
           special == IF w.edition = "pro" THEN Cycle(<<w.os, w.release, "w">>)
                      ELSE IF w.edition = "ltsc" THEN Cycle(<<w.os, w.release, "e", "lts">>)
                      ELSE Cycle(<<w.os, w.release, "e">>)
<1>1. edition = IF w.edition = "pro" THEN <<"w">>
                ELSE IF w.edition = "ltsc" THEN <<"e", "lts">> ELSE <<"e">>
  OBVIOUS
<1>2. /\ <<w.os, w.release>> \o <<"e">> = <<w.os, w.release, "e">>
      /\ <<w.os, w.release>> \o <<"w">> = <<w.os, w.release, "w">>
      /\ <<w.os, w.release>> \o <<"e", "lts">> = <<w.os, w.release, "e", "lts">>
  BY Suffixed, Zenon
<1>3. OwnCycle(w) =
        IF w.os = "server" THEN ServerCycle(w)
        ELSE IF Listed("windows", Cycle(<<w.os, w.release>> \o edition))
        THEN Cycle(<<w.os, w.release>> \o edition)
        ELSE Cycle(<<w.os, w.release>>)
  BY Zenon DEF OwnCycle
<1> HIDE DEF edition
<1>4. Cycle(<<w.os, w.release>> \o edition) = special
  BY <1>1, <1>2, Zenon
<1> QED
  BY <1>3, <1>4, Zenon

\* The identity of a Windows host leads to its own cycle, or to another entry that
\* tells as much.
LEMMA WindowsTruth ==
  ASSUME NEW w,
         w.os = "server" => \/ Unequivocal("windows-server", ServerCycle(w))
                            \/ Expired("windows-server", ServerCycle(w)),
         w.os # "server" /\ w.edition = "ltsc" =>
           Listed("windows", Cycle(<<w.os, w.release, "e", "lts">>))
  PROVE  LET said == OsVendorSupported(WindowsIdentity(w, TRUE)).says
         IN  /\ said = "satisfied" => WindowsInSupport(w)
             /\ said = "not-satisfied" => ~WindowsInSupport(w) \/ w.edition = "ltsc"
<1> DEFINE value   == WindowsIdentity(w, TRUE)
           said    == OsVendorSupported(value).says
           product == IF w.os = "server" THEN "windows-server" ELSE "windows"
           cycle   == WindowsCycle(value)
           status  == Lookup(product, cycle)
           goal    == /\ said = "satisfied" => WindowsInSupport(w)
                      /\ said = "not-satisfied" => ~WindowsInSupport(w) \/ w.edition = "ltsc"
<1> SUFFICES ASSUME said # "unassessed" PROVE goal
  BY Zenon
<1>1. /\ cycle # NoCycle /\ ~status.unknown
      /\ said = IF Supported(status) THEN "satisfied" ELSE "not-satisfied"
  <2>1. value.product = product /\ value.cycle = NoCycle
    BY IdentityRead, Zenon
  <2>2. value.product \in {"windows", "windows-server"}
    BY <2>1
  <2> HIDE DEF value, product
  <2> QED
    BY <2>1, <2>2, OsVerdict, Zenon
<1>2. /\ product \in DOMAIN Dataset
      /\ \E x : Selected(Dataset[product], cycle) = {x} /\ status = StatusOf(x)
  BY <1>1, LookupSettles, Zenon
<1>3. PICK x : Selected(Dataset[product], cycle) = {x} /\ status = StatusOf(x)
  BY <1>2
<1>4. WindowsInSupport(w) = InSupport(product, OwnCycle(w))
  BY DEF WindowsInSupport
<1>5. \A parts : cycle = Cycle(parts) /\ Unequivocal(product, cycle) =>
        Listed(product, cycle) /\ (InSupport(product, cycle) <=> Supported(status))
  <2> SUFFICES ASSUME NEW parts, cycle = Cycle(parts), Unequivocal(product, cycle)
               PROVE  Listed(product, cycle) /\ (InSupport(product, cycle) <=> Supported(status))
    OBVIOUS
  <2> HIDE DEF product, cycle, status
  <2>1. /\ x \in Lifecycles[product] /\ x.cycle = cycle
        /\ InSupport(product, cycle) <=> Supported(StatusOf(x))
    BY <1>2, <1>3, OwnEntry
  <2> QED
    BY <1>3, <2>1 DEF Listed
<1>6. \/ w.os = "server" /\ cycle = ServerCycle(w)
      \/ w.os = "10" /\ cycle = Cycle(<<w.os, w.release>>)
      \/ w.os = "11" /\ w.edition = "pro" /\ cycle = Cycle(<<w.os, w.release, "w">>)
      \/ w.os = "11" /\ w.edition \in {"enterprise", "ltsc"} /\ cycle = Cycle(<<w.os, w.release, "e">>)
      \/ w.os = "11" /\ w.edition \notin {"pro", "enterprise", "ltsc"}
         /\ cycle = Cycle(<<w.os, w.release>>)
  BY <1>1, LookedUpAs, Zenon
<1> DEFINE plain   == Cycle(<<w.os, w.release>>)
           usual   == Cycle(<<w.os, w.release, "e">>)
           others  == Cycle(<<w.os, w.release, "w">>)
           lts     == Cycle(<<w.os, w.release, "e", "lts">>)
           special == IF w.edition = "pro" THEN others ELSE IF w.edition = "ltsc" THEN lts ELSE usual
<1>7. OwnCycle(w) = IF w.os = "server" THEN ServerCycle(w)
                    ELSE IF Listed("windows", special) THEN special ELSE plain
  BY OwnCycleIs, Zenon
<1>8. CASE w.os = "server"
  <2>1. cycle = ServerCycle(w) /\ OwnCycle(w) = cycle /\ product = "windows-server"
    <3>1. "10" # "server" /\ "11" # "server"
      OBVIOUS
    <3> QED
      BY <1>6, <1>7, <1>8, <3>1, Zenon
  <2>2. \E parts : cycle = Cycle(parts)
    BY <2>1, Zenon DEF ServerCycle
  <2>3. InSupport(product, OwnCycle(w)) <=> Supported(status)
    <3>1. CASE Unequivocal("windows-server", ServerCycle(w))
      BY <1>5, <1>8, <2>1, <2>2, <3>1, Zenon
    <3>2. CASE Expired("windows-server", ServerCycle(w)) /\ ~Unequivocal("windows-server", ServerCycle(w))
      <4>1. ~Listed(product, cycle)
        BY <2>1, <3>2, Zenon DEF Unequivocal
      <4>2. ~InSupport(product, cycle)
        BY <4>1, Zenon DEF InSupport, Listed
      <4>3. x \in Editions(Lifecycles[product], cycle)
        <5>1. PICK parts : cycle = Cycle(parts)
          BY <2>2
        <5> HIDE DEF product, cycle
        <5>4. Selected(Dataset[product], Cycle(parts)) = {x}
          BY <1>3, <5>1, Zenon
        <5>2. \/ {e \in Lifecycles[product] : e.cycle = Cycle(parts)} = {x}
              \/ Editions(Lifecycles[product], Cycle(parts)) = {x}
          BY <1>2, <5>4, SelectsAlone
        <5>3. {e \in Lifecycles[product] : e.cycle = Cycle(parts)} = {}
          BY <4>1, <5>1 DEF Listed
        <5> QED
          BY <5>1, <5>2, <5>3
      <4>4. ~Supported(StatusOf(x))
        BY <2>1, <3>2, <4>3, Zenon DEF Expired
      <4> QED
        BY <1>3, <2>1, <4>2, <4>4, Zenon
    <3> QED
      BY <1>8, <3>1, <3>2, Zenon
  <2> HIDE DEF said, status, product
  <2> QED
    BY <1>1, <1>4, <2>3
<1>9. CASE w.os # "server"
  <2>1. product = "windows"
    BY <1>9
  <2>2. \/ w.os \in {"10", "11"} /\ w.edition \notin {"pro", "enterprise", "ltsc"} /\ cycle = plain
        \/ w.os = "10" /\ w.edition \in {"pro", "enterprise", "ltsc"} /\ cycle = plain
        \/ w.os = "11" /\ w.edition = "pro" /\ cycle = others
        \/ w.os = "11" /\ w.edition \in {"enterprise", "ltsc"} /\ cycle = usual
    BY <1>6, <1>9, Zenon
  <2>3. OneOrPerEdition(w.os, w.release)
    BY WindowsReleases
  <2>4. Unequivocal(product, cycle)
    BY <2>1, <2>2, <2>3, Zenon DEF OneOrPerEdition
  <2>5. \E parts : cycle = Cycle(parts)
    BY <2>2, Zenon
  <2>6. Listed("windows", cycle) /\ (InSupport("windows", cycle) <=> Supported(status))
    BY <1>5, <2>1, <2>4, <2>5, Zenon
  <2>7. Listed("windows", plain) => ~Listed("windows", usual) /\ ~Listed("windows", others)
    BY <2>3, Zenon DEF OneOrPerEdition
  <2>8. "ltsc" # "pro" /\ "enterprise" # "pro" /\ "enterprise" # "ltsc"
    OBVIOUS
  <2>9. CASE w.edition = "ltsc"
    <3>1. Listed("windows", lts) /\ OwnCycle(w) = lts
      BY <1>7, <1>9, <2>8, <2>9, Zenon
    <3>2. cycle \in {plain, usual}
      BY <2>2, <2>8, <2>9, Zenon
    <3>3. Supported(status) => InSupport("windows", lts)
      BY <2>6, <3>1, <3>2, LongTermLasts, Zenon
    <3> HIDE DEF said, status, product, lts
    <3> QED
      BY <1>1, <1>4, <2>1, <2>9, <3>1, <3>3
  <2>10. CASE w.edition # "ltsc"
    <3>1. OwnCycle(w) = cycle
      <4>1. CASE cycle = plain
        <5>1. special \in {usual, others}
          BY <2>10, Zenon
        <5>2. ~Listed("windows", special)
          BY <2>6, <2>7, <4>1, <5>1, Zenon
        <5> QED
          BY <1>7, <1>9, <4>1, <5>2, Zenon
      <4>2. CASE w.edition = "pro" /\ cycle = others
        BY <1>7, <1>9, <2>6, <4>2, Zenon
      <4>3. CASE w.edition = "enterprise" /\ cycle = usual
        BY <1>7, <1>9, <2>6, <2>8, <4>3, Zenon
      <4> QED
        BY <2>2, <2>10, <4>1, <4>2, <4>3, Zenon
    <3>2. WindowsInSupport(w) <=> Supported(status)
      BY <1>4, <2>1, <2>6, <3>1, Zenon
    <3> HIDE DEF said, status
    <3> QED
      BY <1>1, <3>2
  <2> QED
    BY <2>9, <2>10
<1> QED
  BY <1>8, <1>9

\* The cycle of a version without its minor part.
Major(v) == [v EXCEPT !.minor = ""]

LEMMA WithoutMinor ==
  ASSUME NEW v \in [parts : Seq(STRING), minor : STRING], NEW dot, v.minor = dot
  PROVE  [v EXCEPT !.minor = dot] = v
OBVIOUS

\* What a distribution selects is the only entry there is on a version.
LEMMA LinuxEntry ==
  ASSUME NEW p \in {"rhel", "ubuntu"}, NEW v \in [parts : Seq(STRING), minor : STRING],
         NEW x, Selected(Dataset[p], v) = {x}
  PROVE  InSupport(p, v) \/ InSupport(p, Major(v)) <=> Supported(StatusOf(x))
<1> DEFINE of(c) == {e \in Lifecycles[p] : e.cycle = c}
<1>1. Dataset[p] = Lifecycles[p]
  BY WholeFiles
<1>2. {x} = IF of(v) # {} THEN of(v)
            ELSE IF of(Major(v)) # {} THEN of(Major(v)) ELSE Editions(Lifecycles[p], v)
  BY <1>1, Zenon DEF Selected, Major
<1>3. \A c : of(c) = {} => ~InSupport(p, c)
  BY DEF InSupport
<1>4. \A c : of(c) = {x} => x \in Lifecycles[p] /\ x.cycle = c
                            /\ (InSupport(p, c) <=> Supported(StatusOf(x)))
  BY DEF InSupport
<1>5. CASE of(v) # {}
  <2>1. of(v) = {x}
    BY <1>2, <1>5, Zenon
  <2>2. x \in Lifecycles[p] /\ x.cycle = v /\ (InSupport(p, v) <=> Supported(StatusOf(x)))
    BY <1>4, <2>1, Zenon
  <2>3. CASE v.minor = ""
    <3>1. Major(v) = v
      BY <2>3, WithoutMinor, Zenon DEF Major
    <3> QED
      BY <2>2, <3>1, Zenon
  <2>4. CASE v.minor # ""
    <3>1. ~Listed(p, Major(v))
      BY <2>2, <2>4, LinuxAssumption, Zenon DEF Major
    <3>2. ~InSupport(p, Major(v))
      BY <3>1 DEF InSupport, Listed
    <3> QED
      BY <2>2, <3>2, Zenon
  <2> QED
    BY <2>3, <2>4, Zenon
<1>6. CASE of(v) = {} /\ of(Major(v)) # {}
  <2>1. of(Major(v)) = {x}
    BY <1>2, <1>6, Zenon
  <2> QED
    BY <1>3, <1>4, <1>6, <2>1, Zenon
<1>7. CASE of(v) = {} /\ of(Major(v)) = {}
  <2>1. x \in Editions(Lifecycles[p], v)
    <3>1. {x} = Editions(Lifecycles[p], v)
      BY <1>2, <1>7, Zenon
    <3> HIDE DEF of
    <3> QED
      BY <3>1
  <2>2. x \in Lifecycles[p] /\ v.parts # <<>> /\ Len(x.cycle.parts) > Len(v.parts)
    BY <2>1, Zenon DEF Editions
  <2>3. Len(x.cycle.parts) = 1
    BY <2>2, LinuxAssumption, Zenon
  <2>4. v.parts \in Seq(STRING)
    OBVIOUS
  <2>5. Len(v.parts) > 0
    BY <2>2, <2>4, EmptySeq
  <2> HIDE DEF of
  <2>6. Len(v.parts) \in Nat
    BY <2>4, LenProperties
  <2> QED
    BY <2>2, <2>3, <2>5, <2>6
<1> QED
  BY <1>5, <1>6, <1>7, Zenon

\* A distribution's identity leads to its own entry, or to that of what it is
\* rebuilt from.
LEMMA LinuxTruth ==
  ASSUME NEW w, NEW value,
         value.product = EolProduct(w.id), value.cycle = w.version,
         w.version \in [parts : Seq(STRING), minor : STRING]
  PROVE  LET said == OsVendorSupported(value).says
         IN  /\ said = "satisfied" => LinuxInSupport(w) \/ w.id = "centos"
             /\ said = "not-satisfied" => ~LinuxInSupport(w)
<1> DEFINE said   == OsVendorSupported(value).says
           p      == EolProduct(w.id)
           v      == w.version
           status == Lookup(p, v)
           goal   == /\ said = "satisfied" => LinuxInSupport(w) \/ w.id = "centos"
                     /\ said = "not-satisfied" => ~LinuxInSupport(w)
           known(id) == id \in DOMAIN Lifecycles /\ (InSupport(id, v) \/ InSupport(id, Major(v)))
<1> SUFFICES ASSUME said # "unassessed" PROVE goal
  BY Zenon
<1>1. p \in {"rhel", "ubuntu", ""} /\ p \notin {"windows", "windows-server"}
  BY Zenon DEF EolProduct
<1>2. p # "" /\ ~status.unknown
  BY <1>1, OsVerdict, Zenon
<1>3. said = IF Supported(status) THEN "satisfied" ELSE "not-satisfied"
  BY <1>1, OsVerdict, Zenon
<1>4. p \in {"rhel", "ubuntu"}
  BY <1>1, <1>2, Zenon
<1>5. PICK x : Selected(Dataset[p], v) = {x} /\ status = StatusOf(x)
  BY <1>2, LookupSettles, Zenon
<1>6. InSupport(p, v) \/ InSupport(p, Major(v)) <=> Supported(status)
  BY <1>4, <1>5, LinuxEntry, Zenon
<1>7. p \in DOMAIN Lifecycles
  BY <1>4, WholeFiles
<1>8. LinuxInSupport(w) <=> known(w.id)
  BY Zenon DEF LinuxInSupport, Major
<1>9. w.id = p \/ (w.id = "centos" /\ p = "rhel")
  <2>1. CASE w.id \in {"rhel", "ubuntu"}
    <3>1. p = w.id
      BY <2>1, Zenon DEF EolProduct
    <3> QED
      BY <3>1
  <2>2. CASE w.id = "centos"
    <3>1. w.id \notin {"rhel", "ubuntu"}
      BY <2>2
    <3>2. p = "rhel"
      BY <2>2, <3>1, Zenon DEF EolProduct
    <3> QED
      BY <2>2, <3>2
  <2>3. CASE w.id \notin {"rhel", "ubuntu"} /\ w.id # "centos"
    <3>1. p = ""
      BY <2>3, Zenon DEF EolProduct
    <3> QED
      BY <1>2, <3>1, Zenon
  <2> QED
    BY <2>1, <2>2, <2>3
<1>10. CASE w.id = p
  <2>1. LinuxInSupport(w) <=> Supported(status)
    BY <1>6, <1>7, <1>8, <1>10, Zenon
  <2> HIDE DEF said, status
  <2> QED
    BY <1>3, <2>1
<1>11. CASE w.id = "centos" /\ p = "rhel"
  <2>1. \A c : InSupport("centos", c) /\ "centos" \in DOMAIN Lifecycles => InSupport("rhel", c)
    BY LinuxAssumption, Zenon DEF InSupport
  <2>2. LinuxInSupport(w) => Supported(status)
    BY <1>6, <1>8, <1>11, <2>1, Zenon
  <2> HIDE DEF said, status
  <2> QED
    BY <1>3, <1>11, <2>2
<1> QED
  BY <1>9, <1>10, <1>11, Zenon

\* An entry is what its own cycle is looked up as.
LEMMA LookupOwn ==
  ASSUME NEW p \in DOMAIN Dataset, NEW e \in Lifecycles[p]
  PROVE  Lookup(p, e.cycle) = StatusOf(e)
<1> DEFINE of(c) == {f \in Lifecycles[p] : f.cycle = c}
           found == Selected(Dataset[p], e.cycle)
<1>1. Dataset[p] = Lifecycles[p] /\ p \in DOMAIN Lifecycles
  BY LifecyclesAssumption, Zenon
<1>2. of(e.cycle) = {e}
  <2>1. \A f \in Lifecycles[p] : f.cycle = e.cycle => f = e
    BY <1>1, CycleOnce, Zenon
  <2> QED
    BY <2>1
<1>3. found = {e}
  <2>1. {e} # {}
    OBVIOUS
  <2> QED
    BY <1>1, <1>2, <2>1, Zenon DEF Selected
<1>4. Cardinality({e}) = 1 /\ (CHOOSE f \in {e} : TRUE) = e
  BY FS_Singleton
<1>5. Lookup(p, e.cycle) = IF Cardinality(found) = 1 THEN StatusOf(CHOOSE f \in found : TRUE) ELSE UnknownStatus
  BY Zenon DEF Lookup
<1> QED
  BY <1>3, <1>4, <1>5, Zenon

\* A version without a minor part.
MajorOnly(v) == v \in [parts : Seq(STRING), minor : {""}]

LEMMA OnlyParts ==
  ASSUME NEW dot, NEW v \in [parts : Seq(STRING), minor : {dot}]
  PROVE  v = [parts |-> v.parts, minor |-> dot]
OBVIOUS

\* What is known of an application is so; nothing is known of one past its
\* support only if no file covers it.
LEMMA AppTruth ==
  ASSUME NEW a, MajorOnly(a.version),
         a.kind \in DOMAIN Lifecycles => Unequivocal(a.kind, a.version)
  PROVE  /\ ~AppStatus(a).unknown => (PastSupport(a) <=> ~Supported(AppStatus(a)))
         /\ AppStatus(a).unknown /\ PastSupport(a) => a.kind # "flash" /\ MapProduct(a.kind) = ""
<1> DEFINE covered == {"office", "chrome", "firefox"}
           dead    == SupportStatus(FALSE, FALSE, FALSE)
<1>1. dead.unknown = FALSE /\ ~Supported(dead) /\ UnknownStatus.unknown = TRUE
  BY DEF SupportStatus, Supported, UnknownStatus
<1>2. CASE a.kind = "flash"
  <2>1. AppStatus(a) = dead /\ PastSupport(a)
    BY <1>2, Zenon DEF AppStatus, PastSupport
  <2> QED
    BY <1>1, <2>1, Zenon
<1>3. CASE a.kind # "flash" /\ a.kind \notin covered
  <2>1. MapProduct(a.kind) = ""
    BY <1>3, Zenon DEF MapProduct
  <2>2. AppStatus(a) = UnknownStatus
    BY <1>3, <2>1, Zenon DEF AppStatus
  <2> QED
    BY <1>1, <1>3, <2>1, <2>2, Zenon
<1>4. CASE a.kind # "flash" /\ a.kind \in covered
  <2> DEFINE p == a.kind
             v == a.version
  <2>1. p \in DOMAIN Dataset /\ p \in DOMAIN Lifecycles
    BY <1>4, WholeFiles
  <2>2. MapProduct(p) = p /\ p # ""
    BY <1>4, Zenon DEF MapProduct
  <2>3. AppStatus(a) = Lookup(p, v)
    BY <1>4, <2>2, Zenon DEF AppStatus
  <2>4. v = Cycle(v.parts)
    BY OnlyParts, Zenon DEF MajorOnly, Cycle
  <2>5. ASSUME ~Lookup(p, v).unknown
        PROVE  PastSupport(a) <=> ~Supported(Lookup(p, v))
    <3>1. PICK x : Selected(Dataset[p], v) = {x} /\ Lookup(p, v) = StatusOf(x)
      BY <2>5, LookupSettles, Zenon
    <3>2. x \in Lifecycles[p] /\ x.cycle = v
      BY <2>1, <2>4, <3>1, OwnEntry, Zenon
    <3>3. \A e \in Lifecycles[p] : e.cycle = v => e = x
      BY <2>1, <3>2, CycleOnce, Zenon
    <3> QED
      BY <1>4, <2>1, <2>5, <3>1, <3>2, <3>3, Zenon DEF PastSupport
  <2>6. ASSUME PastSupport(a) PROVE ~Lookup(p, v).unknown
    <3>1. PICK e \in Lifecycles[p] : e.cycle = v /\ ~StatusOf(e).unknown
      BY <1>4, <2>6, Zenon DEF PastSupport
    <3>2. Lookup(p, v) = StatusOf(e)
      BY <2>1, <3>1, LookupOwn, Zenon
    <3> QED
      BY <3>1, <3>2, Zenon
  <2> QED
    BY <2>3, <2>5, <2>6, Zenon
<1> QED
  BY <1>2, <1>3, <1>4, Zenon

\* The inventory, as written.
LEMMA ApplicationsWritten ==
  ASSUME NEW policy, NEW w, NEW b,
         AppsFact \in DOMAIN RedactBrowsers(policy, CollectFamily("browsers", w, b))
  PROVE  RedactBrowsers(policy, CollectFamily("browsers", w, b))[AppsFact]
           = CollectApplications(w, b)[AppsFact]
<1> DEFINE fs    == CollectFamily("browsers", w, b)
           again == RedactBrowsers(policy, fs)
<1>1. /\ DOMAIN fs = {PolicyFact, JavaFact} \cup IF w.inventoried THEN {AppsFact} ELSE {}
      /\ w.inventoried => fs[AppsFact] = CollectApplications(w, b)[AppsFact]
  BY BrowsersFamilyFacts, Zenon
<1>2. DOMAIN again = DOMAIN fs
  <2>1. again = Redacted("browsers", policy, fs)
    BY Zenon DEF Redacted
  <2>2. "browsers" \in Families
    BY DEF Families
  <2> HIDE DEF again
  <2> QED
    BY <2>1, <2>2, RedactedKeeps
<1>3. AppsFact # PolicyFact /\ AppsFact # JavaFact
  BY DEF AppsFact, PolicyFact, JavaFact
<1> HIDE DEF fs
<1>4. PolicyFact \in DOMAIN fs /\ AppsFact \in DOMAIN fs \ {PolicyFact} /\ w.inventoried
  <2>1. AppsFact \in DOMAIN again
    BY Zenon DEF fs
  <2> HIDE DEF again
  <2> QED
    BY <1>1, <1>2, <1>3, <2>1
<1>5. again[AppsFact] = fs[AppsFact]
  BY <1>4, BrowsersRedacted
<1> QED
  BY <1>1, <1>4, <1>5, Zenon DEF fs

\* Unsupported applications are found, and what is found is unsupported.
LEMMA ApplicationsTruth ==
  ASSUME NEW policy, NEW w, NEW b,
         \A a \in w.installed :
           MajorOnly(a.version) /\ (a.kind \in DOMAIN Lifecycles => Unequivocal(a.kind, a.version))
  PROVE  LET said == UnsupportedAppsRemoved(RedactBrowsers(policy, CollectFamily("browsers", w, b))).says
         IN  /\ said = "satisfied" => ~(\E a \in w.installed : PastSupport(a)) \/ AppsPassWrongly(w)
             /\ said = "not-satisfied" => \E a \in w.installed : PastSupport(a)
<1> DEFINE fs          == RedactBrowsers(policy, CollectFamily("browsers", w, b))
           apps        == CollectApplications(w, b)[AppsFact]
           said        == UnsupportedAppsRemoved(fs).says
           read        == "applications" \notin b.garbled
           seen        == {a \in w.installed : a.scope \notin b.inventory}
           of(a)       == [kind |-> a.kind, version |-> a.version]
           unsupported == {r \in fs[AppsFact].value : ~AppStatus(r).unknown /\ ~Supported(AppStatus(r))}
           supported   == {r \in fs[AppsFact].value : ~AppStatus(r).unknown /\ Supported(AppStatus(r))}
<1>1. /\ apps.partial <=> ~read \/ b.inventory # {}
      /\ apps.value = IF read THEN {of(a) : a \in seen} ELSE {}
  BY ApplicationsFacts, Zenon
<1>2. AppsFact \in DOMAIN fs => fs[AppsFact] = apps
  BY ApplicationsWritten, Zenon
<1>3. \A a : AppStatus(of(a)) = AppStatus(a)
  <2> SUFFICES ASSUME NEW a PROVE AppStatus(of(a)) = AppStatus(a)
    BY Zenon
  <2> DEFINE r == of(a)
  <2>1. r.kind = a.kind /\ r.version = a.version
    OBVIOUS
  <2> HIDE DEF r
  <2>2. AppStatus(r) = AppStatus(a)
    BY <2>1, Zenon DEF AppStatus
  <2> QED
    BY <2>2, Zenon DEF r
<1>4. UnsupportedAppsRemoved(fs) =
        IF AppsFact \notin DOMAIN fs THEN CannotTell("collection-error")
        ELSE IF fs[AppsFact].partial THEN CannotTell("partial-population")
        ELSE IF unsupported # {} THEN NotSatisfied("partial", {AppsFact})
        ELSE IF supported = {} THEN CannotTell("partial-population")
        ELSE Satisfied("partial", {AppsFact})
  BY Zenon DEF UnsupportedAppsRemoved
<1>5. /\ \A k, x : NotSatisfied(k, x).says = "not-satisfied"
      /\ \A k, x : Satisfied(k, x).says = "satisfied"
      /\ \A k : CannotTell(k).says = "unassessed"
  BY DEF NotSatisfied, Satisfied, CannotTell, Outcome
<1>6. /\ said = "satisfied" => AppsFact \in DOMAIN fs /\ ~fs[AppsFact].partial /\ unsupported = {}
      /\ said = "not-satisfied" => AppsFact \in DOMAIN fs /\ ~fs[AppsFact].partial /\ unsupported # {}
  <2> HIDE DEF fs, unsupported, supported
  <2> QED
    BY <1>4, <1>5
<1>7. \A a \in w.installed :
        /\ ~AppStatus(a).unknown => (PastSupport(a) <=> ~Supported(AppStatus(a)))
        /\ AppStatus(a).unknown /\ PastSupport(a) => a.kind # "flash" /\ MapProduct(a.kind) = ""
  BY AppTruth, Zenon
<1> HIDE DEF fs, apps
<1>8. ASSUME said = "satisfied", NEW a \in w.installed, PastSupport(a) PROVE AppsPassWrongly(w)
  <2>1. AppsFact \in DOMAIN fs /\ ~fs[AppsFact].partial /\ unsupported = {}
    BY <1>6, <1>8, Zenon
  <2>2. read /\ b.inventory = {} /\ fs[AppsFact].value = apps.value
    BY <1>1, <1>2, <2>1, Zenon
  <2>3. a \in seen
    BY <2>2
  <2>4. of(a) \in fs[AppsFact].value
    <3>1. fs[AppsFact].value = {of(d) : d \in seen}
      BY <1>1, <2>2, Zenon
    <3> HIDE DEF seen, of
    <3> QED
      BY <2>3, <3>1
  <2>5. ~(~AppStatus(of(a)).unknown /\ ~Supported(AppStatus(of(a))))
    <3> HIDE DEF of
    <3> QED
      BY <2>1, <2>4
  <2>6. ~(~AppStatus(a).unknown /\ ~Supported(AppStatus(a)))
    BY <1>3, <2>5, Zenon
  <2>7. a.kind # "flash" /\ MapProduct(a.kind) = ""
    BY <1>7, <1>8, <2>6, Zenon
  <2> QED
    BY <1>8, <2>7, Zenon DEF AppsPassWrongly
<1>9. ASSUME said = "not-satisfied" PROVE \E a \in w.installed : PastSupport(a)
  <2>1. AppsFact \in DOMAIN fs /\ ~fs[AppsFact].partial /\ unsupported # {}
    BY <1>6, <1>9, Zenon
  <2>2. read /\ fs[AppsFact].value = {of(a) : a \in seen}
    BY <1>1, <1>2, <2>1, Zenon
  <2>3. PICK r \in fs[AppsFact].value : ~AppStatus(r).unknown /\ ~Supported(AppStatus(r))
    BY <2>1
  <2>4. PICK a \in seen : r = of(a)
    <3> HIDE DEF seen, of
    <3> QED
      BY <2>2, <2>3
  <2>5. a \in w.installed
    OBVIOUS
  <2>6. ~AppStatus(a).unknown /\ ~Supported(AppStatus(a))
    BY <1>3, <2>3, <2>4, Zenon
  <2> QED
    BY <1>7, <2>5, <2>6, Zenon
<1> HIDE DEF said
<1>10. /\ said = "satisfied" => ~(\E a \in w.installed : PastSupport(a)) \/ AppsPassWrongly(w)
       /\ said = "not-satisfied" => \E a \in w.installed : PastSupport(a)
  BY <1>8, <1>9, Zenon
<1> QED
  BY <1>10, Zenon DEF said, fs

\* The verdicts that go by data/eol, check by check.
LEMMA SupportTruth ==
  ASSUME PathInv, NEW c \in OnDates, Judged(c)
  PROVE  LET said == Evaluator(c, Written).says
             w    == case.world
         IN  /\ said = "satisfied" /\ Complete(Written, RequiredFacts[c]) =>
                  \/ PassClaim(c, w) \/ PassesWrongly(c, w)
                  \/ c \in ApplicationChecks /\ AppsPassWrongly(w)
             /\ said = "not-satisfied" /\ Complete(Written, RequiredFacts[c]) =>
                  FailureClaim(c, w) \/ FailsWrongly(c, w)
<1> DEFINE w    == case.world
           b    == blind
           said == Evaluator(c, Written).says
           goal == /\ said = "satisfied" =>
                        \/ PassClaim(c, w) \/ PassesWrongly(c, w)
                        \/ c \in ApplicationChecks /\ AppsPassWrongly(w)
                   /\ said = "not-satisfied" => FailureClaim(c, w) \/ FailsWrongly(c, w)
<1> SUFFICES ASSUME Complete(Written, RequiredFacts[c]) PROVE goal
  BY Zenon
<1>1. /\ case.family \in Families /\ c \in ChecksOf(case.family) /\ case \in Cases
  BY JudgedOnWritten, Zenon DEF PathInv
<1>2. \/ c = "os-vendor-supported" /\ case.family \in {"windows", "linux"}
      \/ c = "unsupported-apps-removed" /\ case.family = "browsers"
  BY <1>1, FamilyChecks DEF OnDates, OnPaths, OfficeChecks, AppControlChecks, BrowserChecks,
     ApplicationChecks, WindowsBaseChecks, ReleaseChecks, EntraChecks
<1>3. CASE c = "os-vendor-supported" /\ case.family = "windows"
  <2> DEFINE fs == CollectWindowsBase(w, b)
  <2>1. Written = fs
    BY <1>3, Zenon DEF Written, Redacted, Collected, CollectFamily
  <2>2. c \in WindowsBaseChecks /\ RequiredFacts[c] = {ReleaseFact}
    <3>1. c \in WindowsBaseChecks /\ c # "ie11-disabled"
      BY <1>3 DEF WindowsBaseChecks
    <3> QED
      BY <3>1, WindowsBaseCheck, Zenon
  <2>3. /\ DOMAIN fs = {FeaturesFact, IePolicyFact, ReleaseFact}
        /\ fs[ReleaseFact].partial <=> "release" \in b.garbled
        /\ fs[ReleaseFact].value = WindowsIdentity(w, "release" \notin b.garbled)
    BY WindowsFacts, Zenon
  <2> HIDE DEF fs
  <2>4. "release" \notin b.garbled
    <3>1. Complete(fs, {ReleaseFact})
      BY <2>1, <2>2, Zenon
    <3> QED
      BY <2>3, <3>1, PartialIsIncomplete
  <2>5. ("release" \notin b.garbled) = TRUE
    BY <2>4
  <2>6. fs[ReleaseFact].value = WindowsIdentity(w, TRUE)
    BY <2>3, <2>5, Zenon
  <2>7. Evaluator(c, Written) = OsVendorSupported(WindowsIdentity(w, TRUE))
    <3>1. Evaluator(c, fs) = WindowsBaseJudge(c, fs)
      BY <2>2, WindowsBaseCheck, Zenon
    <3>2. ReleaseFact \in DOMAIN fs
      BY <2>3
    <3>3. WindowsBaseJudge(c, fs) = OsVendorSupported(fs[ReleaseFact].value)
      BY <1>3, <3>2, Zenon DEF WindowsBaseJudge
    <3> QED
      BY <2>1, <2>6, <3>1, <3>3, Zenon
  <2>8. /\ w.os = "server" => \/ Unequivocal("windows-server", ServerCycle(w))
                              \/ Expired("windows-server", ServerCycle(w))
        /\ w.os # "server" /\ w.edition = "ltsc" =>
             Listed("windows", Cycle(<<w.os, w.release, "e", "lts">>))
    BY <1>1, <1>3, SubjectsAssumption, Zenon
  <2>9. /\ said = "satisfied" => WindowsInSupport(w)
        /\ said = "not-satisfied" => ~WindowsInSupport(w) \/ w.edition = "ltsc"
    BY <2>7, <2>8, WindowsTruth, Zenon
  <2>10. PassClaim(c, w) = WindowsInSupport(w) /\ FailureClaim(c, w) = ~PassClaim(c, w)
    <3>1. case.family # "linux"
      BY <1>3
    <3>2. PassClaim("os-vendor-supported", w)
            = IF case.family = "linux" THEN LinuxInSupport(w) ELSE WindowsInSupport(w)
      BY DEF PassClaim
    <3>3. FailureClaim("os-vendor-supported", w) = ~PassClaim("os-vendor-supported", w)
      BY DEF FailureClaim
    <3> QED
      BY <1>3, <3>1, <3>2, <3>3, Zenon
  <2>11. w.edition = "ltsc" => FailsWrongly(c, w)
    BY <1>3, Zenon DEF FailsWrongly
  <2> QED
    BY <2>9, <2>10, <2>11, Zenon
<1>4. CASE c = "os-vendor-supported" /\ case.family = "linux"
  <2> DEFINE fs    == CollectLinuxBase(w, b)
             read  == "os-release" \notin b.hidden
             value == fs[ReleaseFact].value
  <2>1. Written = fs
    BY <1>4, Zenon DEF Written, Redacted, Collected, CollectFamily
  <2>2. c \in WindowsBaseChecks /\ RequiredFacts[c] = {ReleaseFact}
    <3>1. c \in WindowsBaseChecks /\ c # "ie11-disabled"
      BY <1>4 DEF WindowsBaseChecks
    <3> QED
      BY <3>1, WindowsBaseCheck, Zenon
  <2>3. /\ DOMAIN fs = {ReleaseFact}
        /\ fs[ReleaseFact].partial <=> ~read
    BY LinuxFacts, Zenon
  <2>4. read
    <3> HIDE DEF fs
    <3>1. Complete(fs, {ReleaseFact})
      BY <2>1, <2>2, Zenon
    <3> QED
      BY <2>3, <3>1, PartialIsIncomplete
  <2>5. value = [product |-> EolProduct(w.id), cycle |-> w.version,
                 os |-> "", release |-> "", edition |-> ""]
    BY <2>4, LinuxFacts, Zenon
  <2> HIDE DEF fs, read, value
  <2>6. value.product = EolProduct(w.id) /\ value.cycle = w.version
    BY <2>5, ReleaseRecord, Zenon
  <2>7. Evaluator(c, Written) = OsVendorSupported(value)
    <3>1. Evaluator(c, fs) = WindowsBaseJudge(c, fs)
      BY <2>2, WindowsBaseCheck, Zenon
    <3>2. ReleaseFact \in DOMAIN fs
      BY <2>3
    <3>3. WindowsBaseJudge(c, fs) = OsVendorSupported(fs[ReleaseFact].value)
      BY <1>4, <3>2, Zenon DEF WindowsBaseJudge
    <3> QED
      BY <2>1, <3>1, <3>3, Zenon DEF value
  <2>8. w.version \in [parts : Seq(STRING), minor : STRING]
    BY <1>1, <1>4, SubjectsAssumption, Zenon
  <2>9. /\ said = "satisfied" => LinuxInSupport(w) \/ w.id = "centos"
        /\ said = "not-satisfied" => ~LinuxInSupport(w)
    BY <2>6, <2>7, <2>8, LinuxTruth, Zenon
  <2>10. PassClaim(c, w) = LinuxInSupport(w) /\ FailureClaim(c, w) = ~PassClaim(c, w)
    <3>1. PassClaim("os-vendor-supported", w)
            = IF case.family = "linux" THEN LinuxInSupport(w) ELSE WindowsInSupport(w)
      BY DEF PassClaim
    <3>2. FailureClaim("os-vendor-supported", w) = ~PassClaim("os-vendor-supported", w)
      BY DEF FailureClaim
    <3> QED
      BY <1>4, <3>1, <3>2, Zenon
  <2>11. w.id = "centos" => PassesWrongly(c, w)
    BY <1>4, Zenon DEF PassesWrongly
  <2> QED
    BY <2>9, <2>10, <2>11, Zenon
<1>5. CASE c = "unsupported-apps-removed" /\ case.family = "browsers"
  <2> DEFINE fs == RedactBrowsers(case.policy, CollectFamily("browsers", w, b))
             past == \E a \in w.installed : PastSupport(a)
  <2>1. Written = fs
    BY <1>5, Zenon DEF Written, Redacted, Collected
  <2>2. c \in ApplicationChecks
    BY <1>5 DEF ApplicationChecks
  <2>3. Evaluator(c, Written) = UnsupportedAppsRemoved(fs)
    BY <2>1, <2>2, ApplicationCheck, Zenon
  <2>4. \A a \in w.installed :
          MajorOnly(a.version) /\ (a.kind \in DOMAIN Lifecycles => Unequivocal(a.kind, a.version))
    BY <1>1, <1>5, SubjectsAssumption, Zenon DEF MajorOnly
  <2>5. /\ said = "satisfied" => ~past \/ AppsPassWrongly(w)
        /\ said = "not-satisfied" => past
    BY <2>3, <2>4, ApplicationsTruth, Zenon
  <2>6. (PassClaim(c, w) <=> ~past) /\ FailureClaim(c, w) = ~PassClaim(c, w)
    <3>1. PassClaim("unsupported-apps-removed", w) = ~\E a \in w.installed : PastSupport(a)
      BY DEF PassClaim
    <3>2. FailureClaim("unsupported-apps-removed", w) = ~PassClaim("unsupported-apps-removed", w)
      BY DEF FailureClaim
    <3> QED
      BY <1>5, <3>1, <3>2, Zenon
  <2> QED
    BY <2>2, <2>5, <2>6, Zenon
<1> QED
  BY <1>2, <1>3, <1>4, <1>5, Zenon

LEMMA SupportTrueHolds == PathInv => SupportIsTrueOfTheSubject
<1> SUFFICES ASSUME PathInv, NEW c \in OnDates, Judged(c)
             PROVE  /\ Status(c) = "satisfied" =>
                         \/ PassClaim(c, case.world) \/ PassesWrongly(c, case.world)
                         \/ c \in ApplicationChecks /\ AppsPassWrongly(case.world)
                    /\ Status(c) = "not-satisfied" =>
                         FailureClaim(c, case.world) \/ FailsWrongly(c, case.world)
  BY Zenon DEF SupportIsTrueOfTheSubject
<1> DEFINE said     == Evaluator(c, Written).says
           complete == Complete(Written, RequiredFacts[c])
<1>1. /\ Status(c) = "satisfied" => said = "satisfied" /\ complete
      /\ Status(c) = "not-satisfied" => said = "not-satisfied" /\ complete
  <2>1. Status(c) = Eval!JudgeCheck(c, Written, {}).status
    BY JudgedOnWritten, Zenon
  <2>2. c \in AllChecks
    <3>1. case.family \in Families /\ c \in ChecksOf(case.family)
      BY JudgedOnWritten, Zenon
    <3> QED
      BY <3>1, FamilyChecks
  <2> QED
    BY <2>1, <2>2, StatusIsSaid, Zenon
<1>2. /\ said = "satisfied" /\ complete =>
           \/ PassClaim(c, case.world) \/ PassesWrongly(c, case.world)
           \/ c \in ApplicationChecks /\ AppsPassWrongly(case.world)
      /\ said = "not-satisfied" /\ complete =>
           FailureClaim(c, case.world) \/ FailsWrongly(c, case.world)
  BY SupportTruth, Zenon
<1> HIDE DEF said, complete
<1> QED
  BY <1>1, <1>2, Zenon

\* What is said of vendor support is so, whatever the dataset, the day, the
\* subject and what was not read of it: of a host by its own cycle, which may not
\* be the one it is looked up as, and of every application there is.  The
\* assumptions on what vendors publish say when another entry tells as much.
\* os_support.py:41-153; windows/app_support.py; eol.py:114-143
THEOREM SupportIsTrueOfTheSubjectAlways == Spec => []SupportIsTrueOfTheSubject
BY PathTaken, SupportTrueHolds, PTL

=============================================================================
