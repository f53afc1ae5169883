------------------------ MODULE HostCheckProperties -------------------------
(***************************************************************************)
(* What a verdict on one subject is worth: its relation to the subject as  *)
(* it is, to what was not read of it, and to what redaction made of it.    *)
(***************************************************************************)
EXTENDS HostCheck

CONSTANT Lifecycles    \* vendors' lifecycles, of which data/eol holds a part

-----------------------------------------------------------------------------
(* What vendors publish.  The properties on support compare with it; no      *)
(* definition of the code depends on it.                                     *)

Listed(product, cycle) == \E e \in Lifecycles[product] : e.cycle = cycle

\* The files of PRODUCT_FILES are copied whole, and a cycle is in them once.
\* fetch_eol_data.py:94-106; eol.py:26-42
ASSUME LifecyclesAssumption ==
  /\ {"windows", "windows-server", "rhel", "ubuntu", "office", "chrome", "firefox"} \subseteq DOMAIN Dataset
  /\ \A p \in DOMAIN Dataset : p \in DOMAIN Lifecycles /\ Dataset[p] = Lifecycles[p]
  /\ \A p \in DOMAIN Lifecycles : \A e, f \in Lifecycles[p] :
       e.cycle.parts \in Seq(STRING) /\ (e.cycle = f.cycle => e = f)

\* A cycle that is not listed does not happen to have one edition that is.
Unequivocal(product, cycle) ==
  Listed(product, cycle) \/ Cardinality(Editions(Lifecycles[product], cycle)) # 1

\* Or the editions it has are past their support, as those of Server 2008 R2 are.
Expired(product, cycle) ==
  \A e \in Editions(Lifecycles[product], cycle) : ~Supported(StatusOf(e))

\* A release of Windows has one date for everyone, as some of Windows 10 have, or a
\* date per edition; the long-term channel comes on top of either, and lasts longer.
ASSUME WindowsAssumption ==
  \A e \in Lifecycles["windows"] : Len(e.cycle.parts) > 2 =>
    LET os      == e.cycle.parts[1]
        release == e.cycle.parts[2]
        plain   == Cycle(<<os, release>>)
        usual   == Cycle(<<os, release, "e">>)
        others  == Cycle(<<os, release, "w">>)
    IN  /\ Unequivocal("windows", plain)
        /\ os = "11" => Unequivocal("windows", usual) /\ Unequivocal("windows", others)
        /\ Listed("windows", plain) => ~Listed("windows", usual) /\ ~Listed("windows", others)
        /\ e.cycle = Cycle(<<os, release, "e", "lts">>) =>
             \A s \in Lifecycles["windows"] :
               s.cycle \in {plain, usual} /\ Supported(StatusOf(s)) => Supported(StatusOf(e))

\* A distribution is supported by major version or by point release.  What is
\* rebuilt from RHEL is promised no more than RHEL is.
ASSUME LinuxAssumption ==
  /\ \A p \in {"rhel", "ubuntu"} : \A e \in Lifecycles[p] :
       /\ Len(e.cycle.parts) = 1
       /\ e.cycle.minor # "" => ~Listed(p, [e.cycle EXCEPT !.minor = ""])
  /\ "centos" \in DOMAIN Lifecycles =>
       \A e \in Lifecycles["centos"] : Supported(StatusOf(e)) =>
         \E f \in Lifecycles["rhel"] : f.cycle = e.cycle /\ Supported(StatusOf(f))

ServerCycle(w) == Cycle(IF w.edition = "r2" THEN <<w.release, "r2">> ELSE <<w.release>>)

\* The subjects are of the cycles that vendors have: there is a long-term channel
\* of a host's release if the host is on it; applications go by major versions, or
\* by years.
ASSUME SubjectsAssumption ==
  \A c \in Cases :
    /\ c.family = "windows" /\ c.world.os = "server" =>
         \/ Unequivocal("windows-server", ServerCycle(c.world))
         \/ Expired("windows-server", ServerCycle(c.world))
    /\ c.family = "windows" /\ c.world.os # "server" /\ c.world.edition = "ltsc" =>
         Listed("windows", Cycle(<<c.world.os, c.world.release, "e", "lts">>))
    /\ c.family = "linux" => c.world.version \in [parts : Seq(STRING), minor : STRING]
    /\ c.family = "browsers" =>
         \A a \in c.world.installed :
           /\ a.version \in [parts : Seq(STRING), minor : {""}]
           /\ a.kind \in DOMAIN Lifecycles => Unequivocal(a.kind, a.version)

TypeOK ==
  /\ case \in Cases
  /\ stage \in Stages
  /\ blind \in Unreadable[case.family] \cup {EverythingRead}
  /\ (facts = Nothing) = (stage \in {"start", "guarded", "refused"})
  /\ (bundle # Nothing) = (stage \in {"written", "judged"})
  /\ stage = "judged" => verdicts \in [ChecksOf(case.family) -> Result]

Judged(c) == stage = "judged" /\ c \in ChecksOf(case.family)

Status(c) == verdicts[c].status

-----------------------------------------------------------------------------
(* The subject as it is.                                                   *)

\* Scopes that have a policy key for the application.
Keyed(w, app) == {s \in Scopes : w.setting[<<s, app>>] # "absent"}

SomeWrong(w)  == \E s \in Scopes, a \in InScopeApps : w.setting[<<s, a>>] = "wrong"
Valued(w, app) == \E s \in Scopes : w.setting[<<s, app>>] \in {"wrong", "right"}

InForce(w, app) ==
  \/ w.setting[<<Machine, app>>] = "right"
  \/ /\ Keyed(w, app) \cap People # {}
     /\ \A p \in Keyed(w, app) \cap People : w.setting[<<p, app>>] = "right"

\* What a standard user can run from where one can write.
StandardUser(p) == {Raw(p), Raw("everyone")}

EnforcedCollections(w) ==
  {t \in DOMAIN w.collections :
     w.collections[t].mode = "Enabled" /\ w.collections[t].ruleCount > 0}

RunsFromWritable(w) ==
  \E t \in EnforcedCollections(w), d \in DOMAIN w.directories, p \in People, f \in Executables :
    /\ w.directories[d].writable
    /\ MayRun(w.collections[t].pathRules, StandardUser(p), Append(w.directories[d].path, f))

\* Browsers, and the keys that are policy to them.
BrowsersOf(w) == {a \in w.installed : a.kind \in BrowserKinds}

PolicyIn(w, scope, kind, contents) == w.policy[<<scope, kind, "mandatory">>] \in contents

Governed(w, kind, contents) == \E s \in Hives : PolicyIn(w, s, kind, contents)

GovernedForAll(w, kind, contents) ==
  \/ PolicyIn(w, "machine", kind, contents)
  \/ \A p \in People : PolicyIn(w, p, kind, contents)

AnyPolicy == KeyContents \ {"absent"}

\* Is the vendor still supporting this cycle of this product?
InSupport(product, cycle) ==
  \E e \in Lifecycles[product] : e.cycle = cycle /\ Supported(StatusOf(e))

\* A host's own cycle, from what it really is.
OwnCycle(w) ==
  LET plain   == Cycle(<<w.os, w.release>>)
      edition == CASE w.edition = "pro"  -> <<"w">>
                   [] w.edition = "ltsc" -> <<"e", "lts">>
                   [] OTHER              -> <<"e">>
      special == Cycle(<<w.os, w.release>> \o edition)
  IN  IF w.os = "server" THEN ServerCycle(w)
      ELSE IF Listed("windows", special) THEN special ELSE plain

WindowsInSupport(w) ==
  InSupport(IF w.os = "server" THEN "windows-server" ELSE "windows", OwnCycle(w))

LinuxInSupport(w) ==
  LET major == [w.version EXCEPT !.minor = ""]
  IN  w.id \in DOMAIN Lifecycles /\ (InSupport(w.id, w.version) \/ InSupport(w.id, major))

\* An application that is past its support, as far as its lifecycle is known.
PastSupport(app) ==
  \/ app.kind = "flash"
  \/ /\ app.kind \in DOMAIN Lifecycles
     /\ \E e \in Lifecycles[app.kind] :
          e.cycle = app.version /\ ~StatusOf(e).unknown /\ ~Supported(StatusOf(e))

\* A policy that makes everyone use a second factor, everywhere and with no other
\* way to satisfy it.
DemandsMfa(w, p) ==
  /\ p.state = "enabled" /\ p.allUsers /\ p.allApps /\ p.excluded <= MaxExcluded
  /\ ~p.appsExcluded /\ ~p.orElse
  /\ p.mfa \/ p.strength \in {s.id : s \in w.strengths}

-----------------------------------------------------------------------------
(* What a pass claims, and what a failure does.                            *)

PassClaim(c, w) ==
  CASE c = "macro-internet-blocked" -> \A a \in InScopeApps : InForce(w, a)
    [] c = "macro-settings-locked"  -> \A a \in InScopeApps : Keyed(w, a) # {}
    [] c = "macros-disabled"        -> ~SomeWrong(w) /\ \A a \in InScopeApps : Valued(w, a)
    [] c = "macro-av-scanning"      -> ~SomeWrong(w) /\ \E a \in InScopeApps : Valued(w, a)
    [] c = "application-control-implemented" ->
         w.wdac = "enforcing" \/ EnforcedCollections(w) # {}
    [] c = "application-control-file-types" -> w.wdac = "enforcing"
    [] c = "application-control-user-writable-paths" ->
         EnforcedCollections(w) # {} /\ ~RunsFromWritable(w)
    [] c = "browser-ads-blocked" ->
         \A a \in BrowsersOf(w) : Governed(w, a.kind, {"blocker"})
    [] c = "browser-settings-locked" ->
         \A a \in BrowsersOf(w) : Governed(w, a.kind, AnyPolicy)
    [] c = "browser-java-blocked" ->
         /\ ~\E a \in BrowsersOf(w) : BelowNpapiFloor(a)
         /\ ~(w.javasoft /\ w.ieMode # {})
    [] c = "unsupported-apps-removed" -> ~\E a \in w.installed : PastSupport(a)
    [] c = "os-vendor-supported" ->
         IF case.family = "linux" THEN LinuxInSupport(w) ELSE WindowsInSupport(w)
    [] c = "ie11-disabled"    -> w.ie # "enabled" \/ w.iePolicy
    [] c = "mfa-factor-types" -> ~\E m \in w.methods : m.id = "email" /\ m.enabled
    [] c = "mfa-required"     -> \E p \in w.policies : DemandsMfa(w, p)

FailureClaim(c, w) ==
  CASE c = "macro-internet-blocked" -> \E a \in InScopeApps : ~InForce(w, a)
    [] c \in {"macros-disabled", "macro-av-scanning"} -> SomeWrong(w)
    [] c = "browser-ads-blocked" ->
         \E a \in BrowsersOf(w) : ~GovernedForAll(w, a.kind, {"blocker"})
    [] c = "browser-settings-locked" ->
         \E a \in BrowsersOf(w) : ~GovernedForAll(w, a.kind, AnyPolicy)
    [] c = "browser-java-blocked" -> w.javasoft /\ w.ieMode # {}
    [] OTHER -> ~PassClaim(c, w)

-----------------------------------------------------------------------------
(* Where the code is known to fall short.  The README tells of each of them; *)
(* the properties below hold of everything else.                           *)

Administrators == {Raw("administrators"), Raw("domain-admins")}

AllRules(w) == UNION {w.collections[t].pathRules : t \in DOMAIN w.collections}

\* A deny that does not deny everybody everything it names.
Narrow(rule) == rule.action = "deny" /\ (rule.sid # Raw("everyone") \/ rule.exceptions # {})

PassesWrongly(c, w) ==
  \/ blind.skipped # {}
  \/ case.policy.sid = "drop" /\ blind.hidden \cap People # {}
  \/ c = "macro-av-scanning" /\ blind.hidden # {}
  \/ c \in BrowserChecks /\ blind.inventory # {}
  \/ c = "browser-ads-blocked"
     /\ \E s \in Hives, k \in BrowserKinds : w.policy[<<s, k, "recommended">>] = "blocker"
  \/ c = "browser-java-blocked" /\ w.ieMode \cap People # {}
  \/ c = "os-vendor-supported" /\ case.family = "linux" /\ w.id = "centos"
  \/ c = "mfa-required" /\ \E p \in w.policies : p.orElse \/ p.appsExcluded

FailsWrongly(c, w) ==
  \/ blind.skipped # {}
  \/ c \in AppControlChecks /\ blind.hidden \cap {"applocker", "deviceguard"} # {}
  \/ c \in BrowserChecks /\ blind.hidden \cap People # {}
  \/ c = "os-vendor-supported" /\ case.family = "windows" /\ w.edition = "ltsc"
  \/ c = "ie11-disabled" /\ "ie" \in blind.garbled
  \/ c = "mfa-required" /\ "strengths" \in blind.garbled \cup blind.hidden

\* The files there may be in a directory.
FilesIn(directory) == {Append(directory, f) : f \in Executables}

\* The path conditions that speak of one of these files.
Naming(patterns, files) == {p \in patterns : \E f \in files : Governs(p, f)}

WritableDirectories(w) ==
  {w.directories[d].path : d \in {e \in DOMAIN w.directories : w.directories[e].writable}}

\* A pattern with a wildcard that does not end in one is not seen to cover what
\* it matches; a deny is held against every allow.
PathsPassWrongly(w) ==
  \E r \in AllRules(w) :
    \/ Narrow(r)
    \/ \E p \in r.paths : HasWildcard(p) /\ Last(p) # Star

\* An allow of part of a directory counts although nothing in the directory is
\* in that part, or its exceptions name each file that is.
AllowsNothingIn(rule, directory) ==
  LET within   == {f \in FilesIn(directory) : \E p \in rule.paths : Governs(p, f)}
      excepted == {f \in within : \E p \in rule.exceptions : Governs(p, f)}
  IN  /\ \E p \in rule.paths : PatternCovers(p, directory)
      /\ within = excepted

\* A redacted administrator is nobody; a deny of less than a directory is not
\* held against an allow.
PathsFailWrongly(w) ==
  \/ /\ case.policy.sid \in {"hash", "drop"}
     /\ \E r \in AllRules(w) : r.action = "allow" /\ r.sid \in Administrators
  \/ \E r \in AllRules(w), d \in WritableDirectories(w) :
       \/ r.action = "allow" /\ AllowsNothingIn(r, d)
       \/ /\ r.action = "deny"
          /\ \E p \in Naming(r.paths, FilesIn(d)) : ~PatternContains(p, d)

\* An application of a family that no product file covers is passed over.
AppsPassWrongly(w) ==
  \E a \in w.installed : PastSupport(a) /\ a.kind # "flash" /\ MapProduct(a.kind) = ""

-----------------------------------------------------------------------------
(* Truth.                                                                  *)

OnPaths == {"application-control-user-writable-paths"}

\* Judged by data/eol as well as by the facts.
OnDates == ReleaseChecks \cup ApplicationChecks

\* A check that says satisfied is right about the subject: about the hives,
\* directories and pages that were not read as well.
\* evaluate.py:139-163 over the evaluators of checks/
PassIsTrueOfTheSubject ==
  \A c \in AllChecks \ (OnPaths \cup OnDates) :
    Judged(c) /\ Status(c) = "satisfied" =>
      PassClaim(c, case.world) \/ PassesWrongly(c, case.world)

\* A check that says not-satisfied has found something: what could not be read
\* is never counted as a failure.
\* tests/test_assurance_invariants.py; docs/platforms/entra-id.md:119-124
FailureIsTrueOfTheSubject ==
  \A c \in AllChecks \ (OnPaths \cup OnDates) :
    Judged(c) /\ Status(c) = "not-satisfied" =>
      FailureClaim(c, case.world) \/ FailsWrongly(c, case.world)

\* What is said of vendor support is so: of the host as it is, and not only of
\* what its identity was taken for; of every application there is.
\* os_support.py:41-153; windows/app_support.py; eol.py:114-143
SupportIsTrueOfTheSubject ==
  \A c \in OnDates :
    Judged(c) =>
      /\ Status(c) = "satisfied" =>
           \/ PassClaim(c, case.world) \/ PassesWrongly(c, case.world)
           \/ c \in ApplicationChecks /\ AppsPassWrongly(case.world)
      /\ Status(c) = "not-satisfied" => FailureClaim(c, case.world) \/ FailsWrongly(c, case.world)

\* The verdict on writable paths is what AppLocker would do: it is satisfied only
\* if no standard user can run a file from where one can write, and fails only
\* if one can, or if nothing is enforced.
\* appcontrol_paths.py:227-286, 313-489
WritablePathsAreJudgedAsEnforced ==
  \A c \in OnPaths :
    Judged(c) =>
      /\ Status(c) = "satisfied" =>
           \/ PassClaim(c, case.world)
           \/ blind.skipped # {} \/ PathsPassWrongly(case.world)
      /\ Status(c) = "not-satisfied" =>
           \/ FailureClaim(c, case.world)
           \/ FailsWrongly(c, case.world) \/ PathsFailWrongly(case.world)

\* A host leaves the population of the Office checks only when no Office could be
\* found on it; an inventory that could not be read is no reason.
\* office.py:46-63; collect_windows_office/tasks/main.yml
NotApplicableOnlyWhenAbsent ==
  \A c \in AllChecks :
    Judged(c) /\ Status(c) = "not-applicable" =>
      case.family = "office" /\ case.world.product # "click-to-run"

-----------------------------------------------------------------------------
(* Evidence.                                                               *)

\* The scripts and calls whose output a check cannot do without.
SourcesOf(c) ==
  CASE c \in OfficeChecks ->
         IF case.world.product = "click-to-run" THEN {"install", "policy"} ELSE {"install"}
    [] c \in OnPaths -> {"state", "paths"}
    [] c \in AppControlChecks \ OnPaths -> {"state"}
    [] c \in BrowserChecks -> {"browsers", "applications"}
    [] c \in ApplicationChecks -> {"applications"}
    [] c \in ReleaseChecks -> {"release"}
    [] c = "ie11-disabled" -> {"features"}
    [] c = "mfa-factor-types" -> {"methods"}
    [] c = "mfa-required" -> {"policies"}

\* When the output of a script could not be used, or a list came back empty that
\* never is, no verdict is reached: "could not ask" is not "asked, and there is
\* none".  docs/adr/0017; ps_object.py:49-121; os_state.py:36-65
UnreadIsNeverJudged ==
  \A c \in AllChecks :
    Judged(c) /\ (blind.garbled \cup (blind.skipped \cap {"features"})) \cap SourcesOf(c) # {} =>
      Status(c) \notin {"satisfied", "not-satisfied", "not-applicable"}

\* What is reached on part of the evidence is not overturned by the rest: had
\* everything been read, a pass would not have been a failure, nor a failure a
\* pass, nor either of them a subject outside the population.
\* office.py:126-149; appcontrol_paths.py:313-489
MoreEvidenceOverturnsNothing ==
  LET whole == VerdictsOn(case.family,
                 Redacted(case.family, case.policy,
                   CollectFamily(case.family, case.world, EverythingRead)))
  IN  stage = "judged" =>
        \A c \in ChecksOf(case.family) :
          /\ Status(c) = "satisfied" /\ whole[c].status \in {"not-satisfied", "not-applicable"} =>
               PassesWrongly(c, case.world)
          /\ Status(c) = "not-satisfied" /\ whole[c].status \in {"satisfied", "not-applicable"} =>
               FailsWrongly(c, case.world)

\* No edition is guessed: where a Windows release has several support dates and
\* the collected identity does not say which applies, there is no verdict unless
\* the dates agree.  os_support.py:41-51; eol.py:114-143
SupportIsNeverGuessed ==
  Judged("os-vendor-supported") /\ case.family = "windows" =>
    LET value    == bundle[ReleaseFact].value
        possible == {e \in Dataset[value.product] :
                       e \in Selected(Dataset[value.product], WindowsCycle(value))}
    IN  Status("os-vendor-supported") \in {"satisfied", "not-satisfied"} =>
          \A e \in possible :
            Supported(StatusOf(e)) = (Status("os-vendor-supported") = "satisfied")

-----------------------------------------------------------------------------
(* Redaction.                                                              *)

\* Under a policy that redacts SIDs at all, no person's SID reaches the artefact
\* store as collected, wherever in the facts it was.
\* redact.py:176-195; docs/adr/0018; fact_bundle/tasks/finalise.yml:38-50
NoIdentifierIsWritten ==
  bundle # Nothing /\ case.policy.sid # "retain" =>
    \A id \in IdentifiersIn(case.family, bundle) : ~(id.form = "raw" /\ id.who \in People)

\* Redacting never turns a verdict green: what is satisfied on the bundle is
\* satisfied on the facts as collected.  Dropping is another matter, for it takes
\* the list of unread profiles away.  appcontrol_paths.py:105-111
RedactionAddsNoPass ==
  stage = "judged" /\ case.policy.sid # "drop" =>
    LET collected == VerdictsOn(case.family, facts)
    IN  \A c \in ChecksOf(case.family) :
          Status(c) = "satisfied" => collected[c].status = "satisfied"

\* "No verdict moves": the verdicts on the bundle are those on the facts as they
\* were collected.  docs/adr/0018, Consequences.
RedactionMovesNoVerdict ==
  stage = "judged" =>
    \A c \in ChecksOf(case.family) : Status(c) = VerdictsOn(case.family, facts)[c].status

=============================================================================
