---------------------------- MODULE VendorSupport ---------------------------
(***************************************************************************)
(* Vendor support of operating systems and applications, and the state of  *)
(* Internet Explorer: eol.py, checks/common/os_support.py,                 *)
(* checks/windows/app_support.py and os_state.py, and the roles            *)
(* collect_windows_base, collect_linux_base and                            *)
(* collect_windows_applications.                                           *)
(*                                                                         *)
(* A cycle of the end-of-life dataset is the sequence of its parts, as in  *)
(* <<"11", "24h2", "e">>, with the minor version some distributions have.  *)
(* Days are numbers; support is judged on the day the bundle was collected. *)
(***************************************************************************)
EXTENDS Evaluators, Redaction

CONSTANTS
  Dataset,    \* data/eol: per product, the cycles with their dates
  AsOf        \* the day the bundle was collected

\* A product's file is a list of cycles.
ASSUME DatasetAssumption == \A p \in DOMAIN Dataset : IsFiniteSet(Dataset[p])

ReleaseChecks     == {"os-vendor-supported"}
WindowsBaseChecks == {"os-vendor-supported", "ie11-disabled"}
ApplicationChecks == {"unsupported-apps-removed"}

ReleaseFact  == "os.release"
FeaturesFact == "windows.os.optional_features"
IePolicyFact == "windows.browser.ie_policy"
AppsFact     == "windows.applications.installed"

-----------------------------------------------------------------------------
(* eol.py.                                                                 *)

Cycle(parts)             == [parts |-> parts, minor |-> ""]
PointRelease(parts, dot) == [parts |-> parts, minor |-> dot]
NoCycle                  == Cycle(<<>>)

\* An `eol` is a date, `false` (no end announced) or something unreadable; an
\* extended end of 0 is none.
Entry(cycle, eol, day, extended) ==
  [cycle |-> cycle, eol |-> eol, day |-> day, extended |-> extended]

\* The entries a cycle selects: its own, that of its major version, or those of
\* its editions.
Editions(cycles, wanted) ==
  {e \in cycles :
     /\ wanted.parts # <<>> /\ wanted.minor = ""
     /\ Len(e.cycle.parts) > Len(wanted.parts)
     /\ SubSeq(e.cycle.parts, 1, Len(wanted.parts)) = wanted.parts}

Selected(cycles, wanted) ==
  LET of(c) == {e \in cycles : e.cycle = c}
      major == [wanted EXCEPT !.minor = ""]
  IN  IF of(wanted) # {} THEN of(wanted)
      ELSE IF of(major) # {} THEN of(major)
      ELSE Editions(cycles, wanted)

SupportStatus(unknown, supported, extended) ==
  [unknown |-> unknown, supported |-> supported, extended |-> extended]

UnknownStatus == SupportStatus(TRUE, FALSE, FALSE)

\* An entry, read on the day.
StatusOf(e) ==
  CASE e.eol = "open" -> SupportStatus(FALSE, TRUE, FALSE)
    [] e.eol = "date" -> SupportStatus(FALSE, AsOf <= e.day, AsOf > e.day /\ AsOf <= e.extended)
    [] OTHER          -> UnknownStatus

\* A lookup that settles for one of several editions.
LookupGuessing(product, wanted) ==
  IF product \notin DOMAIN Dataset THEN UnknownStatus
  ELSE LET found == Selected(Dataset[product], wanted)
       IN  IF found # {} THEN StatusOf(CHOOSE e \in found : TRUE) ELSE UnknownStatus

\* lookup: no entry, or several to choose from, is unknown.
Lookup(product, wanted) ==
  IF product \notin DOMAIN Dataset THEN UnknownStatus
  ELSE LET found == Selected(Dataset[product], wanted)
       IN  IF Cardinality(found) = 1 THEN StatusOf(CHOOSE e \in found : TRUE) ELSE UnknownStatus

\* The parameter extended_support_counts(_as_supported) is at its default.
Supported(status) == status.supported \/ status.extended

-----------------------------------------------------------------------------
(* collect_windows_base, collect_linux_base.                               *)

\* A host's identity: `server` or a client of some major version, its release
\* (of a server: the year), and its edition.  A Linux host is its distribution
\* and version.
WindowsIdentity(w, readable) ==
  IF readable
  THEN [product |-> IF w.os = "server" THEN "windows-server" ELSE "windows", cycle |-> NoCycle,
        os |-> w.os, release |-> w.release, edition |-> w.edition]
  ELSE [product |-> "windows", cycle |-> NoCycle, os |-> "", release |-> "", edition |-> ""]

\* Internet Explorer's feature: not there, there, or switched on.  A host that
\* cannot be asked for its features says so; a script may also come back with
\* an empty list.
CollectWindowsBase(w, blind) ==
  LET output(script) == IF script \in blind.garbled THEN "garbage" ELSE "mapping"
      ok(script)     == Ok(output(script), "mapping")
      asked          == "features" \notin blind.garbled \cup blind.hidden
      listed         == asked /\ "features" \notin blind.skipped
      policyRead     == "ie" \notin blind.garbled
  IN  Merged(
        Record(FeaturesFact, ~ok("features") \/ "features" \in blind.hidden,
          [empty |-> ~listed, ie |-> IF listed THEN w.ie ELSE "absent"]),
        Merged(
          Record(IePolicyFact, ~ok("ie"), policyRead /\ w.iePolicy),
          Record(ReleaseFact, ~ok("release"), WindowsIdentity(w, "release" \notin blind.garbled))))

\* collect_linux_base_eol_products: a rebuild of another distribution is looked
\* up as that distribution.
EolProduct(id) ==
  CASE id \in {"rhel", "ubuntu"} -> id
    [] id = "centos"             -> "rhel"
    [] OTHER                     -> ""

CollectLinuxBase(w, blind) ==
  LET read == "os-release" \notin blind.hidden
  IN  Record(ReleaseFact, ~read,
        [product |-> IF read THEN EolProduct(w.id) ELSE "",
         cycle   |-> IF read THEN w.version ELSE NoCycle,
         os |-> "", release |-> "", edition |-> ""])

-----------------------------------------------------------------------------
(* os_support.py, os_state.py.                                             *)

\* An edition that is not known taken for the one most hosts have.
EditionSuffixByDefault(edition) == <<"e">>

\* What an EditionID says to _windows_cycle: the long-term channel's contains
\* "enterprise" too, and some say nothing.
EditionSuffix(edition) ==
  CASE edition \in {"enterprise", "ltsc"} -> <<"e">>
    [] edition = "pro"                    -> <<"w">>
    [] OTHER                              -> <<>>

\* _windows_cycle.
WindowsCycle(value) ==
  CASE value.os = "server" /\ value.release # ""
         -> IF value.edition = "r2" THEN Cycle(<<value.release, "r2">>) ELSE Cycle(<<value.release>>)
    [] value.os = "10" /\ value.release # "" -> Cycle(<<"10", value.release>>)
    [] value.os = "11" /\ value.release # ""
         -> Cycle(<<"11", value.release>> \o EditionSuffix(value.edition))
    [] OTHER -> NoCycle

\* vendor_supported.  A fact known to be partial never gets here: the registry
\* requires it whole.
OsVendorSupported(value) ==
  LET cycle  == IF value.product \in {"windows", "windows-server"} /\ value.cycle = NoCycle
                THEN WindowsCycle(value) ELSE value.cycle
      status == Lookup(value.product, cycle)
  IN  IF value.product = "" \/ cycle = NoCycle \/ status.unknown
      THEN CannotTell("unsupported-platform")
      ELSE IF Supported(status) THEN Satisfied("proxy", {ReleaseFact})
      ELSE NotSatisfied("proxy", {ReleaseFact})

\* ie11_disabled_or_removed.  Every Windows lists some features, so an empty list
\* was not read; a policy that was not read is no policy.
Ie11Disabled(facts) ==
  LET features == facts[FeaturesFact].value
      disabled == IePolicyFact \in DOMAIN facts /\ facts[IePolicyFact].value
      cites    == {FeaturesFact, IePolicyFact} \cap DOMAIN facts
  IN  IF ~Usable(facts, FeaturesFact) \/ features.empty THEN CannotTell("collection-error")
      ELSE IF features.ie # "enabled" \/ disabled THEN Satisfied("direct", cites)
      ELSE NotSatisfied("direct", cites)

WindowsBaseJudge(c, facts) ==
  CASE c = "os-vendor-supported" ->
         IF ReleaseFact \in DOMAIN facts THEN OsVendorSupported(facts[ReleaseFact].value)
         ELSE CannotTell("collection-error")
    [] c = "ie11-disabled" -> Ie11Disabled(facts)

-----------------------------------------------------------------------------
(* collect_windows_applications.                                           *)

\* An installed application: what it is by its display name ("edge", "chrome",
\* "firefox", "office", "flash", or another), its version, and the scope of its
\* uninstall key: the machine or a person's hive.
InHive(app) == app.scope \in People

\* Get-InstalledApplications.ps1: what machine scope and the loaded hives hold,
\* and the hives that are not loaded.  `inventory` holds what this script
\* misses, for a user may sign in between two scripts.
CollectApplications(w, blind) ==
  LET read == "applications" \notin blind.garbled
      seen == {a \in w.installed : a.scope \notin blind.inventory}
  IN  Record(AppsFact,
        ~Ok(IF read THEN "wrapped" ELSE "garbage", "mapping") \/ (read /\ blind.inventory # {}),
        IF read THEN {[kind |-> a.kind, version |-> a.version] : a \in seen} ELSE {})

-----------------------------------------------------------------------------
(* app_support.py.                                                         *)

\* _map_product: Edge, and whatever else has no product file, is not mapped.
MapProduct(kind) == IF kind \in {"office", "chrome", "firefox"} THEN kind ELSE ""

\* unsupported_applications_removed, one application: Flash is known to be dead.
AppStatus(app) ==
  IF app.kind = "flash" THEN SupportStatus(FALSE, FALSE, FALSE)
  ELSE IF MapProduct(app.kind) = "" THEN UnknownStatus
  ELSE Lookup(MapProduct(app.kind), app.version)

UnsupportedAppsRemoved(facts) ==
  LET judged(P(_)) == {a \in facts[AppsFact].value : ~AppStatus(a).unknown /\ P(AppStatus(a))}
      unsupported  == judged(LAMBDA s : ~Supported(s))
      supported    == judged(Supported)
  IN  IF AppsFact \notin DOMAIN facts THEN CannotTell("collection-error")
      ELSE IF facts[AppsFact].partial THEN CannotTell("partial-population")
      ELSE IF unsupported # {} THEN NotSatisfied("partial", {AppsFact})
      ELSE IF supported = {} THEN CannotTell("partial-population")
      ELSE Satisfied("partial", {AppsFact})

=============================================================================
