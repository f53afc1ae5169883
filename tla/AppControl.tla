----------------------------- MODULE AppControl -----------------------------
(***************************************************************************)
(* Application control: checks/windows/appcontrol.py, appcontrol_paths.py  *)
(* and the role collect_windows_appcontrol.                                *)
(*                                                                         *)
(* A host has AppLocker rule collections, a state of WDAC, and directories *)
(* some of which a standard user can write to.  Directories are either     *)
(* probed one by one or met on a walk below the Windows directory.         *)
(***************************************************************************)
EXTENDS Evaluators, Redaction, PathRules

AppControlChecks == {"application-control-implemented",
                     "application-control-file-types",
                     "application-control-user-writable-paths"}

StateFact == "windows.appcontrol.state"
PathsFact == "windows.appcontrol.writable_paths"

CollectionTypes == {"Exe", "Dll", "Script", "Msi", "Appx"}
Modes           == {"NotConfigured", "AuditOnly", "Enabled"}

\* A path rule of a collection, and a directory of the host as it is met.
PathRule ==
  [action : {"allow", "deny"}, sid : {Raw(p) : p \in Principals},
   paths : SUBSET Seq(Segments), exceptions : SUBSET Seq(Segments), others : BOOLEAN]

Directory == [path : Seq(Segments) \ {<<>>}, met : {"walk", "probe"}, writable : BOOLEAN]

-----------------------------------------------------------------------------
(* Collection.                                                             *)

\* Get-AppLockerPolicy and Win32_DeviceGuard can each fail to answer, which is
\* not an error of the script; then their half of the state is empty.
StateValue(w, blind) ==
  [read        |-> TRUE,
   applocker   |-> "applocker" \notin blind.hidden,
   collections |-> IF "applocker" \in blind.hidden THEN [t \in {} |-> <<>>] ELSE w.collections,
   deviceguard |-> "deviceguard" \notin blind.hidden,
   wdac        |-> IF "deviceguard" \in blind.hidden THEN "off" ELSE w.wdac]

\* A value that carries neither observation.
NothingRead == [read |-> FALSE, applocker |-> FALSE, collections |-> [t \in {} |-> <<>>],
                deviceguard |-> FALSE, wdac |-> "off"]

\* Get-PathWritability: an unreadable ACL is `denied`, not `not writable`.
Probe(w, d, blind) ==
  [path |-> w.directories[d].path,
   access |-> IF d \in blind.hidden THEN "denied" ELSE "ok",
   writable |-> d \notin blind.hidden /\ w.directories[d].writable]

\* Get-UserWritableExecutionPaths.ps1.  The walk may run out of budget before
\* it meets a directory, and then it says so; of what it met it keeps what it
\* found writable.  It passes over what lies too deep, what it may not list and
\* what it may not read the ACL of; profiles beyond MaxProfiles are not probed.
PathsValue(w, blind) ==
  LET of(how) == {d \in DOMAIN w.directories \ blind.skipped : w.directories[d].met = how}
  IN  [probes    |-> {Probe(w, d, blind) : d \in of("probe")},
       walked    |-> {q \in {Probe(w, d, blind) : d \in of("walk")} : q.writable},
       truncated |-> blind.hidden \cap of("walk") # {}]

NoPaths == [probes |-> {}, walked |-> {}, truncated |-> FALSE]

\* The role.
CollectAppControl(w, blind) ==
  LET output(script) == IF script \in blind.garbled THEN "garbage" ELSE "wrapped"
      stateOk == Ok(output("state"), "mapping")
      pathsOk == Ok(output("paths"), "mapping")
      state   == IF "state" \in blind.garbled THEN NothingRead ELSE StateValue(w, blind)
      paths   == IF "paths" \in blind.garbled THEN NoPaths ELSE PathsValue(w, blind)
  IN  Merged(
        Record(StateFact, ~stateOk \/ ~(state.applocker \/ state.deviceguard), state),
        Record(PathsFact, ~pathsOk \/ paths.probes = {}, paths))

\* What redaction does to these facts: the principal of a rule is an identifier.
RedactRule(policy, r) ==
  [action |-> r.action, sid |-> Redact(policy, <<"collections", "path_rules", "sid">>, FALSE, r.sid),
   paths |-> r.paths, exceptions |-> r.exceptions, others |-> r.others]

RedactCollection(policy, c) ==
  [mode |-> c.mode, ruleCount |-> c.ruleCount,
   pathRules |-> {RedactRule(policy, r) : r \in c.pathRules}]

RedactAppControl(policy, facts) ==
  LET state == facts[StateFact].value
  IN  Merged(facts, Record(StateFact, facts[StateFact].partial,
        [read        |-> state.read,
         applocker   |-> state.applocker,
         collections |-> [t \in DOMAIN state.collections |-> RedactCollection(policy, state.collections[t])],
         deviceguard |-> state.deviceguard,
         wdac        |-> state.wdac]))

AppControlIds(facts) ==
  LET collections == facts[StateFact].value.collections
  IN  UNION {{r.sid : r \in collections[t].pathRules} : t \in DOMAIN collections}

-----------------------------------------------------------------------------
(* appcontrol.py.                                                          *)

\* A collection in audit mode blocks nothing, nor does one without rules.
Enforced(state) ==
  {t \in DOMAIN state.collections :
     state.collections[t].mode = "Enabled" /\ state.collections[t].ruleCount > 0}

WdacEnforcing(state) == state.wdac = "enforcing"

\* _guard: a state that carries neither observation was not read.
StateGuard(facts) ==
  IF StateFact \notin DOMAIN facts \/ ~facts[StateFact].value.read
  THEN CannotTell("collection-error")
  ELSE IF facts[StateFact].partial THEN CannotTell("partial-population")
  ELSE Proceed

ApplicationControlImplemented(state) ==
  IF WdacEnforcing(state) \/ Enforced(state) # {}
  THEN Satisfied("proxy", {StateFact})
  ELSE NotSatisfied("proxy", {StateFact})

\* COLLECTION_COVERS, REQUIRED_TYPES.
FileTypeOf(collection) ==
  CASE collection = "Exe"    -> "executables"
    [] collection = "Dll"    -> "libraries"
    [] collection = "Script" -> "scripts"
    [] collection = "Msi"    -> "installers"
    [] OTHER                 -> "packaged apps"

BeyondAppLocker == {"compiled HTML", "HTML applications", "control panel applets"}
RequiredTypes   == {"executables", "libraries", "scripts", "installers"} \cup BeyondAppLocker

\* What this AppLocker policy leaves unrestricted of what the control names.
Unrestricted(state) == RequiredTypes \ {FileTypeOf(t) : t \in Enforced(state)}

\* application_control_covers_required_file_types: two failures, told apart in
\* their wording only, and no pass.
FileTypesCovered(state) ==
  IF WdacEnforcing(state) THEN CannotTell("insufficient-privilege")
  ELSE NotSatisfied("partial", {StateFact})

-----------------------------------------------------------------------------
(* appcontrol_paths.py.                                                    *)

\* Anything that was redacted taken for an administrator.
IsAdminSidOrUnreadable(id) == id.form # "raw" \/ id.who \in {"administrators", "domain-admins"}

\* _is_admin_sid, on what the bundle says of the rule's principal: a digest is
\* nobody it knows, a SID without its RID neither.
IsAdminSid(id) == id.form = "raw" /\ id.who \in {"administrators", "domain-admins"}

\* _guard of appcontrol_paths.py.
PathsGuard(facts) ==
  IF ~({StateFact, PathsFact} \subseteq DOMAIN facts) THEN CannotTell("collection-error")
  ELSE IF facts[StateFact].partial \/ facts[PathsFact].partial
       THEN CannotTell("partial-population")
  ELSE Proceed

\* _writable_locations.
WritableLocations(paths) == {p.path : p \in {q \in paths.probes \cup paths.walked : q.writable}}

UnreadableProbes(paths) == {p \in paths.probes \cup paths.walked : p.access = "denied"}

\* The search for writable directories left something out.
SearchIncomplete(paths) == paths.truncated \/ UnreadableProbes(paths) # {}

\* Rules that let a standard user run something from where one can write.
\* fail_on_administrator_allow is at its default: a rule for administrators is
\* recorded, not failed.
PermittedRules(state, paths) ==
  {r \in UNION {Permitting(state.collections[t].pathRules, l) :
                  t \in Enforced(state), l \in WritableLocations(paths)} : ~IsAdminSid(r.sid)}

\* A walk that ran out of budget taken for a complete one.
UserWritablePathsByWhatWasFound(state, paths) ==
  IF WdacEnforcing(state) THEN CannotTell("insufficient-privilege")
  ELSE IF Enforced(state) = {} \/ PermittedRules(state, paths) # {}
       THEN NotSatisfied("partial", {StateFact, PathsFact})
  ELSE Satisfied("partial", {StateFact, PathsFact})

UserWritablePathsControlled(state, paths) ==
  LET cites     == {StateFact, PathsFact}
      locations == WritableLocations(paths)
      permitted == PermittedRules(state, paths)
      unparsed  == UNION {Unparsed(state.collections[t].pathRules) : t \in Enforced(state)}
      otherwise == IF SearchIncomplete(paths) THEN CannotTell("partial-population")
                   ELSE Satisfied("partial", cites)
  IN  CASE WdacEnforcing(state)  -> CannotTell("insufficient-privilege")
        [] ~WdacEnforcing(state) /\ Enforced(state) = {} -> NotSatisfied("partial", cites)
        [] ~WdacEnforcing(state) /\ Enforced(state) # {} ->
             IF locations = {} THEN otherwise
             ELSE IF permitted # {} THEN NotSatisfied("partial", cites)
             ELSE IF unparsed # {} THEN CannotTell("collection-error")
             ELSE otherwise

AppControlJudge(c, facts) ==
  LET state == facts[StateFact].value
      guard == IF c = "application-control-user-writable-paths"
               THEN PathsGuard(facts) ELSE StateGuard(facts)
  IN  IF guard # Proceed THEN guard
      ELSE CASE c = "application-control-implemented" -> ApplicationControlImplemented(state)
             [] c = "application-control-file-types"  -> FileTypesCovered(state)
             [] c = "application-control-user-writable-paths" ->
                  UserWritablePathsControlled(state, facts[PathsFact].value)

=============================================================================
