------------------------------- MODULE Office -------------------------------
(***************************************************************************)
(* Microsoft Office macro policy: checks/windows/office.py, and the role   *)
(* collect_windows_office that reads the registry for it.                  *)
(*                                                                         *)
(* Each of the four checks is about one registry value, so a world holds   *)
(* one setting per application and scope.  A scope is the machine or a     *)
(* user's policy hive; every hive is under Policies, which is all that     *)
(* gpo_delivered says.  One Office version is installed and has policy.    *)
(***************************************************************************)
EXTENDS Evaluators, Redaction

CONSTANT InScopeApps    \* the parameter in_scope_apps of the checks

OfficeChecks == {"macro-internet-blocked", "macro-settings-locked",
                 "macros-disabled", "macro-av-scanning"}

Machine == "machine"
Scopes  == {Machine} \cup People

\* A policy key that is not there; one without the value; with another value
\* than the check's; with the check's own.
Settings == {"absent", "unset", "wrong", "right"}

\* How Office got there matters to what the collector can see of it.
OfficeWorlds == [product : {"click-to-run", "installer", "none"},
                 setting : [Scopes \X InScopeApps -> Settings]]

InstallFact == "windows.office.install"
MacroFact   == "windows.office.macro_policy"

-----------------------------------------------------------------------------
(* Collection.                                                             *)

SidOf(scope) == IF scope = Machine THEN NoSid ELSE Raw(scope)

\* Read-MacroValues: a row wherever the key exists.
MacroRow(w, scope, app) ==
  [scope |-> IF scope = Machine THEN "machine" ELSE "user",
   sid |-> SidOf(scope), app |-> app, value |-> w.setting[<<scope, app>>], gpo |-> TRUE]

\* Get-OfficeMacroPolicy.ps1: machine scope and every hive that is loaded.  A
\* user who is not signed in has no hive to read, and is reported, unless the
\* profile list itself could not be read.
MacroRows(w, blind) ==
  {MacroRow(w, p[1], p[2]) :
     p \in {q \in (Scopes \ (blind.hidden \cup blind.skipped)) \X InScopeApps :
             w.setting[q] # "absent"}}

Unloaded(blind) == {Raw(p) : p \in (blind.hidden \ blind.skipped) \cap People}

\* The role before ADR 0017: what could not be read was recorded as read.
CollectOfficeBlindly(w, blind) ==
  LET installed == "install" \notin blind.garbled /\ w.product = "click-to-run"
      scanned   == installed /\ "policy" \notin blind.garbled
  IN  Merged(
        Record(InstallFact, FALSE, installed),
        Record(MacroFact, FALSE,
          [rows     |-> IF scanned THEN MacroRows(w, blind) ELSE {},
           unloaded |-> IF scanned THEN Unloaded(blind) ELSE {}]))

\* The role.  The macro scan is skipped where no installation was read.
CollectOffice(w, blind) ==
  LET readable  == Ok(IF "install" \in blind.garbled THEN "garbage" ELSE "array", "any")
      installed == "install" \notin blind.garbled /\ w.product = "click-to-run"
      scanned   == installed /\ "policy" \notin blind.garbled
  IN  Merged(
        Record(InstallFact, ~readable, installed),
        Record(MacroFact, installed /\ ~Ok(IF scanned THEN "mapping" ELSE "garbage", "mapping"),
          [rows     |-> IF scanned THEN MacroRows(w, blind) ELSE {},
           unloaded |-> IF scanned THEN Unloaded(blind) ELSE {}]))

\* What redaction does to these facts.
RedactMacroRow(policy, r) ==
  [scope |-> r.scope, sid |-> Redact(policy, <<"rows", "sid">>, FALSE, r.sid),
   app |-> r.app, value |-> r.value, gpo |-> r.gpo]

RedactOffice(policy, facts) ==
  LET value == facts[MacroFact].value
  IN  Merged(facts, Record(MacroFact, facts[MacroFact].partial,
        [rows     |-> {RedactMacroRow(policy, r) : r \in value.rows},
         unloaded |-> RedactList(policy, <<"meta", "profiles_unloaded">>, value.unloaded)]))

OfficeIds(facts) == {r.sid : r \in facts[MacroFact].value.rows} \cup facts[MacroFact].value.unloaded

-----------------------------------------------------------------------------
(* The evaluators.                                                         *)

OfficeCites == {InstallFact, MacroFact}

\* _office_guard: what stops a check before any policy is judged.  Whether the
\* inventory was read comes before whether it is empty.
OfficeGuard(facts) ==
  IF ~Usable(facts, InstallFact) THEN CannotTell("collection-error")
  ELSE IF ~facts[InstallFact].value THEN OutOfPopulation({InstallFact})
  ELSE IF ~Usable(facts, MacroFact) THEN CannotTell("collection-error")
  ELSE Proceed

\* A check that forgot the profiles it could not read.
MacroVerdictOptimistic(failing, gap, confidence) ==
  IF failing THEN NotSatisfied(confidence, OfficeCites) ELSE Satisfied(confidence, OfficeCites)

\* The end of each check: a failure is a failure even when some of the picture
\* is missing, a pass is not.
MacroVerdict(failing, gap, confidence) ==
  IF failing THEN NotSatisfied(confidence, OfficeCites)
  ELSE IF gap THEN CannotTell("partial-population")
  ELSE Satisfied(confidence, OfficeCites)

BlockedMachineWide(rows) ==
  {r.app : r \in {q \in rows : q.scope = "machine" /\ q.value = "right" /\ q.gpo}}

\* macro_internet_blocked: per application, machine policy settles it, and
\* otherwise every user row there is.  (The collector reads no hive of a
\* built-in service account, so there is none to leave out.)
MacroInternetBlocked(policy) ==
  LET open     == InScopeApps \ BlockedMachineWide(policy.rows)
      userRows == {r \in policy.rows : r.scope = "user"}
      failing  == {r \in userRows : r.app \in open /\ (r.value # "right" \/ ~r.gpo)}
      silent   == {a \in open : \A r \in userRows : r.app # a}
  IN  MacroVerdict(failing # {}, silent # {} \/ policy.unloaded # {}, "proxy")

\* macro_settings_locked.
MacroSettingsLocked(policy) ==
  MacroVerdict(\E r \in policy.rows : ~r.gpo,
               InScopeApps \ {r.app : r \in policy.rows} # {} \/ policy.unloaded # {},
               "proxy")

\* macros_disabled_without_business_need.
MacrosDisabled(policy) ==
  LET valued == {r \in policy.rows : r.value \in {"wrong", "right"}}
  IN  MacroVerdict(\E r \in valued : r.value = "wrong",
                   InScopeApps \ {r.app : r \in valued} # {} \/ policy.unloaded # {},
                   "partial")

\* macro_antivirus_scanning: any observed value will do, and profiles that
\* could not be read are not asked about.
MacroAntivirusScanning(policy) ==
  LET valued == {r \in policy.rows : r.value \in {"wrong", "right"}}
  IN  IF valued = {} THEN CannotTell("partial-population")
      ELSE MacroVerdict(\E r \in valued : r.value = "wrong", FALSE, "proxy")

OfficeJudge(c, facts) ==
  LET guard  == OfficeGuard(facts)
      policy == facts[MacroFact].value
  IN  IF guard # Proceed THEN guard
      ELSE CASE c = "macro-internet-blocked" -> MacroInternetBlocked(policy)
             [] c = "macro-settings-locked"  -> MacroSettingsLocked(policy)
             [] c = "macros-disabled"        -> MacrosDisabled(policy)
             [] c = "macro-av-scanning"      -> MacroAntivirusScanning(policy)

=============================================================================
