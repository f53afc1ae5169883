------------------------------ MODULE Browsers ------------------------------
(***************************************************************************)
(* Web browser policy: checks/windows/browsers.py and the role             *)
(* collect_windows_browsers.  Which browsers there are comes from another  *)
(* role's inventory (VendorSupport), an optional fact of these checks.     *)
(*                                                                         *)
(* A world holds one policy key per scope, browser and level.  What the    *)
(* checks tell apart of a key is one of KeyContents.                       *)
(***************************************************************************)
EXTENDS VendorSupport

BrowserChecks == {"browser-ads-blocked", "browser-java-blocked", "browser-settings-locked"}

BrowserKinds == {"edge", "chrome", "firefox"}
Levels       == {"mandatory", "recommended"}

\* No key; a key with none of what the checks look for; one that forces an
\* extension the project knows for an ad blocker, or another; one of Firefox's
\* whose JSON cannot be parsed.
KeyContents == {"absent", "plain", "blocker", "stranger", "unparseable"}

PolicyFact == "windows.browsers.policy"
JavaFact   == "windows.browsers.java_surface"

Hives == {"machine"} \cup People

KeyPolicies == [Hives \X BrowserKinds \X Levels -> KeyContents]

-----------------------------------------------------------------------------
(* Collection.                                                             *)

\* Get-PolicyLevel tells the levels apart by the path; Firefox has one.
KeysRead == {k \in Hives \X BrowserKinds \X Levels : k[2] = "firefox" => k[3] = "mandatory"}

\* Read-BrowserKey.
BrowserRow(w, k) ==
  [scope |-> IF k[1] = "machine" THEN "machine" ELSE "user",
   sid |-> IF k[1] = "machine" THEN NoSid ELSE Raw(k[1]),
   browser |-> k[2], level |-> k[3], content |-> w.policy[k]]

\* Get-BrowserPolicy.ps1.  `registry` and `java` are its two halves, each of
\* which can fail with an error of its own; Java's is asked of the machine only.
CollectBrowsers(w, blind) ==
  LET readable == "browsers" \notin blind.garbled
      ok       == Ok(IF readable THEN "mapping" ELSE "garbage", "mapping")
      walked   == readable /\ "registry" \notin blind.hidden
      java     == readable /\ "java" \notin blind.hidden
      keys     == {k \in KeysRead : k[1] \notin blind.hidden \cup blind.skipped
                                      /\ w.policy[k] # "absent"}
  IN  Merged(
        Record(PolicyFact, ~ok \/ ~walked,
         [rows     |-> IF walked THEN {BrowserRow(w, k) : k \in keys} ELSE {},
          unloaded |-> IF walked THEN {Raw(p) : p \in People \cap (blind.hidden \ blind.skipped)} ELSE {}]),
        Record(JavaFact, ~ok \/ ~java,
         [ieMode |-> java /\ "machine" \in w.ieMode, javasoft |-> java /\ w.javasoft]))

\* What redaction does to these facts.
RedactBrowserRow(policy, r) ==
  [scope |-> r.scope, sid |-> Redact(policy, <<"rows", "sid">>, FALSE, r.sid),
   browser |-> r.browser, level |-> r.level, content |-> r.content]

RedactBrowsers(policy, facts) ==
  LET value == facts[PolicyFact].value
  IN  Merged(facts, Record(PolicyFact, facts[PolicyFact].partial,
        [rows     |-> {RedactBrowserRow(policy, r) : r \in value.rows},
         unloaded |-> RedactList(policy, <<"meta", "profiles_unloaded">>, value.unloaded)]))

BrowsersIds(facts) == {r.sid : r \in facts[PolicyFact].value.rows} \cup facts[PolicyFact].value.unloaded

-----------------------------------------------------------------------------
(* The evaluators.                                                         *)

\* _installed_browsers: from whatever the inventory holds, complete or not.
InstalledBrowsers(facts) ==
  IF AppsFact \in DOMAIN facts THEN {a \in facts[AppsFact].value : a.kind \in BrowserKinds} ELSE {}

\* The facts the verdict quotes from.
BrowserCites(facts) == {PolicyFact, AppsFact} \cap DOMAIN facts

\* _coverage_gap.
CoverageGap(facts) == facts[PolicyFact].value.unloaded # {} \/ AppsFact \notin DOMAIN facts

\* The end of each check, once nothing failed.
UnlessGap(facts, confidence, cites) ==
  IF CoverageGap(facts) THEN CannotTell("partial-population") ELSE Satisfied(confidence, cites)

\* _forced_blockers: by browser, whatever the level of the key.
ForcedBlockers(rows) == {r.browser : r \in {q \in rows : q.content = "blocker"}}

\* advertisements_not_processed.
AdvertisementsNotProcessed(facts) ==
  LET installed == {a.kind : a \in InstalledBrowsers(facts)}
  IN  IF installed = {} THEN CannotTell("partial-population")
      ELSE IF installed \ ForcedBlockers(facts[PolicyFact].value.rows) # {}
      THEN NotSatisfied("partial", BrowserCites(facts))
      ELSE UnlessGap(facts, "partial", BrowserCites(facts))

\* NPAPI_REMOVED_AT (45 and 53), on the major versions a world uses.  Edge has
\* no such version.
BeforeNpapiWent(kind) ==
  CASE kind = "chrome" -> {"40"} [] kind = "firefox" -> {"40", "52"} [] OTHER -> {}

\* A version that cannot be read is no newer.
BelowNpapiFloor(app) ==
  /\ app.kind \in {"chrome", "firefox"}
  /\ \/ app.version = NoCycle
     \/ Head(app.version.parts) \in BeforeNpapiWent(app.kind)

\* java_not_processed.
JavaNotProcessed(facts) ==
  LET installed == InstalledBrowsers(facts)
      java      == facts[JavaFact].value
      cites     == BrowserCites(facts) \cup {JavaFact}
  IN  IF ~Usable(facts, JavaFact) THEN CannotTell("collection-error")
      ELSE IF installed = {} THEN CannotTell("partial-population")
      ELSE IF java.ieMode /\ java.javasoft THEN NotSatisfied("proxy", cites)
      ELSE IF \E a \in installed : BelowNpapiFloor(a) THEN CannotTell("partial-population")
      ELSE UnlessGap(facts, "proxy", cites)

\* security_settings_locked: every installed browser has policy under its
\* mandatory key, in some scope.
SecuritySettingsLocked(facts) ==
  LET rows      == facts[PolicyFact].value.rows
      installed == {a.kind : a \in InstalledBrowsers(facts)}
      mandatory == {r.browser : r \in {q \in rows : q.level = "mandatory"}}
  IN  IF \E r \in rows : r.browser = "firefox" /\ r.content = "unparseable"
      THEN CannotTell("collection-error")
      ELSE IF installed = {} THEN CannotTell("partial-population")
      ELSE IF installed \ mandatory # {} THEN NotSatisfied("partial", BrowserCites(facts))
      ELSE UnlessGap(facts, "partial", BrowserCites(facts))

BrowsersJudge(c, facts) ==
  IF ~Usable(facts, PolicyFact) THEN CannotTell("collection-error")
  ELSE CASE c = "browser-ads-blocked"     -> AdvertisementsNotProcessed(facts)
         [] c = "browser-java-blocked"    -> JavaNotProcessed(facts)
         [] c = "browser-settings-locked" -> SecuritySettingsLocked(facts)

=============================================================================
