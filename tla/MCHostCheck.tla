---------------------------- MODULE MCHostCheck -----------------------------
(***************************************************************************)
(* Subjects for HostCheck: per family the worlds in which its checks come  *)
(* to different ends, and what can be missing from the evidence on each.   *)
(***************************************************************************)
EXTENDS HostCheckProperties

\* Redaction policies: as shipped, as shipped with a salt of one's own or an
\* empty one, and a policy of one's own that keeps, cuts or drops SIDs.
MCPolicy(sid, salt) == [sid |-> sid, default |-> "retain", salt |-> salt]

MCPolicies == {MCPolicy("hash", "shipped"), MCPolicy("hash", "unset"), MCPolicy("hash", "own"),
               MCPolicy("retain", "unset"), MCPolicy("truncate", "unset"), MCPolicy("drop", "unset")}

MCUnread(garbled, hidden, skipped) ==
  [EverythingRead EXCEPT !.garbled = garbled, !.hidden = hidden, !.skipped = skipped]

\* One script at a time without usable output.
MCGarbled(scripts) == {MCUnread({s}, {}, {}) : s \in scripts}

-----------------------------------------------------------------------------
(* Office.                                                                 *)

MCApps == {"word", "excel"}

\* Any policy for Word; for Excel machine policy, none, or Word's.
MCSetting(word, excel) ==
  [k \in Scopes \X MCApps |->
     CASE k[2] = "word" -> word[k[1]]
       [] excel = "machine" -> IF k[1] = Machine THEN "right" ELSE "absent"
       [] excel = "same" -> word[k[1]]
       [] OTHER -> "absent"]

MCOfficeWorlds ==
  {[product |-> "click-to-run", setting |-> MCSetting(word, excel)] :
     word \in [Scopes -> Settings], excel \in {"machine", "same", "none"}}
  \cup {[product |-> p, setting |-> MCSetting([s \in Scopes |-> v], "same")] :
          p \in {"installer", "none"}, v \in {"absent", "right"}}

MCOfficeUnread ==
  {MCUnread({}, h, {}) : h \in SUBSET People} \cup MCGarbled({"install", "policy"})
  \cup {MCUnread({}, {"bob"}, {"bob"})}

-----------------------------------------------------------------------------
(* Application control.                                                    *)

MCRule(action, who, path, except) ==
  [action |-> action, sid |-> Raw(who), paths |-> {path}, exceptions |-> except, others |-> FALSE]

MCSegments ==
  Wildcards \cup Executables \cup
    {"C:", "WINDOWS", "SYSTEM32", "SYSWOW64", "PROGRAM FILES", "PROGRAM FILES (X86)",
     "USERS", "ALICE", "TEMP", "TOOLS", "%OSDRIVE%", "%WINDIR%", "%PROGRAMFILES%"}

Temp == <<"C:", "WINDOWS", "TEMP">>
Home == <<"C:", "USERS", "ALICE">>

\* AppLocker's default rules, for everyone and for administrators, with the
\* directory for temporary files excepted.
MCDefaults == {MCRule("allow", "everyone", <<"%PROGRAMFILES%", Star>>, {}),
               MCRule("allow", "everyone", <<"%WINDIR%", Star>>, {<<"%WINDIR%", "TEMP", Star>>})}

MCAdministratorsDefault == MCRule("allow", "administrators", <<Star>>, {})

\* What may come on top of them: rules for administrators, for a user, wider and
\* narrower than a directory, denying all, some, or to some; one whose
\* conditions were not read and one that goes by publisher.
MCExtras ==
  {MCAdministratorsDefault,
   MCRule("allow", "domain-admins", <<"%OSDRIVE%", Star>>, {}),
   MCRule("allow", "everyone", <<"%WINDIR%", Star>>, {}),
   MCRule("allow", "everyone", <<"%WINDIR%", Star>>, {<<"%WINDIR%", "TEMP", "RUN.EXE">>}),
   MCRule("allow", "everyone", <<"%OSDRIVE%", StarExe>>, {}),
   MCRule("allow", "alice", <<"C:", "USERS", "ALICE", Star>>, {}),
   MCRule("allow", "alice", <<"C:", "USERS", "ALICE", "RUN.EXE">>, {}),
   MCRule("deny", "everyone", <<"%WINDIR%", "TEMP", Star>>, {}),
   MCRule("deny", "everyone", <<"%OSDRIVE%", "USERS", Star>>, {}),
   MCRule("deny", "everyone", <<"C:", "USERS", "ALICE", "RUN.EXE">>, {}),
   MCRule("deny", "bob", <<"%OSDRIVE%", "USERS", Star>>, {}),
   MCRule("allow", "everyone", <<"%WINDIR%", Star, "RUN.EXE">>, {}),
   MCRule("allow", "bob", <<"%OSDRIVE%", Star, "TEMP", Star>>, {<<"C:", Star, "RUN.EXE">>}),
   MCRule("allow", "everyone", <<"C:", "WINDOWS", "TEMP", "TOOLS", Star>>, {}),
   MCRule("allow", "everyone", <<"%OSDRIVE%", "USERS", Star>>, {<<"%OSDRIVE%", "USERS", StarExe>>}),
   MCRule("deny", "everyone", <<"%WINDIR%", "TEMP", StarExe>>, {}),
   [MCRule("allow", "everyone", <<Star>>, {}) EXCEPT !.paths = {}],
   [MCRule("allow", "everyone", <<Star>>, {}) EXCEPT !.paths = {}, !.others = TRUE]}

MCDirectories(temp, home) ==
  [d \in {"temp", "home"} |->
     IF d = "temp" THEN [path |-> Temp, met |-> "walk", writable |-> temp]
     ELSE [path |-> Home, met |-> "probe", writable |-> home]]

MCExe(mode, rules) == [t \in {"Exe"} |-> [mode |-> mode, ruleCount |-> Cardinality(rules), pathRules |-> rules]]

MCAppControl(collections, wdac, temp, home) ==
  [collections |-> collections, wdac |-> wdac, directories |-> MCDirectories(temp, home)]

MCAppControlWorlds ==
  {MCAppControl(MCExe("Enabled", MCDefaults \cup {r, q}), "off", temp, home) :
     r \in MCExtras, q \in MCExtras, temp \in BOOLEAN, home \in BOOLEAN}
  \cup {MCAppControl(MCExe(mode, rules), wdac, TRUE, TRUE) :
          mode \in Modes, rules \in {{}, MCDefaults}, wdac \in {"off", "audit", "enforcing"}}
  \cup {MCAppControl([t \in CollectionTypes |-> MCExe("Enabled", MCDefaults)["Exe"]], "off", TRUE, TRUE)}

MCAppControlUnread ==
  {MCUnread({}, h, {}) : h \in {{}, {"applocker"}, {"deviceguard"}, {"applocker", "deviceguard"},
                                {"temp"}, {"home"}, {"temp", "home"}}}
  \cup MCGarbled({"state", "paths"}) \cup {MCUnread({}, {}, {"temp"}), MCUnread({}, {}, {"home"})}

-----------------------------------------------------------------------------
(* Browsers and applications.                                              *)

App(kind, version, scope) == [kind |-> kind, version |-> Cycle(version), scope |-> scope]

MCInstalled ==
  {{},
   {App("chrome", <<"120">>, "machine")},
   {App("chrome", <<"120">>, "machine"), App("edge", <<"120">>, "machine")},
   {App("chrome", <<"120">>, "machine"), App("firefox", <<"52">>, "alice")},
   {App("chrome", <<"40">>, "alice"), App("flash", <<"32">>, "bob")},
   {App("firefox", <<"128">>, "machine"), App("office", <<"2016">>, "machine")},
   {App("edge", <<"120">>, "alice"), App("office", <<>>, "machine"), App("office", <<"2021">>, "machine")}}

\* Policy keys that may be there, two at a time.
MCKeys ==
  {<<<<"machine", "chrome", "mandatory">>, c>> : c \in {"plain", "blocker", "stranger"}}
  \cup {<<<<"machine", "chrome", "recommended">>, c>> : c \in {"plain", "blocker"}}
  \cup {<<<<p, "chrome", "mandatory">>, "blocker">> : p \in People}
  \cup {<<<<"alice", "chrome", "mandatory">>, "plain">>}
  \cup {<<<<"machine", "firefox", "mandatory">>, c>> : c \in {"blocker", "unparseable"}}
  \cup {<<<<"alice", "firefox", "mandatory">>, "plain">>}
  \cup {<<<<"machine", "edge", "mandatory">>, "blocker">>}

MCKeyPolicy(pairs) ==
  [k \in Hives \X BrowserKinds \X Levels |->
     IF \E p \in pairs : p[1] = k THEN (CHOOSE p \in pairs : p[1] = k)[2] ELSE "absent"]

MCBrowserWorld(installed, policy, java, inventoried) ==
  [installed |-> installed, policy |-> policy, ieMode |-> java[1], javasoft |-> java[2],
   inventoried |-> inventoried]

MCBrowserWorlds ==
  {MCBrowserWorld(i, MCKeyPolicy({p, q}), <<{}, FALSE>>, TRUE) :
     i \in MCInstalled, p \in MCKeys, q \in MCKeys}
  \cup {MCBrowserWorld(i, MCKeyPolicy({<<<<"machine", "chrome", "mandatory">>, "blocker">>}), <<ie, java>>, run) :
          i \in MCInstalled, ie \in {{}, {"machine"}, {"alice"}}, java \in BOOLEAN, run \in BOOLEAN}

MCBrowserUnread ==
  {[MCUnread({}, h, {}) EXCEPT !.inventory = i] : h \in {{}, {"alice"}, People}, i \in {{}, {"alice"}, People}}
  \cup {MCUnread({}, {s}, {}) : s \in {"registry", "java"}}
  \cup MCGarbled({"browsers", "applications"}) \cup {MCUnread({}, {}, {"alice"})}

-----------------------------------------------------------------------------
(* Hosts and their support.                                                *)

MCAsOf == 5

MCDataset ==
  [p \in {"windows", "windows-server", "rhel", "ubuntu", "chrome", "firefox", "office"} |->
     CASE p = "windows" ->
            {Entry(Cycle(<<"10", "22h2">>), "date", 5, 0),
             Entry(Cycle(<<"10", "21h2", "e">>), "date", 4, 0),
             Entry(Cycle(<<"10", "21h2", "w">>), "date", 4, 0),
             Entry(Cycle(<<"10", "21h2", "e", "lts">>), "date", 9, 0),
             Entry(Cycle(<<"11", "23h2", "e">>), "date", 6, 0),
             Entry(Cycle(<<"11", "23h2", "w">>), "date", 4, 0),
             Entry(Cycle(<<"11", "24h2", "e">>), "date", 4, 0),
             Entry(Cycle(<<"11", "24h2", "e", "lts">>), "date", 9, 0)}
       [] p = "windows-server" ->
            {Entry(Cycle(<<"2022">>), "date", 6, 9), Entry(Cycle(<<"2019">>), "date", 4, 8),
             Entry(Cycle(<<"2012">>), "date", 1, 3), Entry(Cycle(<<"2012", "r2">>), "date", 1, 5),
             Entry(Cycle(<<"2008", "sp2">>), "date", 1, 2),
             Entry(Cycle(<<"2008", "r2", "sp1">>), "date", 1, 2)}
       [] p = "rhel"   -> {Entry(Cycle(<<"9">>), "date", 9, 0), Entry(Cycle(<<"8">>), "date", 7, 0)}
       [] p = "ubuntu" -> {Entry(PointRelease(<<"22">>, "04"), "date", 4, 5),
                           Entry(PointRelease(<<"24">>, "10"), "date", 4, 0),
                           Entry(PointRelease(<<"25">>, "04"), "text", 0, 0)}
       [] p = "chrome" -> {Entry(Cycle(<<"120">>), "open", 0, 0), Entry(Cycle(<<"40">>), "date", 2, 0)}
       [] p = "firefox" -> {Entry(Cycle(<<"52">>), "date", 2, 0), Entry(Cycle(<<"128">>), "date", 5, 0)}
       [] p = "office" -> {Entry(Cycle(<<"2016">>), "date", 2, 4), Entry(Cycle(<<"2021">>), "date", 3, 6)}]

\* Nobody has promised the distribution rebuilt from RHEL as much as RHEL has, and
\* Edge has no file.
MCLifecycles ==
  ("centos" :> {Entry(Cycle(<<"8">>), "date", 1, 0)}) @@
  ("edge"   :> {Entry(Cycle(<<"120">>), "date", 4, 0)}) @@ MCDataset

MCWindows(os, release, edition, ie, policy) ==
  [os |-> os, release |-> release, edition |-> edition, ie |-> ie, iePolicy |-> policy]

\* The releases there are, two of them with a long-term channel.
MCReleases == {<<"10", "21h2">>, <<"10", "22h2">>, <<"11", "23h2">>, <<"11", "24h2">>, <<"11", "">>}

MCWindowsWorlds ==
  {MCWindows(r[1], r[2], edition, ie, policy) :
     r \in MCReleases, edition \in {"enterprise", "pro", "multi-session"},
     ie \in {"absent", "disabled", "enabled"}, policy \in BOOLEAN}
  \cup {MCWindows(r[1], r[2], "ltsc", "absent", FALSE) : r \in {<<"10", "21h2">>, <<"11", "24h2">>}}
  \cup {MCWindows("server", year, edition, "absent", FALSE) :
          year \in {"2022", "2019", "2012", "2008", ""}, edition \in {"standard", "r2"}}

MCWindowsUnread ==
  {EverythingRead, MCUnread({}, {"features"}, {}), MCUnread({}, {}, {"features"})}
  \cup MCGarbled({"features", "ie", "release"})

MCLinuxWorlds ==
  {[id |-> id, version |-> v] : id \in {"rhel", "centos", "ubuntu", "alpine"},
     v \in {Cycle(<<"8">>), PointRelease(<<"9">>, "4"), PointRelease(<<"22">>, "04"),
            PointRelease(<<"24">>, "10"), PointRelease(<<"25">>, "04"), NoCycle}}

-----------------------------------------------------------------------------
(* Tenants.                                                                *)

MCMaxExcluded == 2

MCPolicyOf(state, allUsers, excluded, mfa, strength, page) ==
  [state |-> state, allUsers |-> allUsers, allApps |-> TRUE, appsExcluded |-> FALSE,
   excluded |-> excluded, mfa |-> mfa, strength |-> strength, orElse |-> FALSE, page |-> page]

MCPolicySet ==
  {MCPolicyOf("enabled", TRUE, 2, TRUE, "none", 2),
   MCPolicyOf("enabled", TRUE, 3, TRUE, "none", 1),
   MCPolicyOf("enabled", FALSE, 0, TRUE, "none", 1),
   MCPolicyOf("enabled", TRUE, 0, FALSE, "own", 1),
   MCPolicyOf("enabled", TRUE, 0, FALSE, "removed", 1),
   MCPolicyOf("reporting", TRUE, 0, TRUE, "none", 1),
   [MCPolicyOf("enabled", TRUE, 0, TRUE, "none", 1) EXCEPT !.allApps = FALSE],
   [MCPolicyOf("enabled", TRUE, 0, TRUE, "none", 1) EXCEPT !.orElse = TRUE]}

Method(id, enabled) == [id |-> id, enabled |-> enabled]

MCTenants ==
  {[methods |-> methods, policies |-> {p, q}, strengths |-> {[id |-> "own", page |-> n]}] :
     methods \in {{Method("authenticator", TRUE)}, {Method("email", TRUE), Method("authenticator", TRUE)},
                  {Method("email", FALSE)}},
     p \in MCPolicySet, q \in MCPolicySet, n \in {1, 2}}
  \cup {[methods |-> {}, policies |-> {}, strengths |-> {}]}

MCTenantUnread ==
  {MCUnread({}, h, {}) : h \in SUBSET {"policies", "strengths"}}
  \cup MCGarbled(Endpoints) \cup {MCUnread({}, {}, {e}) : e \in Endpoints}

-----------------------------------------------------------------------------
(* Constants.                                                              *)

MCFamily(family, worlds, policies) == [family : {family}, world : worlds, policy : policies]

MCCases ==
  MCFamily("office", MCOfficeWorlds, MCPolicies)
  \cup MCFamily("appcontrol", MCAppControlWorlds, MCPolicies)
  \cup MCFamily("browsers", MCBrowserWorlds, {MCPolicy("hash", "own"), MCPolicy("drop", "unset")})
  \cup MCFamily("windows", MCWindowsWorlds, {MCPolicy("hash", "own")})
  \cup MCFamily("linux", MCLinuxWorlds, {MCPolicy("hash", "own")})
  \cup MCFamily("tenant", MCTenants, {MCPolicy("hash", "own")})

\* The policy that ships, with the salt that a deployment has to set, and AppLocker
\* with no rules but the default ones.
MCShippedCases ==
  {c \in MCCases :
     /\ c.policy = MCPolicy("hash", "own")
     /\ c.family = "appcontrol" =>
          \A t \in DOMAIN c.world.collections :
            c.world.collections[t].pathRules \subseteq MCDefaults \cup {MCAdministratorsDefault}}

MCUnreadable ==
  [f \in Families |->
     CASE f = "office"     -> MCOfficeUnread
       [] f = "appcontrol" -> MCAppControlUnread
       [] f = "browsers"   -> MCBrowserUnread
       [] f = "windows"    -> MCWindowsUnread
       [] f = "linux"      -> {EverythingRead, MCUnread({}, {"os-release"}, {})}
       [] f = "tenant"     -> MCTenantUnread]

MCFactKeys == UNION {RequiredFacts[c] : c \in AllChecks}
                \cup {InstallFact, IePolicyFact, StrengthsFact, AppsFact}

=============================================================================
