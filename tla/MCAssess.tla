------------------------------ MODULE MCAssess ------------------------------
(***************************************************************************)
(* A small registry and small estates for TLC.  Two checks share a control *)
(* (c1), one of them with the stronger ceiling; one judges a tenant from   *)
(* inside (c2); c3 is attested; c4 has no check; c5 needs a history.       *)
(***************************************************************************)
EXTENDS AssessProperties

MCFactKeys == {"release", "policy", "methods"}

\* One value for everything an evaluator can do with the fact it reads.
MCFactValues == {"good", "weak", "bad", "na", "unclear", "bare", "crash"}

MCControls  == {"c1", "c2", "c3", "c4", "c5"}
MCPlatforms == {"", "windows", "linux", "entra-id"}
MCChecks    == {"os", "office", "mfa", "attested", "rate"}

MCCheckPos  == [os |-> 3, office |-> 5, mfa |-> 2, attested |-> 1, rate |-> 4]
MCAutomated == [c \in MCChecks |-> c # "attested"]
MCPlatform  == [os |-> "common", office |-> "windows", mfa |-> "entra-id",
                attested |-> "organisation", rate |-> "common"]
MCBinds     == [os |-> {"c1"}, office |-> {"c1"}, mfa |-> {"c2"},
                attested |-> {"c3"}, rate |-> {"c5"}]
MCRequired  == [os |-> {"release"}, office |-> {"policy"}, mfa |-> {"methods"},
                attested |-> {}, rate |-> {"release"}]
MCWindow    == [os |-> 0, office |-> 0, mfa |-> 0, attested |-> 0, rate |-> 14]
MCCeiling   == [os |-> "direct", office |-> "proxy", mfa |-> "proxy",
                attested |-> "attested", rate |-> "direct"]
MCScope     == [os |-> "subject", office |-> "subject", mfa |-> "aggregate",
                attested |-> "aggregate", rate |-> "subject"]
MCFreshness == [os |-> 2, office |-> 2, mfa |-> 1, attested |-> 2, rate |-> 2]

MCOutcome(value, key) ==
  LET says(s, r, cites) ==
        [says |-> s, confidence |-> IF value = "weak" THEN "partial" ELSE "direct",
         reason |-> r, cites |-> cites]
  IN  CASE value \in {"good", "weak"} -> says("satisfied", "not-implemented", {key})
        [] value = "bad"     -> says("not-satisfied", "not-implemented", {key})
        [] value = "na"      -> says("not-applicable", "not-implemented", {})
        [] value = "unclear" -> says("unassessed", "insufficient-privilege", {})
        [] value = "bare"    -> says("satisfied", "not-implemented", {})
        [] OTHER             -> says("raises", "not-implemented", {})

\* An evaluator that looks at one fact.  It would raise on a missing one.
MCJudge(c, facts) ==
  LET key == CASE c = "office" -> "policy" [] c = "mfa" -> "methods" [] OTHER -> "release"
  IN  MCOutcome(IF key \in DOMAIN facts THEN facts[key].value ELSE "crash", key)

MCTemplateControls == {"c1", "c2", "c3", "c5", "c6"}

ML1 == {"c1", "c2", "c3", "c4"}
ML2 == ML1 \cup {"c5"}

-----------------------------------------------------------------------------
(* Bundles.                                                                *)

Whole(v)    == [partial |-> FALSE, value |-> v]
InPart(v)   == [partial |-> TRUE,  value |-> v]
NoFacts     == [k \in {} |-> Whole("good")]

FactsOf(platform, v, w) ==
  IF platform = "entra-id" THEN [methods |-> v]
  ELSE IF platform = "windows" THEN [release |-> v, policy |-> w]
  ELSE [release |-> v]

BundleOf(subject, platform, collected, facts) ==
  [subject |-> subject, platform |-> platform, collected |-> collected, facts |-> facts]

Wholes == {Whole(v) : v \in MCFactValues}

\* One workstation, in every way its two facts can be; one Linux server and
\* one tenant, each with an answer or without.
Workstations ==
  {BundleOf("h1", "windows", 0, FactsOf("windows", v, w)) :
     v \in {Whole("good"), Whole("bad"), Whole("na"), InPart("bad")},
     w \in Wholes \cup {InPart("good")}}
  \cup {BundleOf("h1", "windows", 0, [policy |-> v]) : v \in Wholes}

Servers ==
  {BundleOf("h2", "linux", 0, [release |-> v]) :
     v \in {Whole("good"), Whole("bad")}}
  \cup {BundleOf("h2", "", 0, NoFacts)}

Tenants ==
  {BundleOf("t1", "entra-id", 0, [methods |-> v]) :
     v \in {Whole("weak"), Whole("bad"), Whole("na"), InPart("good")}}

Estates ==
  {<<w>> : w \in Workstations}
    \cup {<<w, s>> : w \in Workstations, s \in Servers}
    \cup {<<t, s, w>> : w \in Workstations, s \in Servers, t \in Tenants}

\* Two bundles, of two hosts, in both orders, at two times: for runs with
\* several invocations.
Pairs ==
  LET a(h, v) == BundleOf("h1", "linux", h, [release |-> v])
      b(v)    == BundleOf("h2", "linux", 0, [release |-> v])
      of(h, v, w) == {<<a(h, v), b(w)>>, <<b(w), a(h, v)>>}
  IN  of(0, Whole("good"), Whole("bad")) \cup of(1, Whole("good"), Whole("na"))
        \cup of(0, InPart("good"), Whole("unclear"))

\* A failure that is fixed, is undetermined or is out of scope an hour later.
Nights ==
  LET a(h, v) == BundleOf("h1", "linux", h, [release |-> v])
      b(v)    == BundleOf("h2", "linux", 0, [release |-> v])
  IN  {<<a(0, Whole("good")), b(Whole("bad"))>>, <<b(Whole("bad")), a(0, Whole("good"))>>,
       <<a(0, InPart("good")), b(Whole("unclear"))>>, <<a(1, Whole("good")), b(Whole("na"))>>}

MCSubjects   == {"h1", "h2", "t1", "t2"}
OneRun       == {"nightly"}
TwoRuns      == {"monday", "tuesday"}
OneBaseline  == {ML2}
TwoBaselines == {ML1, ML2}
Given        == {3}
GivenOrNot   == {3, NotGiven}

=============================================================================
