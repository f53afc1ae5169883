------------------------------- MODULE Entra --------------------------------
(***************************************************************************)
(* Multi-factor authentication of a tenant: checks/entra/authentication.py *)
(* and the role collect_entra_id, which asks Microsoft Graph three         *)
(* questions.                                                              *)
(*                                                                         *)
(* Each answer may be whole, be the first of several pages, carry no JSON, *)
(* or be an error that Graph writes in JSON too.                           *)
(***************************************************************************)
EXTENDS Evaluators

CONSTANT MaxExcluded    \* the parameter max_excluded_principals

EntraChecks == {"mfa-factor-types", "mfa-required"}

MethodsFact   == "entra.authentication_methods_policy"
PoliciesFact  == "entra.conditional_access_policies"
StrengthsFact == "entra.authentication_strength_policies"

\* Microsoft Graph's collections.
Endpoints == {"methods", "policies", "strengths"}

-----------------------------------------------------------------------------
(* Collection.                                                             *)

\* What Graph answers: `garbled` endpoints send no JSON, `skipped` ones an error
\* body, `hidden` ones a first page that names the next.
Answers(endpoint, items, blind) ==
  IF endpoint \in blind.garbled \cup blind.skipped THEN {}
  ELSE IF endpoint \in blind.hidden THEN {i \in items : i.page = 1}
  ELSE items

\* The role before it looked for a next page.
CollectEntraIdFirstPage(w, blind) ==
  LET listFact(key, endpoint, items) ==
        Record(key, endpoint \in blind.garbled, Answers(endpoint, items, blind))
      answered == "methods" \notin blind.garbled \cup blind.skipped
  IN  Merged(
        Record(MethodsFact, "methods" \in blind.garbled,
          [configurations |-> IF answered THEN w.methods ELSE {}]),
        Merged(listFact(PoliciesFact, "policies", w.policies),
               listFact(StrengthsFact, "strengths", w.strengths)))

\* The role: partial without JSON, and with a next page.  An error body is JSON
\* with no values in it.  Only the collections have pages.
CollectEntraId(w, blind) ==
  LET listFact(key, endpoint, items) ==
        Record(key, endpoint \in blind.garbled \/ endpoint \in blind.hidden \ blind.skipped,
               Answers(endpoint, items, blind))
      answered == "methods" \notin blind.garbled \cup blind.skipped
  IN  Merged(
        Record(MethodsFact, "methods" \in blind.garbled,
          [configurations |-> IF answered THEN w.methods ELSE {}]),
        Merged(listFact(PoliciesFact, "policies", w.policies),
               listFact(StrengthsFact, "strengths", w.strengths)))

-----------------------------------------------------------------------------
(* The evaluators.                                                         *)

\* multi_factor_authentication_factors: one method, a code sent by mail, is
\* disallowed.
MfaFactorTypes(facts) ==
  LET configurations == facts[MethodsFact].value.configurations
  IN  IF MethodsFact \notin DOMAIN facts THEN CannotTell("collection-error")
      ELSE IF facts[MethodsFact].partial THEN CannotTell("partial-population")
      ELSE IF configurations = {} THEN CannotTell("collection-error")
      ELSE IF \E m \in configurations : m.id = "email" /\ m.enabled
      THEN NotSatisfied("proxy", {MethodsFact})
      ELSE Satisfied("proxy", {MethodsFact})

\* _grants_mfa: the grant names MFA, or a strength that was read.
GrantsMfa(policy, strengths) == policy.mfa \/ policy.strength \in {s.id : s \in strengths}

\* _targets_everyone.
TargetsEveryone(policy) == policy.allUsers /\ policy.allApps /\ policy.excluded <= MaxExcluded

\* A policy in report-only mode enforces nothing.
Enforcing(policies) == {p \in policies : p.state = "enabled"}

\* mfa_required_for_organisation_services.  require_phishing_resistant is off.
MfaRequired(facts) ==
  LET strengths  == IF StrengthsFact \in DOMAIN facts THEN facts[StrengthsFact].value ELSE {}
      qualifying == {p \in Enforcing(facts[PoliciesFact].value) :
                       TargetsEveryone(p) /\ GrantsMfa(p, strengths)}
      cites      == {PoliciesFact, StrengthsFact} \cap DOMAIN facts
  IN  IF PoliciesFact \notin DOMAIN facts THEN CannotTell("collection-error")
      ELSE IF facts[PoliciesFact].partial THEN CannotTell("partial-population")
      ELSE IF qualifying # {} THEN Satisfied("proxy", cites)
      ELSE NotSatisfied("proxy", cites)

EntraJudge(c, facts) ==
  CASE c = "mfa-factor-types" -> MfaFactorTypes(facts)
    [] c = "mfa-required"     -> MfaRequired(facts)

=============================================================================
