----------------------------- MODULE StandAlone ------------------------------
(***************************************************************************)
(* playbooks/assess.yml, as the README's quick start runs it: collect.yml  *)
(* and then evaluate.yml, with no gate between them and nobody but         *)
(* evaluate.yml to say what the population is.                             *)
(*                                                                         *)
(* An operator may name a target.  To Ansible it is a pattern: a group, a  *)
(* host, a list with exclusions.  To evaluate.yml it is a key of `groups`. *)
(***************************************************************************)
EXTENDS Integers, FiniteSets

CONSTANTS
  Groups,    \* the inventory: the hosts of each group
  Patterns,  \* the hosts of each pattern an operator may give; none is a tenant's,
             \* for tenants have a play of their own
  MaxRuns    \* bound: runs of the playbook

NoTarget == "undefined"

Hosts == Groups["all"]

VARIABLES
  runs,       \* how often the playbook was started
  play,       \* the play it is in
  target,     \* cca_target
  host,       \* per host, how its collection stands
  store,      \* the hosts that have a bundle under the run's directory
  published   \* the last assessment: its total, and the subjects it has evidence of

vars == <<runs, play, target, host, store, published>>

NothingPublished == [total |-> 0, subjects |-> {}, missed |-> {}]

\* The hosts of the two collection plays.
Endpoints == IF target = NoTarget THEN Hosts \ Groups["entra_tenants"] ELSE Patterns[target]
Tenants   == Groups["entra_tenants"]

InPlay(p) == CASE p = "endpoints" -> Endpoints
               [] p = "tenants"   -> Tenants
               [] OTHER           -> {}

\* The hosts this run set out to assess.
InScope == Endpoints \cup Tenants

\* groups[cca_target | default('all')] | default([]) | length.
PopulationTotal ==
  LET name == IF target = NoTarget THEN "all" ELSE target
  IN  IF name \in DOMAIN Groups THEN Cardinality(Groups[name]) ELSE 0

\* What emit.py makes of the total it is given, for a control that every bundle
\* determines.
ReportedTotal(assessed) ==
  IF PopulationTotal > Cardinality(assessed) THEN PopulationTotal ELSE Cardinality(assessed)

Init ==
  /\ runs = 0
  /\ play = "none"
  /\ target = NoTarget
  /\ host = [h \in Hosts |-> "waiting"]
  /\ store = {}
  /\ published = NothingPublished

Start ==
  /\ play = "none"
  /\ runs < MaxRuns
  /\ runs' = runs + 1
  /\ target' \in DOMAIN Patterns \cup {NoTarget}
  /\ host' = [h \in Hosts |-> "waiting"]
  /\ play' = "endpoints"
  /\ UNCHANGED <<store, published>>

\* A host whose turn it is.
MayCollect(h) == h \in InPlay(play) /\ host[h] = "waiting"

HostIsWritten(h) ==
  /\ MayCollect(h)
  /\ host' = [host EXCEPT ![h] = "written"]
  /\ store' = store \cup {h}
  /\ UNCHANGED <<runs, play, target, published>>

HostDrops(h) ==
  /\ MayCollect(h)
  /\ host' = [host EXCEPT ![h] = "failed"]
  /\ UNCHANGED <<runs, play, target, store, published>>

\* A play is over when nobody is left in it.  Ansible ends the playbook with a
\* play in which every host failed.
PlayEnds ==
  /\ play \in {"endpoints", "tenants"}
  /\ \A h \in InPlay(play) : host[h] # "waiting"
  /\ play' = IF InPlay(play) # {} /\ \A h \in InPlay(play) : host[h] = "failed"
             THEN "none"
             ELSE IF play = "endpoints" THEN "tenants" ELSE "evaluate"
  /\ UNCHANGED <<runs, target, host, store, published>>

\* evaluate.yml, over whatever bundles there are.
Evaluate ==
  /\ play = "evaluate"
  /\ store # {}
  /\ published' = [total    |-> ReportedTotal(store),
                   subjects |-> store,
                   missed   |-> {h \in InScope : host[h] # "written"}]
  /\ play' = "none"
  /\ UNCHANGED <<runs, target, host, store>>

\* There is none, or nobody said which system this is about.
EvaluateRefuses ==
  /\ play = "evaluate"
  /\ play' = "none"
  /\ UNCHANGED <<runs, target, host, store, published>>

Next ==
  \/ Start
  \/ \E h \in Hosts : HostIsWritten(h) \/ HostDrops(h)
  \/ PlayEnds
  \/ Evaluate \/ EvaluateRefuses

Spec == Init /\ [][Next]_vars

-----------------------------------------------------------------------------
\* "Omitting it lets an unreachable-host sample render as full coverage": while
\* a host of the run's scope was not reached, the population is larger than the
\* number of subjects there is evidence of.  playbooks/evaluate.yml 27-29
UnreachedIsNotFullCoverage ==
  published.missed # {} => published.total > Cardinality(published.subjects)

=============================================================================
