------------------------- MODULE WorkflowProperties -------------------------
(***************************************************************************)
(* What the nightly workflow promises.  Most of it holds when no two runs  *)
(* share an identifier (UniqueRunIds).  Nothing under aap/ sets            *)
(* CCA_RUN_ID, so that every run of the shipped workflow is called         *)
(* "local"; the last part says what becomes of the promises then.          *)
(***************************************************************************)
EXTENDS Workflow

\* No run finds the bundle directory of an earlier one.
UniqueRunIds == \A i, j \in 1..MaxRuns : RunIdOf[i] = RunIdOf[j] => i = j

\* The subjects whose bundle the current run's own collection wrote.
Reached == {h \in Hosts : host[h] = "written"}

\* Every variable holds what the code and the controller keep there.
TypeOK ==
  /\ run \in 0..MaxRuns
  /\ phase \in {"idle", "collecting", "gate", "evaluate"}
  /\ phase # "idle" => run > 0
  /\ scope \in SUBSET Hosts
  /\ override \in {"false", "true"}
  /\ job \in [Nodes -> {"waiting", "running", "finished", "failed"}]
  /\ phase # "collecting" => \A n \in Nodes : job[n] # "running"
  /\ host \in [Hosts -> {"unselected", "collecting", "written", "failed", "lost"}]
  /\ done \in [Hosts -> Nat]
  /\ store \in [RunIds -> [Hosts -> 0..run]]
  /\ published.run \in 0..run
  /\ published.bundles \subseteq Hosts \X (0..published.run)

\* A published assessment rests on bundles of its own run alone: never on one
\* an earlier run left in the store, which nothing clears
\* (fact_bundle/tasks/finalise.yml, playbooks/evaluate.yml 41-45).
EvidenceIsFromThisRun ==
  \A b \in published.bundles : b[2] = published.run

\* The bundle store belongs to nobody but the run that is under way: what the
\* gate and the evaluation find is what this run's collection wrote.
FoundIsReached == phase # "idle" => Found = Reached

\* The gate's figures are still true when the evaluation starts: nobody writes
\* a bundle between the count and the use (workflows.yml 23-26, converge).
GateSpeaksOfWhatIsEvaluated ==
  phase = "evaluate" => /\ gate.run = run
                        /\ gate.collected = Cardinality(Found)

\* One host failing takes no other host with it (collect.yml 17): when a job
\* has finished, every host it selected has its bundle or failed by itself.
FailuresAreIsolated ==
  phase \in {"gate", "evaluate"} =>
    \A n \in Nodes : job[n] = "finished" =>
      \A h \in Selected(n) : host[h] = "failed" \/ h \in Found

\* An assessment nobody overrode the gate for is published only when the run
\* itself reached the threshold's share of the inventory, a twentieth of a
\* percent aside (coverage_gate.yml 71-83, workflows.yml success_nodes).
PublishedOnlyWhenReached ==
  [][published' # published =>
       override = "true"
         \/ 2000 * Cardinality(Reached) + Cardinality(scope)
              >= 20 * MinCoverage * Cardinality(scope)]_vars

\* A subject that was not reached shows: the total that an assessment is given
\* exceeds the subjects it has evidence of by exactly those of the inventory that
\* this run did not reach, so that no partial run reads as full coverage
\* (coverage_gate.yml 4-6, 92-100; evaluate.yml 27-29; surveys.yml 3-5).
UnreachedSubjectsShow ==
  [][published' # published =>
       published'.total - Cardinality({b[1] : b \in published'.bundles})
         = Cardinality(scope \ Reached)]_vars

\* A run that was launched ends, published or refused or dead; a platform
\* whose job died does not hold it up (always_nodes).
RunEnds == phase # "idle" ~> phase = "idle"

-----------------------------------------------------------------------------
(* The workflow keeps an evidence ledger.                                  *)

Ledger == INSTANCE EvidenceLedger WITH
  Subjects <- Hosts,
  current  <- run,
  open     <- phase # "idle",
  observed <- Reached,
  ledger   <- [run      |-> published.run,
               subjects |-> {b[1] : b \in published.bundles}]

\* Every run publishes all that it observed, and only that, or nothing; and
\* it does one or the other.
LedgerIsKept == Ledger!FairSpec

-----------------------------------------------------------------------------
(* What the documentation says and the workflow does not do.               *)

\* playbooks/collect.yml 10-11 and workflows.yml 6: tenants are collected, all
\* tiers are.  No node's limit selects a tenant, and the gate counts it.
HealthyEstateIsCovered ==
  (/\ phase = "gate"
   /\ \A n \in Nodes : job[n] = "finished"
   /\ \A h \in scope : host[h] # "failed")
  => scope \subseteq Found

=============================================================================
