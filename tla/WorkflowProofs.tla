--------------------------- MODULE WorkflowProofs ---------------------------
(***************************************************************************)
(* The workflow for every inventory, every number of nodes and of runs.    *)
(*                                                                         *)
(* What keeps an assessment to its own evidence is not any guard: it is    *)
(* that a bundle directory tells its run, so that nothing is found in it   *)
(* but what the current collection put there.  StoreTellsItsRun is that    *)
(* fact as an invariant, and it is where UniqueRunIds is needed.           *)
(***************************************************************************)
EXTENDS WorkflowProperties, CoverageGateLemmas, FiniteSetTheorems

-----------------------------------------------------------------------------
(* Types.                                                                  *)

\* A host that takes part in a collection is in scope and has a node.
HostsHaveNodes ==
  \A h \in Hosts : host[h] # "unselected" => h \in scope /\ NodeOf[h] \in Nodes

TypeInv == TypeOK /\ HostsHaveNodes

LEMMA TypeInvInit == Init => TypeInv
<1> SUFFICES ASSUME Init PROVE TypeInv
  OBVIOUS
<1> USE EstateAssumption DEF EstateAssumption, Init
<1>1. run \in 0..MaxRuns /\ phase \in {"idle", "collecting", "gate", "evaluate"}
  OBVIOUS
<1>2. scope \in SUBSET Hosts /\ override \in {"false", "true"}
  OBVIOUS
<1>3. /\ job \in [Nodes -> {"waiting", "running", "finished", "failed"}]
      /\ \A n \in Nodes : job[n] # "running"
  OBVIOUS
<1>4. host \in [Hosts -> {"unselected", "collecting", "written", "failed", "lost"}]
  OBVIOUS
<1>5. done \in [Hosts -> Nat]
  OBVIOUS
<1>6. store \in [RunIds -> [Hosts -> 0..run]]
  BY DEF NoBundle
<1>7. published.run \in 0..run /\ published.bundles = {}
  BY DEF NothingPublished
<1>8. HostsHaveNodes
  BY DEF HostsHaveNodes
<1>9. TypeOK
  BY <1>1, <1>2, <1>3, <1>4, <1>5, <1>6, <1>7 DEF TypeOK
<1> QED
  BY <1>8, <1>9 DEF TypeInv

LEMMA TypeInvStep == TypeInv /\ [Next]_vars => TypeInv'
<1> SUFFICES ASSUME TypeInv, [Next]_vars PROVE TypeInv'
  OBVIOUS
<1> USE EstateAssumption DEF EstateAssumption
<1>1. CASE Launch
  <2>1. host' \in [Hosts -> {"unselected", "collecting", "written", "failed", "lost"}]
    BY <1>1 DEF Launch
  <2>2. store' \in [RunIds -> [Hosts -> 0..run']]
    BY <1>1 DEF Launch, TypeInv, TypeOK
  <2>3. HostsHaveNodes'
    BY <1>1 DEF Launch, HostsHaveNodes
  <2>4. published' = published /\ run \in Nat /\ run' = run + 1
    BY <1>1 DEF Launch, TypeInv, TypeOK
  <2>5. /\ published'.run \in 0..run'
        /\ published'.bundles \subseteq Hosts \X (0..published'.run)
    BY <2>4 DEF TypeInv, TypeOK
  <2>6. run' \in 0..MaxRuns /\ phase' = "collecting" /\ scope' \in SUBSET Hosts
        /\ override' \in {"false", "true"}
    BY <1>1, <2>4 DEF Launch, TypeInv, TypeOK
  <2>7. /\ job' \in [Nodes -> {"waiting", "running", "finished", "failed"}]
        /\ done' \in [Hosts -> Nat]
    BY <1>1 DEF Launch
  <2>8. phase' # "idle" => run' > 0
    BY <2>4
  <2>9. phase' # "collecting" => \A n \in Nodes : job'[n] # "running"
    BY <2>6
  <2>10. TypeOK'
    BY <2>1, <2>2, <2>5, <2>6, <2>7, <2>8, <2>9 DEF TypeOK
  <2> QED
    BY <2>3, <2>10 DEF TypeInv
<1>2. ASSUME NEW h \in Hosts, RoleSucceeds(h) PROVE TypeInv'
  <2>1. done' \in [Hosts -> Nat]
    BY <1>2 DEF RoleSucceeds, TypeInv, TypeOK
  <2> QED
    BY <1>2, <2>1 DEF RoleSucceeds, TypeInv, TypeOK, HostsHaveNodes
<1>3. ASSUME NEW h \in Hosts, HostDrops(h) PROVE TypeInv'
  BY <1>3 DEF HostDrops, MayStep, TypeInv, TypeOK, HostsHaveNodes
<1>4. ASSUME NEW h \in Hosts, WriteBundle(h) PROVE TypeInv'
  <2>1. phase # "idle"
    BY <1>4 DEF WriteBundle, MayStep, TypeInv, TypeOK, HostsHaveNodes
  <2>2. RunId \in RunIds /\ run \in 0..run
    <3>1. run \in 1..MaxRuns
      BY <2>1 DEF TypeInv, TypeOK
    <3> QED
      BY <3>1 DEF RunId
  <2>3. store' \in [RunIds -> [Hosts -> 0..run]]
    BY <1>4, <2>2 DEF WriteBundle, TypeInv, TypeOK
  <2>4. host' \in [Hosts -> {"unselected", "collecting", "written", "failed", "lost"}]
    BY <1>4 DEF WriteBundle, TypeInv, TypeOK
  <2>5. HostsHaveNodes'
    BY <1>4 DEF WriteBundle, MayStep, TypeInv, TypeOK, HostsHaveNodes
  <2> QED
    BY <1>4, <2>3, <2>4, <2>5 DEF WriteBundle, TypeInv, TypeOK
<1>5. ASSUME NEW n \in Nodes, DirectoryFails(n) PROVE TypeInv'
  BY <1>5 DEF DirectoryFails, Collecting, Selected, TypeInv, TypeOK, HostsHaveNodes
<1>6. ASSUME NEW n \in Nodes, JobEnds(n) PROVE TypeInv'
  BY <1>6 DEF JobEnds, TypeInv, TypeOK, HostsHaveNodes
<1>7. ASSUME NEW n \in Nodes, JobDies(n) PROVE TypeInv'
  BY <1>7 DEF JobDies, Collecting, Selected, TypeInv, TypeOK, HostsHaveNodes
<1>8. CASE Converge
  BY <1>8 DEF Converge, TypeInv, TypeOK, HostsHaveNodes
<1>9. CASE GatePasses
  BY <1>9 DEF GatePasses, TypeInv, TypeOK, HostsHaveNodes
<1>10. CASE GateRefuses
  BY <1>10 DEF GateRefuses, TypeInv, TypeOK, HostsHaveNodes
<1>11. CASE Evaluate
  <2>1. RunId \in RunIds /\ run \in Nat
    BY <1>11 DEF Evaluate, TypeInv, TypeOK, RunId
  <2>2. /\ published'.run = run
        /\ published'.bundles = {<<h, store[RunId][h]>> : h \in Found}
    BY <1>11 DEF Evaluate
  <2>3. \A h \in Found : <<h, store[RunId][h]>> \in Hosts \X (0..run)
    BY <2>1 DEF Found, TypeInv, TypeOK
  <2>4. published'.bundles \subseteq Hosts \X (0..published'.run)
    BY <2>2, <2>3
  <2> QED
    BY <1>11, <2>1, <2>2, <2>4 DEF Evaluate, TypeInv, TypeOK, HostsHaveNodes
<1>12. CASE EvaluateRefuses
  BY <1>12 DEF EvaluateRefuses, TypeInv, TypeOK, HostsHaveNodes
<1>13. CASE NodeDies
  BY <1>13 DEF NodeDies, TypeInv, TypeOK, HostsHaveNodes
<1>14. CASE UNCHANGED vars
  BY <1>14 DEF vars, TypeInv, TypeOK, HostsHaveNodes
<1> QED
  BY <1>1, <1>2, <1>3, <1>4, <1>5, <1>6, <1>7, <1>8, <1>9, <1>10, <1>11, <1>12,
     <1>13, <1>14 DEF Next, Collect

LEMMA TypeInvAlways == Spec => []TypeInv
BY TypeInvInit, TypeInvStep, PTL DEF Spec

\* Every variable of the workflow keeps to its type, whatever the estate.
THEOREM TypeCorrect == Spec => []TypeOK
BY TypeInvAlways, PTL DEF TypeInv

-----------------------------------------------------------------------------
(* Who is where in a collection.                                           *)

\* A job that has ended has nobody collecting; who was lost, was lost with its
\* job; while a run is under way every host with a node is in its collection.
CollectionInv ==
  /\ \A h \in Hosts : host[h] = "collecting" => job[NodeOf[h]] = "running"
  /\ \A h \in Hosts : host[h] = "lost" => job[NodeOf[h]] = "failed"
  /\ phase # "idle" =>
       \A h \in scope : NodeOf[h] \in Nodes => host[h] # "unselected"

LEMMA CollectionInvStep ==
  TypeInv /\ CollectionInv /\ [Next]_vars => CollectionInv'
<1> SUFFICES ASSUME TypeInv, CollectionInv, [Next]_vars PROVE CollectionInv'
  OBVIOUS
<1> USE EstateAssumption DEF EstateAssumption
<1>1. CASE Launch
  BY <1>1 DEF Launch, CollectionInv
<1>2. ASSUME NEW h \in Hosts, RoleSucceeds(h) PROVE CollectionInv'
  BY <1>2 DEF RoleSucceeds, CollectionInv
<1>3. ASSUME NEW h \in Hosts, HostDrops(h) PROVE CollectionInv'
  BY <1>3 DEF HostDrops, MayStep, CollectionInv, TypeInv, TypeOK
<1>4. ASSUME NEW h \in Hosts, WriteBundle(h) PROVE CollectionInv'
  BY <1>4 DEF WriteBundle, MayStep, CollectionInv, TypeInv, TypeOK
<1>5. ASSUME NEW n \in Nodes,
             job[n] = "running",
             host' = [h \in Hosts |-> IF h \in Collecting(n) THEN "lost" ELSE host[h]],
             job' = [job EXCEPT ![n] = "failed"],
             UNCHANGED <<phase, scope>>
      PROVE  CollectionInv'
  BY <1>5 DEF Collecting, Selected, CollectionInv, TypeInv, TypeOK, HostsHaveNodes
<1>6. ASSUME NEW n \in Nodes, JobEnds(n) PROVE CollectionInv'
  <2>1. \A h \in Hosts : host[h] = "collecting" => NodeOf[h] # n
    BY <1>6 DEF JobEnds, Collecting, Selected, TypeInv, HostsHaveNodes
  <2>2. \A h \in Hosts : host[h] = "lost" => NodeOf[h] # n
    BY <1>6 DEF JobEnds, CollectionInv
  <2> QED
    BY <1>6, <2>1, <2>2 DEF JobEnds, CollectionInv, TypeInv, TypeOK, HostsHaveNodes
<1>7. CASE Converge \/ GatePasses \/ GateRefuses \/ Evaluate \/ EvaluateRefuses \/ NodeDies
  <2>1. /\ UNCHANGED <<scope, job, host>>
        /\ phase # "idle"
    BY <1>7 DEF Converge, GatePasses, GateRefuses, Evaluate, EvaluateRefuses, NodeDies
  <2> QED
    BY <2>1 DEF CollectionInv
<1>8. CASE UNCHANGED vars
  BY <1>8 DEF vars, CollectionInv
<1> QED
  BY <1>1, <1>2, <1>3, <1>4, <1>5, <1>6, <1>7, <1>8
     DEF Next, Collect, DirectoryFails, JobDies

LEMMA CollectionInvAlways == Spec => []CollectionInv
<1>1. Init => CollectionInv
  BY DEF Init, CollectionInv
<1> QED
  BY <1>1, CollectionInvStep, TypeInvAlways, PTL DEF Spec

-----------------------------------------------------------------------------
(* The store.                                                              *)

\* A bundle is the work of a run that was called as its directory is; the
\* bundles of this run are those of the hosts that were written.
StoreTellsItsRun ==
  /\ \A i \in RunIds, h \in Hosts :
       store[i][h] # NoBundle =>
         store[i][h] \in 1..run /\ RunIdOf[store[i][h]] = i
  /\ phase # "idle" =>
       \A h \in Hosts : store[RunId][h] = run <=> host[h] = "written"

LEMMA StoreTellsItsRunStep ==
  TypeInv /\ StoreTellsItsRun /\ [Next]_vars => StoreTellsItsRun'
<1> SUFFICES ASSUME TypeInv, StoreTellsItsRun, [Next]_vars PROVE StoreTellsItsRun'
  OBVIOUS
<1> USE EstateAssumption DEF EstateAssumption, NoBundle
<1>1. CASE Launch
  <2>1. /\ run \in Nat /\ run' = run + 1 /\ run' \in 1..MaxRuns
        /\ store' = store
        /\ RunId' \in RunIds
    BY <1>1 DEF Launch, TypeInv, TypeOK, RunId
  <2>2. \A i \in RunIds, h \in Hosts : store[i][h] \in 0..run
    BY DEF TypeInv, TypeOK
  <2>3. \A h \in Hosts : store'[RunId'][h] # run' /\ host'[h] # "written"
    BY <1>1, <2>1, <2>2 DEF Launch
  <2>4. \A i \in RunIds, h \in Hosts :
          store'[i][h] # 0 => store'[i][h] \in 1..run' /\ RunIdOf[store'[i][h]] = i
    BY <2>1, <2>2 DEF StoreTellsItsRun
  <2> QED
    BY <2>3, <2>4 DEF StoreTellsItsRun
<1>2. ASSUME NEW h \in Hosts, WriteBundle(h) PROVE StoreTellsItsRun'
  <2>1. /\ phase # "idle" /\ run' = run /\ phase' = phase /\ RunId' = RunId
        /\ store' = [store EXCEPT ![RunId][h] = run]
        /\ host' = [host EXCEPT ![h] = "written"]
    BY <1>2 DEF WriteBundle, MayStep, RunId, TypeInv, TypeOK, HostsHaveNodes
  <2>2. run \in 1..MaxRuns /\ run \in 1..run /\ RunId \in RunIds
    BY <2>1 DEF TypeInv, TypeOK, RunId
  <2>3. \A i \in RunIds, g \in Hosts :
          store'[i][g] = IF i = RunId /\ g = h THEN run ELSE store[i][g]
    BY <2>1, <2>2 DEF TypeInv, TypeOK
  <2>4. \A g \in Hosts : host'[g] = IF g = h THEN "written" ELSE host[g]
    BY <2>1 DEF TypeInv, TypeOK
  <2>5. \A i \in RunIds, g \in Hosts :
          store'[i][g] # 0 => store'[i][g] \in 1..run' /\ RunIdOf[store'[i][g]] = i
    BY <2>1, <2>2, <2>3 DEF StoreTellsItsRun, RunId
  <2>6. \A g \in Hosts : store'[RunId'][g] = run' <=> host'[g] = "written"
    BY <2>1, <2>2, <2>3, <2>4 DEF StoreTellsItsRun
  <2> QED
    BY <2>5, <2>6 DEF StoreTellsItsRun
<1>3. ASSUME UNCHANGED <<run, store>>,
             phase # "idle" \/ phase' = phase,
             \A h \in Hosts : host'[h] = "written" <=> host[h] = "written"
      PROVE  StoreTellsItsRun'
  <2>1. RunId' = RunId
    BY <1>3 DEF RunId
  <2> QED
    BY <1>3, <2>1 DEF StoreTellsItsRun
<1>4. ASSUME NEW h \in Hosts, RoleSucceeds(h) PROVE StoreTellsItsRun'
  BY <1>3, <1>4 DEF RoleSucceeds
<1>5. ASSUME NEW h \in Hosts, HostDrops(h) PROVE StoreTellsItsRun'
  BY <1>3, <1>5 DEF HostDrops, MayStep, TypeInv, TypeOK
<1>6. ASSUME NEW n \in Nodes, DirectoryFails(n) \/ JobEnds(n) \/ JobDies(n)
      PROVE  StoreTellsItsRun'
  BY <1>3, <1>6 DEF DirectoryFails, JobEnds, JobDies, Collecting
<1>7. CASE Converge \/ GatePasses \/ GateRefuses \/ Evaluate \/ EvaluateRefuses \/ NodeDies
  BY <1>3, <1>7 DEF Converge, GatePasses, GateRefuses, Evaluate, EvaluateRefuses, NodeDies
<1>8. CASE UNCHANGED vars
  BY <1>3, <1>8 DEF vars
<1> QED
  BY <1>1, <1>2, <1>4, <1>5, <1>6, <1>7, <1>8 DEF Next, Collect

LEMMA StoreTellsItsRunAlways == Spec => []StoreTellsItsRun
<1>1. Init => StoreTellsItsRun
  BY EstateAssumption DEF EstateAssumption, Init, StoreTellsItsRun, NoBundle
<1> QED
  BY <1>1, StoreTellsItsRunStep, TypeInvAlways, PTL DEF Spec

-----------------------------------------------------------------------------
(* What follows, where no two runs share an identifier.                    *)

\* A bundle found in the directory of a run that has its identifier to itself
\* is a bundle of that run.
LEMMA FoundIsOfThisRun ==
  ASSUME UniqueRunIds, TypeInv, StoreTellsItsRun, phase # "idle"
  PROVE  \A h \in Hosts : store[RunId][h] # NoBundle <=> store[RunId][h] = run
<1>1. run \in 1..MaxRuns /\ run # NoBundle /\ RunId \in RunIds
  BY EstateAssumption DEF EstateAssumption, TypeInv, TypeOK, RunId, NoBundle
<1>2. \A h \in Hosts : store[RunId][h] # NoBundle => store[RunId][h] = run
  BY <1>1, EstateAssumption
     DEF EstateAssumption, UniqueRunIds, StoreTellsItsRun, RunId
<1> QED
  BY <1>1, <1>2

LEMMA FoundIsReachedHere ==
  ASSUME UniqueRunIds, TypeInv, StoreTellsItsRun
  PROVE  FoundIsReached
BY FoundIsOfThisRun DEF StoreTellsItsRun, FoundIsReached, Found, Reached

\* Whatever the inventory and however its jobs end: what the gate counts and
\* the evaluation reads is what the current run collected.
THEOREM FoundIsReachedAlways ==
  ASSUME UniqueRunIds PROVE Spec => []FoundIsReached
BY FoundIsReachedHere, TypeInvAlways, StoreTellsItsRunAlways, PTL

\* No assessment rests on a bundle of an earlier run.
THEOREM EvidenceIsFromThisRunAlways ==
  ASSUME UniqueRunIds PROVE Spec => []EvidenceIsFromThisRun
<1>1. Init => EvidenceIsFromThisRun
  BY DEF Init, NothingPublished, EvidenceIsFromThisRun
<1>2. /\ TypeInv /\ StoreTellsItsRun
      /\ EvidenceIsFromThisRun /\ [Next]_vars
      => EvidenceIsFromThisRun'
  <2> SUFFICES ASSUME TypeInv, StoreTellsItsRun, EvidenceIsFromThisRun, [Next]_vars
               PROVE  EvidenceIsFromThisRun'
    OBVIOUS
  <2>1. CASE Evaluate
    <3>1. /\ published'.run = run
          /\ published'.bundles = {<<h, store[RunId][h]>> : h \in Found}
          /\ phase # "idle"
      BY <2>1 DEF Evaluate
    <3>2. \A h \in Found : store[RunId][h] = run
      BY <3>1, FoundIsOfThisRun DEF Found
    <3> QED
      BY <3>1, <3>2 DEF EvidenceIsFromThisRun
  <2>2. CASE UNCHANGED published
    BY <2>2 DEF EvidenceIsFromThisRun
  <2> QED
    BY <2>1, <2>2
       DEF Next, vars, Launch, Collect, RoleSucceeds, HostDrops, WriteBundle,
           DirectoryFails, JobEnds, JobDies, Converge, GatePasses, GateRefuses,
           EvaluateRefuses, NodeDies
<1> QED
  BY <1>1, <1>2, TypeInvAlways, StoreTellsItsRunAlways, PTL DEF Spec

\* In a job that ran to its end every host has its bundle or failed by itself,
\* whatever became of the others and of the other jobs.
THEOREM FailuresAreIsolatedAlways ==
  ASSUME UniqueRunIds PROVE Spec => []FailuresAreIsolated
<1>1. TypeInv /\ CollectionInv /\ FoundIsReached => FailuresAreIsolated
  <2> SUFFICES ASSUME TypeInv, CollectionInv, FoundIsReached,
                      phase \in {"gate", "evaluate"},
                      NEW n \in Nodes, job[n] = "finished",
                      NEW h \in Selected(n)
               PROVE  host[h] = "failed" \/ h \in Found
    BY DEF FailuresAreIsolated
  <2>1. h \in Hosts /\ h \in scope /\ NodeOf[h] = n
    BY DEF Selected, TypeInv, TypeOK
  <2>2. host[h] \in {"written", "failed"}
    BY <2>1 DEF CollectionInv, TypeInv, TypeOK
  <2> QED
    BY <2>1, <2>2 DEF FoundIsReached, Reached
<1> QED
  BY <1>1, FoundIsReachedAlways, TypeInvAlways, CollectionInvAlways, PTL

-----------------------------------------------------------------------------
(* The gate in the workflow.                                               *)

\* The gate's figures are those of the inventory and of what the evaluation then
\* finds, and they met the threshold or were overridden.
GateInv ==
  phase = "evaluate" =>
    /\ gate.run = run
    /\ gate.inScope = Cardinality(scope)
    /\ gate.collected = Cardinality(Found)
    /\ \/ override = "true"
       \/ 2000 * Cardinality(Found) + Cardinality(scope)
            >= 20 * MinCoverage * Cardinality(scope)

\* The hosts in scope and those found can be counted.
LEMMA EstateIsFinite ==
  ASSUME TypeInv
  PROVE  /\ Cardinality(Found) \in Nat
         /\ Cardinality(scope) \in Nat
         /\ scope # {} => Cardinality(scope) \in Nat \ {0}
<1>1. IsFiniteSet(Hosts) /\ scope \in SUBSET Hosts /\ Found \in SUBSET Hosts
  BY EstateAssumption DEF EstateAssumption, TypeInv, TypeOK, Found
<1>2. IsFiniteSet(scope) /\ IsFiniteSet(Found)
  BY <1>1, FS_Subset
<1> QED
  BY <1>2, FS_CardinalityType, FS_EmptySet

LEMMA GateInvStep == TypeInv /\ GateInv /\ [Next]_vars => GateInv'
<1> SUFFICES ASSUME TypeInv, GateInv, [Next]_vars, phase' = "evaluate"
             PROVE  GateInv'
  BY DEF GateInv
<1>1. CASE GatePasses
  <2>1. /\ UNCHANGED <<run, scope, override, store>>
        /\ gate'.run = run /\ gate'.inScope = Cardinality(scope)
        /\ gate'.collected = Cardinality(Found)
    BY <1>1 DEF GatePasses
  <2>2. Found' = Found
    BY <2>1 DEF Found, RunId
  <2>3. CASE override # "true"
    <3>1. PICK tenths \in Tenths(Cardinality(Found), Cardinality(scope)) :
            Meets(tenths, MinCoverage)
      BY <1>1, <2>3 DEF GatePasses
    <3>2. Cardinality(Found) \in Nat /\ Cardinality(scope) \in Nat \ {0}
      BY <1>1, EstateIsFinite DEF GatePasses
    <3>3. MinCoverage \in Nat
      BY EstateAssumption DEF EstateAssumption
    <3>4. 2000 * Cardinality(Found) + Cardinality(scope)
            >= 20 * MinCoverage * Cardinality(scope)
      BY <3>1, <3>2, <3>3, MeetingIsEarned
    <3> QED
      BY <2>1, <2>2, <3>4 DEF GateInv
  <2> QED
    BY <2>1, <2>2, <2>3 DEF GateInv
<1>2. CASE phase = "evaluate" /\ UNCHANGED <<run, scope, override, store, gate>>
  <2>1. Found' = Found
    BY <1>2 DEF Found, RunId
  <2> QED
    BY <1>2, <2>1 DEF GateInv
<1>3. ASSUME NEW h \in Hosts, WriteBundle(h) PROVE FALSE
  BY <1>3 DEF WriteBundle, MayStep, TypeInv, TypeOK, HostsHaveNodes
<1> QED
  BY <1>1, <1>2, <1>3
     DEF Next, vars, Launch, Collect, RoleSucceeds, HostDrops,
         DirectoryFails, JobEnds, JobDies, Converge, GateRefuses, Evaluate,
         EvaluateRefuses, NodeDies

LEMMA GateInvAlways == Spec => []GateInv
<1>1. Init => GateInv
  BY DEF Init, GateInv
<1> QED
  BY <1>1, GateInvStep, TypeInvAlways, PTL DEF Spec

\* No bundle is written between the gate's count and the evaluation, whatever
\* runs are called.
THEOREM GateSpeaksOfWhatIsEvaluatedAlways == Spec => []GateSpeaksOfWhatIsEvaluated
<1>1. GateInv => GateSpeaksOfWhatIsEvaluated
  BY DEF GateInv, GateSpeaksOfWhatIsEvaluated
<1> QED
  BY <1>1, GateInvAlways, PTL

\* An assessment nobody overrode the gate for stands on the threshold's share
\* of the inventory, reached by the run itself.
THEOREM PublishedOnlyWhenReachedAlways ==
  ASSUME UniqueRunIds PROVE Spec => PublishedOnlyWhenReached
<1> DEFINE Earned == published' # published =>
             override = "true"
               \/ 2000 * Cardinality(Reached) + Cardinality(scope)
                    >= 20 * MinCoverage * Cardinality(scope)
<1>1. GateInv /\ FoundIsReached /\ [Next]_vars => [Earned]_vars
  <2> SUFFICES ASSUME GateInv, FoundIsReached, [Next]_vars, published' # published
               PROVE  Earned
    OBVIOUS
  <2>1. Evaluate
    BY DEF Next, vars, Launch, Collect, RoleSucceeds, HostDrops, WriteBundle,
           DirectoryFails, JobEnds, JobDies, Converge, GatePasses, GateRefuses,
           EvaluateRefuses, NodeDies
  <2>2. phase = "evaluate"
    BY <2>1 DEF Evaluate
  <2>3. Found = Reached
    BY <2>2 DEF FoundIsReached
  <2> QED
    BY <2>2, <2>3 DEF GateInv
<1> QED
  BY <1>1, GateInvAlways, FoundIsReachedAlways, PTL DEF Spec, PublishedOnlyWhenReached

\* The total that is published with an assessment leaves room for every subject
\* of the inventory that the run did not reach, and for no other.
THEOREM UnreachedSubjectsShowAlways ==
  ASSUME UniqueRunIds PROVE Spec => UnreachedSubjectsShow
<1> DEFINE Shown == published' # published =>
             published'.total - Cardinality({b[1] : b \in published'.bundles})
               = Cardinality(scope \ Reached)
<1>1. TypeInv /\ GateInv /\ FoundIsReached /\ [Next]_vars => [Shown]_vars
  <2> SUFFICES ASSUME TypeInv, GateInv, FoundIsReached, [Next]_vars,
                      published' # published
               PROVE  Shown
    OBVIOUS
  <2>1. Evaluate
    BY DEF Next, vars, Launch, Collect, RoleSucceeds, HostDrops, WriteBundle,
           DirectoryFails, JobEnds, JobDies, Converge, GatePasses, GateRefuses,
           EvaluateRefuses, NodeDies
  <2>2. /\ published'.bundles = {<<h, store[RunId][h]>> : h \in Found}
        /\ published'.total = Cardinality(scope)
        /\ Found = Reached
    BY <2>1 DEF Evaluate, GateInv, FoundIsReached
  <2>3. {b[1] : b \in published'.bundles} = Reached
    <3>1. \A b \in published'.bundles : b[1] \in Reached
      BY <2>2
    <3>2. ASSUME NEW h \in Reached PROVE \E b \in published'.bundles : h = b[1]
      <4>1. <<h, store[RunId][h]>> \in published'.bundles
        BY <2>2
      <4> QED
        BY <4>1
    <3> QED
      BY <3>1, <3>2
  <2>4. scope \cap Reached = Reached
    BY DEF TypeInv, HostsHaveNodes, Reached
  <2>5. IsFiniteSet(scope)
    BY EstateAssumption, FS_Subset DEF EstateAssumption, TypeInv, TypeOK
  <2>6. Cardinality(scope \ Reached) = Cardinality(scope) - Cardinality(Reached)
    BY <2>4, <2>5, FS_Difference
  <2> QED
    BY <2>2, <2>3, <2>6
<1> QED
  BY <1>1, TypeInvAlways, GateInvAlways, FoundIsReachedAlways, PTL
     DEF Spec, UnreachedSubjectsShow

-----------------------------------------------------------------------------
(* The workflow implements EvidenceLedger: where no two runs share an        *)
(* identifier, each of its steps is a step of the ledger or leaves the       *)
(* ledger alone.  The fairness half of LedgerIsKept is TLC's.                *)

\* The ledger's page, as the workflow keeps it.
Page == [run      |-> published.run,
         subjects |-> {b[1] : b \in published.bundles}]

LEMMA LedgerInit == Init => Ledger!Init
<1> SUFFICES ASSUME Init PROVE Ledger!Init
  OBVIOUS
<1>1. run = 0 /\ (phase # "idle") = FALSE
  BY DEF Init
<1>2. Reached = {}
  BY DEF Init, Reached
<1>3. Page = [run |-> 0, subjects |-> {}]
  BY DEF Init, NothingPublished, Page
<1> QED
  BY <1>1, <1>2, <1>3 DEF Ledger!Init, Page

\* Steps of the collection and of the gate that the ledger does not see.
LEMMA LedgerStutters ==
  ASSUME UNCHANGED <<run, published>>,
         (phase # "idle") <=> (phase # "idle")',
         Reached' = Reached
  PROVE  UNCHANGED Ledger!vars
BY DEF Ledger!vars

LEMMA LedgerStep ==
  ASSUME TypeInv, FoundIsReached, [Next]_vars
  PROVE  [Ledger!Next]_(Ledger!vars)
<1>1. CASE Launch
  <2>1. run' = run + 1 /\ phase = "idle" /\ phase' = "collecting"
        /\ published' = published
    BY <1>1 DEF Launch
  <2>2. Reached' = {}
    BY <1>1 DEF Launch, Reached
  <2>3. Ledger!Begin
    BY <2>1, <2>2 DEF Ledger!Begin
  <2> QED
    BY <2>3 DEF Ledger!Next
<1>2. ASSUME NEW h \in Hosts, WriteBundle(h) PROVE [Ledger!Next]_(Ledger!vars)
  <2>1. /\ phase # "idle" /\ UNCHANGED <<run, phase, published>>
        /\ host[h] = "collecting"
        /\ host' = [host EXCEPT ![h] = "written"]
    BY <1>2 DEF WriteBundle, MayStep, TypeInv, TypeOK, HostsHaveNodes
  <2>2. h \in Hosts \ Reached /\ Reached' = Reached \cup {h}
    BY <2>1 DEF Reached, TypeInv, TypeOK
  <2>3. Ledger!Observe
    BY <2>1, <2>2 DEF Ledger!Observe
  <2> QED
    BY <2>3 DEF Ledger!Next
<1>3. ASSUME NEW h \in Hosts, RoleSucceeds(h) \/ HostDrops(h)
      PROVE  [Ledger!Next]_(Ledger!vars)
  <2>1. UNCHANGED <<run, phase, published>>
    BY <1>3 DEF RoleSucceeds, HostDrops
  <2>2. Reached' = Reached
    BY <1>3 DEF RoleSucceeds, HostDrops, MayStep, Reached, TypeInv, TypeOK
  <2> QED
    BY <2>1, <2>2, LedgerStutters
<1>4. ASSUME NEW n \in Nodes, DirectoryFails(n) \/ JobEnds(n) \/ JobDies(n)
      PROVE  [Ledger!Next]_(Ledger!vars)
  <2>1. UNCHANGED <<run, phase, published>>
    BY <1>4 DEF DirectoryFails, JobEnds, JobDies
  <2>2. Reached' = Reached
    BY <1>4 DEF DirectoryFails, JobEnds, JobDies, Collecting, Reached
  <2> QED
    BY <2>1, <2>2, LedgerStutters
<1>5. CASE Converge \/ GatePasses
  <2>1. /\ UNCHANGED <<run, published, host>>
        /\ phase # "idle" /\ phase' # "idle"
    BY <1>5 DEF Converge, GatePasses
  <2>2. Reached' = Reached
    BY <2>1 DEF Reached
  <2> QED
    BY <2>1, <2>2, LedgerStutters
<1>6. CASE Evaluate
  <2>1. /\ phase # "idle" /\ phase' = "idle"
        /\ UNCHANGED <<run, host>>
        /\ Found # {}
        /\ published' = [run     |-> run,
                         bundles |-> {<<h, store[RunId][h]>> : h \in Found},
                         total   |-> gate.inScope]
    BY <1>6 DEF Evaluate
  <2>2. Reached' = Reached /\ Reached # {} /\ Found = Reached
    BY <2>1 DEF Reached, FoundIsReached
  <2>3. {b[1] : b \in published'.bundles} = Found
    <3>1. published'.bundles = {<<h, store[RunId][h]>> : h \in Found}
      BY <2>1
    <3>2. \A b \in published'.bundles : b[1] \in Found
      BY <3>1
    <3>3. \A h \in Found : \E b \in published'.bundles : b[1] = h
      <4> TAKE h \in Found
      <4>1. <<h, store[RunId][h]>> \in published'.bundles
        BY <3>1
      <4> QED
        BY <4>1
    <3> QED
      BY <3>2, <3>3
  <2>4. [run |-> published'.run, subjects |-> {b[1] : b \in published'.bundles}]
          = [run |-> run, subjects |-> Reached]
    BY <2>1, <2>2, <2>3
  <2>5. Ledger!Publish
    BY <2>1, <2>2, <2>4 DEF Ledger!Publish
  <2> QED
    BY <2>5 DEF Ledger!Next
<1>7. CASE GateRefuses \/ EvaluateRefuses \/ NodeDies
  <2>1. /\ phase # "idle" /\ phase' = "idle"
        /\ UNCHANGED <<run, host, published>>
    BY <1>7 DEF GateRefuses, EvaluateRefuses, NodeDies
  <2>2. Reached' = Reached
    BY <2>1 DEF Reached
  <2>3. Ledger!GiveUp
    BY <2>1, <2>2 DEF Ledger!GiveUp
  <2> QED
    BY <2>3 DEF Ledger!Next
<1>8. CASE UNCHANGED vars
  <2>1. UNCHANGED <<run, phase, published>> /\ Reached' = Reached
    BY <1>8 DEF vars, Reached
  <2> QED
    BY <2>1, LedgerStutters
<1> QED
  BY <1>1, <1>2, <1>3, <1>4, <1>5, <1>6, <1>7, <1>8 DEF Next, Collect

\* Every run of the workflow publishes all that it observed and nothing else,
\* or nothing: the safety half of LedgerIsKept.
THEOREM WorkflowKeepsTheLedger ==
  ASSUME UniqueRunIds PROVE Spec => Ledger!Spec
BY LedgerInit, LedgerStep, TypeInvAlways, FoundIsReachedAlways, PTL
   DEF Spec, Ledger!Spec

=============================================================================
