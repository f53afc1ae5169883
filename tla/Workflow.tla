------------------------------ MODULE Workflow ------------------------------
(***************************************************************************)
(* The nightly workflow: aap/controller/workflows.yml over                 *)
(* playbooks/collect.yml, coverage_gate.yml and evaluate.yml, around one   *)
(* bundle store.                                                           *)
(*                                                                         *)
(* Collect nodes run in parallel, each one job over the hosts its limit    *)
(* selects.  Within a job the hosts go through the roles task by task (the *)
(* linear strategy: nobody starts a task while somebody is a task behind). *)
(* A host that fails or cannot be reached drops out of its play.  The last *)
(* role writes the host's bundle below a directory named for the run; no   *)
(* code ever removes a bundle.  The gate counts the files there, and       *)
(* evaluate.yml hands them to `cca evaluate` (module Assess).              *)
(*                                                                         *)
(* Facts are abstracted away: a bundle is the number of the run whose      *)
(* collection wrote it.  Runs are numbered in the order they are launched; *)
(* the numbers are history, the identifiers are what the code has.         *)
(***************************************************************************)
EXTENDS CoverageGate, FiniteSets

CONSTANTS
  Hosts,        \* every subject the inventory may name
  Nodes,        \* the collect nodes of the workflow
  NodeOf,       \* the node whose limit selects a host; NoNode for a tenant
  NoNode,
  Roles,        \* the number of roles a node's hosts go through
  Scopes,       \* what groups['all'] can be when a run is launched
  RunIds,       \* run identifiers, after ':' is replaced
  RunIdOf,      \* the identifier run n finds in CCA_RUN_ID, or 'local'
  MinCoverage,  \* cca_min_coverage
  MaxRuns       \* bound: runs of the workflow

ASSUME EstateAssumption ==
  /\ IsFiniteSet(Hosts)
  /\ NoNode \notin Nodes
  /\ NodeOf \in [Hosts -> Nodes \cup {NoNode}]
  /\ Roles \in [Nodes -> Nat]
  /\ Scopes \subseteq SUBSET Hosts
  /\ RunIdOf \in [1..MaxRuns -> RunIds]
  /\ MinCoverage \in 0..100
  /\ MaxRuns \in Nat

VARIABLES
  run,        \* how many runs have been launched
  phase,      \* where the current one is
  scope,      \* groups['all'] in the current run
  override,   \* cca_allow_partial_coverage, a choice of two strings in the survey
  job,        \* of each collect node
  host,       \* of each host: how its collection stands
  done,       \* of each host: the roles it has completed
  store,      \* the bundle store: per run identifier and host
  gate,       \* what the gate found, once it has let the run pass
  published   \* the assessment that was emitted last

vars == <<run, phase, scope, override, job, host, done, store, gate, published>>

NoBundle == 0

NoGate == [run |-> 0]

NothingPublished == [run |-> 0, bundles |-> {}, total |-> 0]

RunId == RunIdOf[run]

\* The hosts a node's job selects from the inventory.
Selected(n) == {h \in scope : NodeOf[h] = n}

Collecting(n) == {h \in Selected(n) : host[h] = "collecting"}

\* The files there are, had the directory of the run been left out.
FoundAnywhere == {h \in Hosts : \E i \in RunIds : store[i][h] # NoBundle}

\* The files the gate and evaluate.yml find.
Found == {h \in Hosts : store[RunId][h] # NoBundle}

Init ==
  /\ run = 0
  /\ phase = "idle"
  /\ scope = {}
  /\ override = "false"
  /\ job = [n \in Nodes |-> "waiting"]
  /\ host = [h \in Hosts |-> "unselected"]
  /\ done = [h \in Hosts |-> 0]
  /\ store = [i \in RunIds |-> [h \in Hosts |-> NoBundle]]
  /\ gate = NoGate
  /\ published = NothingPublished

-----------------------------------------------------------------------------
(* Launch and collection.                                                  *)

\* The schedule, or an operator with the survey, starts a run: the collect
\* nodes are its roots.
Launch ==
  /\ phase = "idle"
  /\ run < MaxRuns
  /\ run' = run + 1
  /\ scope' \in Scopes
  /\ override' \in {"false", "true"}
  /\ job' = [n \in Nodes |-> "running"]
  /\ host' = [h \in Hosts |-> IF h \in scope' /\ NodeOf[h] # NoNode
                              THEN "collecting" ELSE "unselected"]
  /\ done' = [h \in Hosts |-> 0]
  /\ phase' = "collecting"
  /\ gate' = NoGate
  /\ UNCHANGED <<store, published>>

\* A host of a running job that no other host of it is behind.
MayStep(h) ==
  /\ host[h] = "collecting"
  /\ job[NodeOf[h]] = "running"
  /\ \A g \in Collecting(NodeOf[h]) : done[g] >= done[h]

\* The next role records its facts on host h.
RoleSucceeds(h) ==
  /\ MayStep(h)
  /\ done[h] < Roles[NodeOf[h]]
  /\ done' = [done EXCEPT ![h] = @ + 1]
  /\ UNCHANGED <<run, phase, scope, override, job, host, store, gate, published>>

\* The play as it would be with any_errors_fatal set: all of them drop out.
HostDropsAll(h) ==
  /\ MayStep(h)
  /\ host' = [g \in Hosts |->
                CASE g = h -> "failed"
                  [] g \in Collecting(NodeOf[h]) \ {h} -> "lost"
                  [] OTHER -> host[g]]
  /\ UNCHANGED <<run, phase, scope, override, job, done, store, gate, published>>

\* Host h is unreachable, or a task fails on it: it is dropped from the play,
\* the facts it had recorded with it.  Other hosts go on.
HostDrops(h) ==
  /\ MayStep(h)
  /\ host' = [host EXCEPT ![h] = "failed"]
  /\ UNCHANGED <<run, phase, scope, override, job, done, store, gate, published>>

\* finalise.yml: redact what was accumulated and write the host's bundle, in
\* the place of one that an earlier run left there.
WriteBundle(h) ==
  /\ MayStep(h)
  /\ done[h] = Roles[NodeOf[h]]
  /\ store' = [store EXCEPT ![RunId][h] = run]
  /\ host' = [host EXCEPT ![h] = "written"]
  /\ UNCHANGED <<run, phase, scope, override, job, done, gate, published>>

\* The bundle directory cannot be made: a run_once task, so every host that is
\* still in the play fails with it.
DirectoryFails(n) ==
  /\ job[n] = "running"
  /\ Collecting(n) # {}
  /\ \A h \in Collecting(n) : done[h] = Roles[n]
  /\ \A h \in Selected(n) : host[h] # "written"
  /\ host' = [h \in Hosts |-> IF h \in Collecting(n) THEN "lost" ELSE host[h]]
  /\ job' = [job EXCEPT ![n] = "failed"]
  /\ UNCHANGED <<run, phase, scope, override, done, store, gate, published>>

\* The play is over: every host has its bundle written or has dropped out.
JobEnds(n) ==
  /\ job[n] = "running"
  /\ Collecting(n) = {}
  /\ job' = [job EXCEPT ![n] = "finished"]
  /\ UNCHANGED <<run, phase, scope, override, host, done, store, gate, published>>

\* The job itself dies: its execution environment, its controller node.
JobDies(n) ==
  /\ job[n] = "running"
  /\ host' = [h \in Hosts |-> IF h \in Collecting(n) THEN "lost" ELSE host[h]]
  /\ job' = [job EXCEPT ![n] = "failed"]
  /\ UNCHANGED <<run, phase, scope, override, done, store, gate, published>>

\* Collect nodes connected on success rather than always.
ConvergeOnSuccess ==
  /\ phase = "collecting"
  /\ \A n \in Nodes : job[n] = "finished"
  /\ phase' = "gate"
  /\ UNCHANGED <<run, scope, override, job, host, done, store, gate, published>>

\* A gate that starts when the first of its parents is done.
ConvergeOnAny ==
  /\ phase = "collecting"
  /\ \E n \in Nodes : job[n] \in {"finished", "failed"}
  /\ phase' = "gate"
  /\ UNCHANGED <<run, scope, override, job, host, done, store, gate, published>>

\* all_parents_must_converge, over always_nodes: the gate starts when every
\* collect job has ended, however it ended.
Converge ==
  /\ phase = "collecting"
  /\ \A n \in Nodes : job[n] \in {"finished", "failed"}
  /\ phase' = "gate"
  /\ UNCHANGED <<run, scope, override, job, host, done, store, gate, published>>

-----------------------------------------------------------------------------
(* The gate.                                                               *)

\* A gate whose threshold is never asserted.
GatePassesAnyway ==
  /\ phase = "gate"
  /\ scope # {}
  /\ gate' = [run        |-> run,
              inScope    |-> Cardinality(scope),
              collected  |-> Cardinality(Found),
              overridden |-> override]
  /\ phase' = "evaluate"
  /\ UNCHANGED <<run, scope, override, job, host, done, store, published>>

\* Coverage meets the threshold, or somebody said that it need not.
GatePasses ==
  /\ phase = "gate"
  /\ scope # {}
  /\ \E tenths \in Tenths(Cardinality(Found), Cardinality(scope)) :
       override = "true" \/ Meets(tenths, MinCoverage)
  /\ gate' = [run        |-> run,
              inScope    |-> Cardinality(scope),
              collected  |-> Cardinality(Found),
              overridden |-> override]
  /\ phase' = "evaluate"
  /\ UNCHANGED <<run, scope, override, job, host, done, store, published>>

\* An empty estate, or too little of it reached: the run ends here.
GateRefuses ==
  /\ phase = "gate"
  /\ \/ scope = {}
     \/ /\ scope # {}
        /\ override = "false"
        /\ \E tenths \in Tenths(Cardinality(Found), Cardinality(scope)) :
             ~Meets(tenths, MinCoverage)
  /\ phase' = "idle"
  /\ UNCHANGED <<run, scope, override, job, host, done, store, gate, published>>

-----------------------------------------------------------------------------
(* Evaluation.                                                             *)

\* An evaluation that counts its bundles for want of --population-total.
EvaluateUncounted ==
  /\ phase = "evaluate"
  /\ Found # {}
  /\ published' = [run     |-> run,
                   bundles |-> {<<h, store[RunId][h]>> : h \in Found},
                   total   |-> Cardinality(Found)]
  /\ phase' = "idle"
  /\ UNCHANGED <<run, scope, override, job, host, done, store, gate>>

\* evaluate.yml: every bundle found is evaluated, and the totals the gate
\* published are the denominator.
Evaluate ==
  /\ phase = "evaluate"
  /\ Found # {}
  /\ published' = [run     |-> run,
                   bundles |-> {<<h, store[RunId][h]>> : h \in Found},
                   total   |-> gate.inScope]
  /\ phase' = "idle"
  /\ UNCHANGED <<run, scope, override, job, host, done, store, gate>>

\* No evidence was collected at all: nothing is emitted.
EvaluateRefuses ==
  /\ phase = "evaluate"
  /\ Found = {}
  /\ phase' = "idle"
  /\ UNCHANGED <<run, scope, override, job, host, done, store, gate, published>>

\* The gate's job or the evaluate job dies before it has done anything.
NodeDies ==
  /\ phase \in {"gate", "evaluate"}
  /\ phase' = "idle"
  /\ UNCHANGED <<run, scope, override, job, host, done, store, gate, published>>

Collect ==
  \/ \E h \in Hosts : RoleSucceeds(h) \/ HostDrops(h) \/ WriteBundle(h)
  \/ \E n \in Nodes : DirectoryFails(n) \/ JobEnds(n) \/ JobDies(n)

Next ==
  \/ Launch
  \/ Collect
  \/ Converge
  \/ GatePasses \/ GateRefuses
  \/ Evaluate \/ EvaluateRefuses
  \/ NodeDies

Spec == Init /\ [][Next]_vars

\* A run that was launched keeps going: every task ends one way or the other
\* (Ansible gives up on a host that does not answer, AAP on a job that does
\* not end), and the controller starts the next node when it may.  Runs need
\* not be launched.
FairSpec ==
  /\ Spec
  /\ \A h \in Hosts : WF_vars(RoleSucceeds(h) \/ HostDrops(h) \/ WriteBundle(h))
  /\ \A n \in Nodes : WF_vars(JobEnds(n))
  /\ WF_vars(Converge)
  /\ WF_vars(GatePasses \/ GateRefuses)
  /\ WF_vars(Evaluate \/ EvaluateRefuses)

=============================================================================
