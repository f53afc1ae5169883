----------------------------- MODULE Evaluators -----------------------------
(***************************************************************************)
(* What every evaluator under tools/nobytes_cca/checks shares.  A fact's   *)
(* value is a record of the parts the evaluator reads, the collector's     *)
(* `meta` among them.  An evaluator is an operator on a map of facts, and  *)
(* its answer is an outcome: one of the constructors of contract.py, with  *)
(* the facts it quotes as evidence.                                        *)
(*                                                                         *)
(* A collector is an operator too: from the subject as it is, and what     *)
(* could not be read of it, to the facts its role records.                 *)
(***************************************************************************)
EXTENDS Contract

\* What a collector did not get to read: scripts whose output cannot be used
\* (garbled), things that a script reports as unread (hidden), things it passes
\* over without a trace (skipped), and, where two scripts read the same user
\* hives one after the other, the hives that were not loaded for the inventory
\* of applications.
EverythingRead == [garbled |-> {}, hidden |-> {}, skipped |-> {}, inventory |-> {}]

-----------------------------------------------------------------------------
(* Outcomes.                                                               *)

Outcome(says, confidence, reason, cites) ==
  [says |-> says, confidence |-> confidence, reason |-> reason, cites |-> cites]

\* The reason of an outcome that needs none, the confidence of one that has
\* none: Construct drops them.
Ignored == "evaluation-error"

Satisfied(confidence, cites)    == Outcome("satisfied", confidence, Ignored, cites)
NotSatisfied(confidence, cites) == Outcome("not-satisfied", confidence, Ignored, cites)
OutOfPopulation(cites)          == Outcome("not-applicable", "direct", Ignored, cites)
CannotTell(reason)              == Outcome("unassessed", "direct", reason, {})

\* What a shared guard returns when there is nothing to stop for.
Proceed == Outcome("proceed", "direct", Ignored, {})

-----------------------------------------------------------------------------
(* Facts.                                                                  *)

\* fact_bundle's record: one fact, and what it adds to the facts there are.
Record(key, partial, value) == [k \in {key} |-> [partial |-> partial, value |-> value]]

Merged(facts, more) ==
  [k \in DOMAIN facts \cup DOMAIN more |-> IF k \in DOMAIN more THEN more[k] ELSE facts[k]]

\* The common guard: the fact is there, and whole.
Usable(facts, key) == key \in DOMAIN facts /\ ~facts[key].partial

=============================================================================
