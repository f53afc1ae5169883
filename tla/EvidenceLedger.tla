--------------------------- MODULE EvidenceLedger ---------------------------
(***************************************************************************)
(* What a nightly assessment promises, with no bundles, jobs or gate in    *)
(* it: a run observes subjects of its scope, and publishes either what it  *)
(* observed, all of it and nothing else, or nothing.                       *)
(***************************************************************************)
EXTENDS Naturals

CONSTANT Subjects

VARIABLES
  current,    \* the number of the latest run
  open,       \* whether it is under way
  observed,   \* the subjects it has observed
  ledger      \* the assessment published last: its run and its subjects

vars == <<current, open, observed, ledger>>

Init ==
  /\ current = 0
  /\ open = FALSE
  /\ observed = {}
  /\ ledger = [run |-> 0, subjects |-> {}]

Begin ==
  /\ ~open
  /\ current' = current + 1
  /\ open' = TRUE
  /\ observed' = {}
  /\ UNCHANGED ledger

Observe ==
  /\ open
  /\ \E s \in Subjects \ observed : observed' = observed \cup {s}
  /\ UNCHANGED <<current, open, ledger>>

Publish ==
  /\ open
  /\ observed # {}
  /\ ledger' = [run |-> current, subjects |-> observed]
  /\ open' = FALSE
  /\ UNCHANGED <<current, observed>>

GiveUp ==
  /\ open
  /\ open' = FALSE
  /\ UNCHANGED <<current, observed, ledger>>

Next == Begin \/ Observe \/ Publish \/ GiveUp

Spec == Init /\ [][Next]_vars

FairSpec == Spec /\ WF_vars(Publish \/ GiveUp)

=============================================================================
