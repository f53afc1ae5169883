----------------------------- MODULE Redaction ------------------------------
(***************************************************************************)
(* What happens to a collector's output between the host and the bundle:   *)
(* plugins/filter/ps_object.py, which says whether a script's output could *)
(* be used at all, and plugins/filter/redact.py, which replaces            *)
(* identifiers before anything is written.                                 *)
(*                                                                         *)
(* redact_facts walks a tree.  What it does to a leaf depends on three     *)
(* things only: the keys on the way to it (a named `drop` on any of them   *)
(* removes everything below), the last of these keys (its action travels   *)
(* into lists and stops at mappings), and whether the leaf is a bare list  *)
(* element.  So a leaf is addressed by its keys and `listed`, and the walk *)
(* is one operator.                                                        *)
(***************************************************************************)
EXTENDS Integers, Sequences

-----------------------------------------------------------------------------
(* Identifiers.                                                            *)

\* Principals, by the kind of their security identifier: two accounts of the
\* domain, its administrators' group (RID 512), BUILTIN\Administrators
\* (S-1-5-32-544), Everyone (S-1-1-0).
People     == {"alice", "bob"}
Groups     == {"domain-admins", "administrators", "everyone"}
Principals == People \cup Groups

\* Identifiers in a bundle: as collected, as a salted digest, or without the
\* RID, which leaves accounts of one domain indistinguishable.
Forms       == {"raw", "hashed", "cut"}
Identifiers == [who : Principals \cup {"some-account", "none"}, form : Forms \cup {"gone"}]

Raw(who) == [who |-> who, form |-> "raw"]

\* A field or list element that redaction removed; the null SID of machine scope.
Gone  == [who |-> "none", form |-> "gone"]
NoSid == [who |-> "none", form |-> "raw"]

\* _SID_RE: at least three numbers after the revision.  Everyone has two.
LooksLikeASid(id) == id.form = "raw" /\ id.who \in Principals \ {"everyone"}

-----------------------------------------------------------------------------
(* Policies.                                                               *)

Actions == {"retain", "hash", "truncate", "drop"}

\* fact_bundle_redaction_keys as far as a collector's keys reach, the default
\* action, and whether the deployment replaced the shipped salt.
Policy == [sid : Actions, default : Actions, salt : {"unset", "shipped", "own"}]

\* The action of the key itself, if the policy names it.
Named(policy, key) == IF key = "sid" THEN policy.sid ELSE "unnamed"

AsksForHashing(policy) == "hash" \in {policy.sid, policy.default}

\* fact_bundle's first task, before anything is collected.
GuardAccepts(policy) == AsksForHashing(policy) => policy.salt # "shipped"

\* redact_facts itself refuses an empty salt as well.
FilterAccepts(policy) == AsksForHashing(policy) => policy.salt = "own"

-----------------------------------------------------------------------------
(* redact_facts.                                                           *)

\* _apply and _truncate: a SID loses its RID unless the RID names a role; a null
\* is hashed and cut like any text.  `drop` is not an action on a value.
Apply(action, id) ==
  IF action = "hash" THEN [who |-> id.who, form |-> "hashed"]
  ELSE IF action = "truncate" /\ id.who \in People THEN [who |-> "some-account", form |-> "cut"]
  ELSE IF action = "truncate" /\ id = NoSid THEN [who |-> id.who, form |-> "cut"]
  ELSE id

\* Before ADR 0018: the policy matched on names only.
ActionForByName(policy, key, id) ==
  IF Named(policy, key) # "unnamed" THEN Named(policy, key) ELSE policy.default

\* action_for: by name, then by shape, then the default.
ActionFor(policy, key, id) ==
  IF Named(policy, key) # "unnamed" THEN Named(policy, key)
  ELSE IF LooksLikeASid(id) THEN policy.sid
  ELSE policy.default

\* walk, for the identifier found under these keys.
Redact(policy, keys, listed, id) ==
  LET key    == keys[Len(keys)]
      action == ActionFor(policy, key, id)
  IN  IF \/ \E i \in 1..Len(keys) : Named(policy, keys[i]) = "drop"
         \/ listed /\ action = "drop"
      THEN Gone
      ELSE Apply(action, id)

\* walk, for a list of identifiers.
RedactList(policy, keys, ids) == {Redact(policy, keys, TRUE, id) : id \in ids} \ {Gone}

-----------------------------------------------------------------------------
(* ps_object.                                                              *)

\* What a win_powershell task can leave behind: nothing registered, no output,
\* a blank or unreadable string, JSON that is no container, one mapping, one
\* mapping in an array, another array.
Outputs == {"unregistered", "empty", "blank", "garbage", "scalar", "mapping", "wrapped", "array"}

\* Before ADR 0017 any output of one element was taken for a reading.
OkByLength(output, expect) == output \notin {"unregistered", "empty"}

\* ps_object(output, expect).ok
Ok(output, expect) ==
  \/ output = "mapping"
  \/ output = "wrapped"
  \/ output \in {"array", "scalar"} /\ expect = "any"

=============================================================================
