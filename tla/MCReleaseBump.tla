---------------------------- MODULE MCReleaseBump ----------------------------
(***************************************************************************)
(* Two releases.  The second rewords x and withdraws z; its tag may be     *)
(* moved to a commit that rewords y as well and has another profile.       *)
(***************************************************************************)
EXTENDS ReleaseBump, TLC

MCTags      == {"v1", "v2"}
MCCommits   == {"one", "two", "three"}
MCArtifacts == {Catalog, "ISM_profile.json"}
MCPlace     == [a \in MCArtifacts |-> IF a = Catalog THEN 1 ELSE 2]

MCPublished ==
  [c \in MCCommits |->
     [a \in MCArtifacts |->
        IF a = Catalog THEN CASE c = "one" -> "c1" [] c = "two" -> "c2" [] OTHER -> "c3"
        ELSE IF c = "three" THEN "p2" ELSE "p1"]]

MCFirstTagged == [g \in MCTags |-> IF g = "v1" THEN "one" ELSE "two"]

MCControls == {"x", "y", "z"}
MCTexts    == {"old", "new"}

MCCatalogText ==
  [bytes \in {"c1", "c2", "c3", "p1", "p2"} |->
     [c \in MCControls |->
        CASE bytes \in {"p1", "p2"}     -> Withdrawn
          [] bytes # "c1" /\ c = "x" -> "new"
          [] bytes = "c3" /\ c = "y" -> "new"
          [] bytes # "c1" /\ c = "z" -> Withdrawn
          [] OTHER                   -> "old"]]

MCIds   == {"k", "l", "m"}
MCPaths == {"windows/a.yml", "windows/b.yml"}

Draft(id, binds) == [id |-> id, binds |-> binds, automated |-> TRUE, resolves |-> TRUE,
                     freshness |-> 24, renewal |-> 0]

\* A check of the same name as the one there is, to be moved or to clash with
\* it, and bound to the control that goes; its attestation is renewed daily.
MCDrafts == {[Draft("k", {"x", "z"}) EXCEPT !.automated = FALSE, !.renewal = 1]}

MCFirstTree ==
  [vendored  |-> [d \in MCTags \X MCArtifacts |->
                    IF d[1] = "v1" THEN MCPublished["one"][d[2]] ELSE Absent],
   manifests |-> [g \in MCTags |->
                    IF g = "v1" THEN [commit |-> "one", sums |-> MCPublished["one"]] ELSE NoManifest],
   checks    |-> [p \in MCPaths |->
                    IF p = "windows/a.yml"
                    THEN CheckOf(Draft("k", {"x", "y"}), [c \in {"x", "y"} |-> "old"])
                    ELSE NoCheck],
   pin       |-> "v1"]

\* Branches differ in nothing.
Alike == Permutations(Branches)

=============================================================================
