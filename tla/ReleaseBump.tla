----------------------------- MODULE ReleaseBump -----------------------------
(***************************************************************************)
(* How control text gets into the repository, and how checks keep up with  *)
(* it: tools/fetch_ism_oscal.py vendors a release of the catalog file by   *)
(* file, tools/nobytes_cca/registry.py pins the text each check was        *)
(* written against, and `make validate` compares.  People and the          *)
(* release-watch workflow do this on branches, several at a time; merging  *)
(* is git's, file by file.                                                 *)
(*                                                                         *)
(* A tree is a checkout: the vendored release directories with their       *)
(* manifests, the pinned tag (ism_release.py and the Makefile), and the    *)
(* check files.  Contents of a file are opaque but for equality, which is  *)
(* what a SHA-256 tells of them, and for the control text in a catalog.    *)
(* What a check's author has read (`seen`) is history: no code knows it.   *)
(***************************************************************************)
EXTENDS Integers, FiniteSets

CONSTANTS
  Tags,          \* release tags of ASD's mirror
  Commits,       \* its commits
  Published,     \* contents of each artefact, per commit
  FirstTagged,   \* the commit of each tag, to begin with
  Artifacts,     \* the catalog, the profiles
  Place,         \* their places in artifact_names
  Controls,      \* control identifiers
  Texts,         \* statements of a control
  CatalogText,   \* the statement of each control, per contents of a catalog
  Ids,           \* identifiers of checks
  Paths,         \* where check files are
  Drafts,        \* check definitions a person may write, but for their pins
  FirstTree,     \* the checkout to begin with
  Branches,      \* branches there can be at a time
  MaxBranches,   \* bound: branches opened
  MaxFetches,    \* bound: fetches started
  MaxMoves       \* bound: tags moved

Catalog == "ISM_catalog.json"

\* A file that is not there, and one whose writer stopped half way.
Absent == "absent"
Torn   == "torn"

\* A control that is not in a catalog.
Withdrawn == "withdrawn"

NoCommit   == "no-commit"
NoManifest == [commit |-> NoCommit, sums |-> [a \in {} |-> Absent]]

\* A check file; `pins` is the statement_sha256 of each of its bindings.
CheckOf(draft, pins) ==
  [id |-> draft.id, automated |-> draft.automated, resolves |-> draft.resolves,
   freshness |-> draft.freshness, renewal |-> draft.renewal, pins |-> pins, seen |-> pins]

NoId == "no-check"

NoCheck == [id |-> NoId, automated |-> FALSE, resolves |-> FALSE, freshness |-> 0,
            renewal |-> 0, pins |-> [c \in {} |-> Withdrawn], seen |-> [c \in {} |-> Withdrawn]]

Contents == UNION {{Published[c][a] : a \in Artifacts} : c \in Commits}

Statements == UNION {[S -> Texts] : S \in SUBSET Controls}

\* The checksums of a manifest.
Sums == UNION {[S -> Contents] : S \in SUBSET Artifacts}

CheckFile == [id : Ids \cup {NoId}, automated : BOOLEAN, resolves : BOOLEAN,
              freshness : Nat, renewal : Nat, pins : Statements, seen : Statements]

Manifest == [commit : Commits \cup {NoCommit}, sums : Sums]

Tree == [vendored  : [Tags \X Artifacts -> Contents \cup {Absent, Torn}],
         manifests : [Tags -> Manifest],
         checks    : [Paths -> CheckFile],
         pin       : Tags]

ASSUME UpstreamAssumption ==
  /\ Catalog \in Artifacts
  /\ Place \in [Artifacts -> Nat]
  /\ FirstTagged \in [Tags -> Commits]
  /\ NoCommit \notin Commits
  /\ Absent \notin Contents /\ Torn \notin Contents
  /\ Published \in [Commits -> [Artifacts -> Contents]]
  /\ CatalogText \in [Contents -> [Controls -> Texts \cup {Withdrawn}]]
  /\ Withdrawn \notin Texts

ASSUME DraftsAssumption ==
  /\ NoId \notin Ids
  /\ Drafts \subseteq [id : Ids, binds : SUBSET Controls, automated : BOOLEAN,
                        resolves : BOOLEAN, freshness : Nat, renewal : Nat]

\* To begin with the checks are reviewed, and what is vendored was fetched.
ASSUME FirstTreeAssumption ==
  /\ FirstTree \in Tree
  /\ \A p \in Paths : FirstTree.checks[p].pins = FirstTree.checks[p].seen
  /\ \A g \in Tags : FirstTree.manifests[g] \in
       {NoManifest, [commit |-> FirstTagged[g], sums |-> Published[FirstTagged[g]]]}

VARIABLES
  tagged,    \* the commit each tag names, on the mirror
  moved,     \* tags that were moved
  main,      \* the tree of the main branch
  base,      \* per branch, the tree it was made from
  work,      \* per branch, its tree
  open,      \* branches that are open
  fetch,     \* per branch, a download_release that is under way
  opened,    \* how many branches there have been
  fetched    \* how many fetches

vars == <<tagged, moved, main, base, work, open, fetch, opened, fetched>>

\* Writing one file of a tree.
WithArtifact(t, g, a, bytes) == [t EXCEPT !.vendored = [@ EXCEPT ![<<g, a>>] = bytes]]
WithManifest(t, g, manifest) == [t EXCEPT !.manifests = [@ EXCEPT ![g] = manifest]]
WithCheck(t, p, check)       == [t EXCEPT !.checks = [@ EXCEPT ![p] = check]]

-----------------------------------------------------------------------------
(* make validate.                                                          *)

\* ism_release_dir: the releases that have a manifest, and there has to be one.
Releases(t) == {g \in Tags : t.manifests[g] # NoManifest}

Release(t) == CHOOSE g \in Tags : Releases(t) = {g}

CatalogBytes(t) == t.vendored[<<Release(t), Catalog>>]

\* Catalog.load(ism_catalog()).
CatalogLoads(t) ==
  /\ \E g \in Tags : Releases(t) = {g}
  /\ CatalogBytes(t) \notin {Absent, Torn}

Statement(t, control) == CatalogText[CatalogBytes(t)][control]

\* A verification that only looks whether the files are there.
VerifyPresence(t) ==
  /\ t.manifests[t.pin] # NoManifest
  /\ \A a \in DOMAIN t.manifests[t.pin].sums : t.vendored[<<t.pin, a>>] # Absent

\* verify: the manifest of the pinned release, and every file in it.
Verify(t) ==
  /\ t.manifests[t.pin] # NoManifest
  /\ \A a \in DOMAIN t.manifests[t.pin].sums :
       t.vendored[<<t.pin, a>>] = t.manifests[t.pin].sums[a]

CheckFiles(t) == {p \in Paths : t.checks[p] # NoCheck}

\* Registry.load: some check, and no two of the same id.
RegistryLoads(t) ==
  /\ CheckFiles(t) # {}
  /\ \A p, q \in CheckFiles(t) : t.checks[p].id = t.checks[q].id => p = q

\* validate when it knew controls only by their identifiers.
BindingsExist(t, check) ==
  \A c \in DOMAIN check.pins : Statement(t, c) # Withdrawn

\* validate, of the bindings of one check: every control is in the catalog, and
\* reads as it did when it was pinned.
BindingsSound(t, check) ==
  \A c \in DOMAIN check.pins :
    /\ Statement(t, c) # Withdrawn
    /\ check.pins[c] = Statement(t, c)

\* validate, of the rest of it: an evaluator that resolves, or an attestation
\* that is renewed as often as the check is fresh.
BackingSound(check) ==
  IF check.automated THEN check.resolves ELSE check.freshness = check.renewal * 24

\* cca validate-registry finds no problem.
RegistryValid(t) ==
  /\ RegistryLoads(t)
  /\ CatalogLoads(t)
  /\ \A p \in CheckFiles(t) : BindingsSound(t, t.checks[p]) /\ BackingSound(t.checks[p])

\* make validate, as CI runs it on every pull request and on main.
Green(t) == Verify(t) /\ RegistryValid(t)

-----------------------------------------------------------------------------
(* download_release, in a branch.                                          *)

NotFetching == [step |-> "idle", tag |-> CHOOSE g \in Tags : TRUE, commit |-> NoCommit,
                sums |-> [a \in {} |-> Absent]]

Init ==
  /\ tagged = FirstTagged
  /\ moved = {}
  /\ main = FirstTree
  /\ base = [b \in Branches |-> FirstTree]
  /\ work = [b \in Branches |-> FirstTree]
  /\ open = {}
  /\ fetch = [b \in Branches |-> NotFetching]
  /\ opened = 0
  /\ fetched = 0

\* resolve_tag_commit: which commit the tag names, for the manifest.
ResolveTag(b) ==
  /\ b \in open
  /\ fetch[b].step # "fetching"
  /\ fetched < MaxFetches
  /\ \E g \in Tags :
       fetch' = [fetch EXCEPT ![b] = [step |-> "fetching", tag |-> g, commit |-> tagged[g],
                                      sums |-> [a \in {} |-> Absent]]]
  /\ fetched' = fetched + 1
  /\ UNCHANGED <<tagged, moved, main, base, work, open, opened>>

\* The file a fetch is at.
Due(sums) ==
  {a \in Artifacts \ DOMAIN sums : \A x \in Artifacts \ DOMAIN sums : Place[a] <= Place[x]}

\* One file, by the tag's name, written verbatim and then summed.
FetchFile(b) ==
  /\ fetch[b].step = "fetching"
  /\ \E a \in Due(fetch[b].sums) :
       LET bytes == Published[tagged[fetch[b].tag]][a]
           sums  == fetch[b].sums
       IN  /\ work' = [work EXCEPT ![b] = WithArtifact(@, fetch[b].tag, a, bytes)]
           /\ fetch' = [fetch EXCEPT ![b].sums =
                          [x \in DOMAIN sums \cup {a} |-> IF x = a THEN bytes ELSE sums[x]]]
  /\ UNCHANGED <<tagged, moved, main, base, open, opened, fetched>>

\* A manifest of whatever was fetched so far.
WriteManifestEarly(b) ==
  /\ fetch[b].step = "fetching"
  /\ work' = [work EXCEPT ![b] = WithManifest(@, fetch[b].tag,
                [commit |-> fetch[b].commit, sums |-> fetch[b].sums])]
  /\ fetch' = [fetch EXCEPT ![b].step = "fetched"]
  /\ UNCHANGED <<tagged, moved, main, base, open, opened, fetched>>

\* The manifest comes last.
WriteManifest(b) ==
  /\ fetch[b].step = "fetching"
  /\ DOMAIN fetch[b].sums = Artifacts
  /\ work' = [work EXCEPT ![b] = WithManifest(@, fetch[b].tag,
                [commit |-> fetch[b].commit, sums |-> fetch[b].sums])]
  /\ fetch' = [fetch EXCEPT ![b].step = "fetched"]
  /\ UNCHANGED <<tagged, moved, main, base, open, opened, fetched>>

\* The network or the process gives up: before a file, or in the middle of it.
StopFetching(b) ==
  /\ fetch[b].step = "fetching"
  /\ \/ UNCHANGED work
     \/ \E a \in Due(fetch[b].sums) :
          work' = [work EXCEPT ![b] = WithArtifact(@, fetch[b].tag, a, Torn)]
  /\ fetch' = [fetch EXCEPT ![b] = NotFetching]
  /\ UNCHANGED <<tagged, moved, main, base, open, opened, fetched>>

\* A tree whose pinned release was removed for another.
Replaced(t, g) ==
  [vendored  |-> [d \in Tags \X Artifacts |-> IF d[1] = t.pin THEN Absent ELSE t.vendored[d]],
   manifests |-> [t.manifests EXCEPT ![t.pin] = NoManifest],
   checks    |-> t.checks,
   pin       |-> g]

\* The steps of the release-watch job after its fetch: one release directory is
\* kept, and the pin follows.
ReplaceRelease(b) ==
  /\ fetch[b].step = "fetched"
  /\ fetch[b].tag # work[b].pin
  /\ work' = [work EXCEPT ![b] = Replaced(@, fetch[b].tag)]
  /\ fetch' = [fetch EXCEPT ![b] = NotFetching]
  /\ UNCHANGED <<tagged, moved, main, base, open, opened, fetched>>

-----------------------------------------------------------------------------
(* People and git.                                                         *)

OpenBranch(b) ==
  /\ b \notin open
  /\ opened < MaxBranches
  /\ open' = open \cup {b}
  /\ base' = [base EXCEPT ![b] = main]
  /\ work' = [work EXCEPT ![b] = main]
  /\ opened' = opened + 1
  /\ UNCHANGED <<tagged, moved, main, fetch, fetched>>

\* Writing a check, or revising it: its author reads the statements it is bound
\* to in the branch's catalog, and pins them.
WriteCheck(b) ==
  /\ b \in open
  /\ CatalogLoads(work[b])
  /\ \E p \in Paths, draft \in Drafts :
       /\ \A c \in draft.binds : Statement(work[b], c) # Withdrawn
       /\ work' = [work EXCEPT ![b] = WithCheck(@, p,
                     CheckOf(draft, [c \in draft.binds |-> Statement(work[b], c)]))]
  /\ UNCHANGED <<tagged, moved, main, base, open, fetch, opened, fetched>>

\* "Re-affirm or revise this check, then update the hash."
AffirmCheck(b) ==
  /\ b \in open
  /\ CatalogLoads(work[b])
  /\ \E p \in CheckFiles(work[b]) :
       LET check == work[b].checks[p]
           now   == [c \in DOMAIN check.pins |-> Statement(work[b], c)]
       IN  /\ \A c \in DOMAIN now : now[c] # Withdrawn
           /\ work' = [work EXCEPT ![b] =
                         WithCheck(@, p, [check EXCEPT !.pins = now, !.seen = now])]
  /\ UNCHANGED <<tagged, moved, main, base, open, fetch, opened, fetched>>

RemoveCheck(b) ==
  /\ b \in open
  /\ \E p \in CheckFiles(work[b]) : work' = [work EXCEPT ![b] = WithCheck(@, p, NoCheck)]
  /\ UNCHANGED <<tagged, moved, main, base, open, fetch, opened, fetched>>

\* A three-way merge of files: what only one side changed is taken from it.
Conflicts(from, ours, theirs) ==
  {f \in DOMAIN from : ours[f] # from[f] /\ theirs[f] # from[f] /\ ours[f] # theirs[f]}

ThreeWay(from, ours, theirs) ==
  [f \in DOMAIN from |-> IF theirs[f] = from[f] THEN ours[f] ELSE theirs[f]]

MergedTree(from, ours, theirs) ==
  [vendored  |-> ThreeWay(from.vendored, ours.vendored, theirs.vendored),
   manifests |-> ThreeWay(from.manifests, ours.manifests, theirs.manifests),
   checks    |-> ThreeWay(from.checks, ours.checks, theirs.checks),
   pin       |-> IF theirs.pin = from.pin THEN ours.pin ELSE theirs.pin]

\* A branch is merged, whatever CI says of it or of main; both sides of a
\* conflicting file are somebody's to sort out, and then it is another branch.
MergeBranch(b) ==
  /\ b \in open
  /\ fetch[b].step # "fetching"
  /\ Conflicts(base[b].vendored, main.vendored, work[b].vendored) = {}
  /\ Conflicts(base[b].manifests, main.manifests, work[b].manifests) = {}
  /\ Conflicts(base[b].checks, main.checks, work[b].checks) = {}
  /\ work[b].pin = base[b].pin \/ main.pin \in {base[b].pin, work[b].pin}
  /\ main' = MergedTree(base[b], main, work[b])
  /\ open' = open \ {b}
  /\ base' = [base EXCEPT ![b] = FirstTree]
  /\ work' = [work EXCEPT ![b] = FirstTree]
  /\ fetch' = [fetch EXCEPT ![b] = NotFetching]
  /\ UNCHANGED <<tagged, moved, opened, fetched>>

\* ASD moves a tag.
MoveTag ==
  /\ Cardinality(moved) < MaxMoves
  /\ \E g \in Tags, c \in Commits :
       /\ tagged[g] # c
       /\ tagged' = [tagged EXCEPT ![g] = c]
       /\ moved' = moved \cup {g}
  /\ UNCHANGED <<main, base, work, open, fetch, opened, fetched>>

Fetch(b) == ResolveTag(b) \/ FetchFile(b) \/ WriteManifest(b) \/ StopFetching(b) \/ ReplaceRelease(b)

Author(b) == WriteCheck(b) \/ AffirmCheck(b) \/ RemoveCheck(b)

Next ==
  \/ \E b \in Branches : OpenBranch(b) \/ Fetch(b) \/ Author(b) \/ MergeBranch(b)
  \/ MoveTag

Spec == Init /\ [][Next]_vars

-----------------------------------------------------------------------------
(* What a green tree promises, whoever's it is.                            *)

Download == [step : {"idle", "fetching", "fetched"}, tag : Tags,
             commit : Commits \cup {NoCommit}, sums : Sums]

\* Trees are trees; a branch that is not open has nothing under way, and a fetch
\* that is over has every file.
TypeOK ==
  /\ tagged \in [Tags -> Commits]
  /\ moved \subseteq Tags
  /\ main \in Tree
  /\ base \in [Branches -> Tree]
  /\ work \in [Branches -> Tree]
  /\ open \subseteq Branches
  /\ fetch \in [Branches -> Download]
  /\ \A b \in Branches :
       /\ b \notin open => fetch[b] = NotFetching
       /\ fetch[b].step = "fetched" => DOMAIN fetch[b].sums = Artifacts
  /\ opened \in Nat /\ fetched \in Nat

Trees == {main} \cup {work[b] : b \in open}

\* A check does not keep passing against text that changed: in a tree that
\* validates, every statement a check is bound to is, in the catalog that
\* `cca evaluate` will load, the one its author read last.
\* registry.py:236-252; .github/workflows/ism-release-watch.yml:4-9
GreenIsReviewed ==
  \A t \in Trees : Green(t) =>
    \A p \in CheckFiles(t) : \A c \in DOMAIN t.checks[p].seen :
      t.checks[p].seen[c] = CatalogText[CatalogBytes(t)][c]

\* In a tree that validates, the release that `cca evaluate` will load is whole,
\* and published: every artefact is there as ASD's mirror has it at a commit of
\* its own, the manifest's unless the tag was moved.
\* fetch_ism_oscal.py:4-7, 176-205; nobytes_cca/paths.py:68-90
GreenIsPublished ==
  \A t \in Trees : Green(t) =>
    \A a \in Artifacts : \E c \in Commits :
      /\ t.vendored[<<Release(t), a>>] = Published[c][a]
      /\ c = t.manifests[Release(t)].commit \/ Release(t) \in moved

=============================================================================
