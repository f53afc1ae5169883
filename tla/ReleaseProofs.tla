---------------------------- MODULE ReleaseProofs ----------------------------
(***************************************************************************)
(* What `make validate` proves, for every history of the repository.       *)
(*                                                                         *)
(* Validation looks at one tree and knows nothing of how it came to be; so *)
(* both theorems need an invariant of all trees, branches' bases included, *)
(* that a merge of any two of them keeps: pins are what authors read, and  *)
(* manifests are of files that upstream published.                         *)
(***************************************************************************)
EXTENDS ReleaseBump, TLAPS

-----------------------------------------------------------------------------
(* Functions of unknown domain.                                            *)

LEMMA SumsIntro ==
  ASSUME NEW S \in SUBSET Artifacts, NEW f \in [S -> Contents]
  PROVE  f \in Sums
BY DEF Sums

LEMMA SumsElim ==
  ASSUME NEW f \in Sums
  PROVE  f \in [DOMAIN f -> Contents] /\ DOMAIN f \subseteq Artifacts
<1>1. PICK S \in SUBSET Artifacts : f \in [S -> Contents]
  BY DEF Sums
<1> QED
  BY <1>1

LEMMA StatementsIntro ==
  ASSUME NEW S \in SUBSET Controls, NEW f \in [S -> Texts]
  PROVE  f \in Statements
BY DEF Statements

LEMMA StatementsElim ==
  ASSUME NEW f \in Statements
  PROVE  f \in [DOMAIN f -> Texts] /\ DOMAIN f \subseteq Controls
<1>1. PICK S \in SUBSET Controls : f \in [S -> Texts]
  BY DEF Statements
<1> QED
  BY <1>1

-----------------------------------------------------------------------------
(* Types of trees.                                                         *)

LEMMA PublishedContents ==
  ASSUME NEW c \in Commits, NEW a \in Artifacts
  PROVE  Published[c][a] \in Contents
BY UpstreamAssumption

LEMMA NoManifestType == NoManifest \in Manifest
<1>1. [a \in {} |-> Absent] \in Sums
  <2>1. [a \in {} |-> Absent] \in [{} -> Contents]
    OBVIOUS
  <2> QED
    BY <2>1, SumsIntro
<1> QED
  BY <1>1 DEF NoManifest, Manifest

LEMMA NoCheckType == NoCheck \in CheckFile
<1>1. [c \in {} |-> Withdrawn] \in Statements
  <2>1. [c \in {} |-> Withdrawn] \in [{} -> Texts]
    OBVIOUS
  <2> QED
    BY <2>1, StatementsIntro
<1> QED
  BY <1>1 DEF NoCheck, CheckFile

LEMMA NotFetchingType == ASSUME NEW g \in Tags PROVE NotFetching \in Download
<1>1. (CHOOSE x \in Tags : TRUE) \in Tags
  OBVIOUS
<1>2. [a \in {} |-> Absent] \in Sums
  BY NoManifestType DEF NoManifest, Manifest
<1> QED
  BY <1>1, <1>2 DEF NotFetching, Download

\* A merge takes every file from one side or the other.
LEMMA ThreeWayPicks ==
  ASSUME NEW S, NEW T, NEW from \in [S -> T], NEW ours \in [S -> T], NEW theirs \in [S -> T]
  PROVE  /\ ThreeWay(from, ours, theirs) \in [S -> T]
         /\ \A f \in S : ThreeWay(from, ours, theirs)[f] \in {ours[f], theirs[f]}
BY DEF ThreeWay

LEMMA WithArtifactType ==
  ASSUME NEW t \in Tree, NEW g \in Tags, NEW a \in Artifacts,
         NEW bytes \in Contents \cup {Absent, Torn}
  PROVE  WithArtifact(t, g, a, bytes) \in Tree
BY DEF WithArtifact, Tree

LEMMA WithManifestType ==
  ASSUME NEW t \in Tree, NEW g \in Tags, NEW manifest \in Manifest
  PROVE  WithManifest(t, g, manifest) \in Tree
BY DEF WithManifest, Tree

LEMMA WithCheckType ==
  ASSUME NEW t \in Tree, NEW p \in Paths, NEW check \in CheckFile
  PROVE  WithCheck(t, p, check) \in Tree
BY DEF WithCheck, Tree

LEMMA ReplacedType ==
  ASSUME NEW t \in Tree, NEW g \in Tags
  PROVE  Replaced(t, g) \in Tree
BY NoManifestType DEF Replaced, Tree

LEMMA MergedTreeType ==
  ASSUME NEW from \in Tree, NEW ours \in Tree, NEW theirs \in Tree
  PROVE  MergedTree(from, ours, theirs) \in Tree
BY ThreeWayPicks DEF MergedTree, Tree

\* The statement of a control, in a catalog that loads.
LEMMA StatementType ==
  ASSUME NEW t \in Tree, CatalogLoads(t), NEW c \in Controls
  PROVE  Statement(t, c) \in Texts \cup {Withdrawn}
<1>1. Release(t) \in Tags
  BY DEF CatalogLoads, Release
<1>2. CatalogBytes(t) \in Contents
  BY <1>1, UpstreamAssumption DEF CatalogLoads, CatalogBytes, Tree
<1> QED
  BY <1>2, UpstreamAssumption DEF Statement

-----------------------------------------------------------------------------
(* Type correctness.                                                       *)

LEMMA TypeInit == Init => TypeOK
<1> SUFFICES ASSUME Init PROVE TypeOK
  OBVIOUS
<1>1. FirstTree \in Tree /\ FirstTree.pin \in Tags
  BY FirstTreeAssumption DEF Tree
<1>2. NotFetching \in Download
  BY <1>1, NotFetchingType
<1>3. NotFetching.step = "idle"
  BY DEF NotFetching
<1> QED
  BY <1>1, <1>2, <1>3, UpstreamAssumption DEF Init, TypeOK

LEMMA TypeResolveTag == TypeOK /\ (\E b \in Branches : ResolveTag(b)) => TypeOK'
<1> SUFFICES ASSUME TypeOK, NEW b \in Branches, ResolveTag(b) PROVE TypeOK'
  OBVIOUS
<1>1. PICK g \in Tags :
        fetch' = [fetch EXCEPT ![b] = [step |-> "fetching", tag |-> g, commit |-> tagged[g],
                                       sums |-> [a \in {} |-> Absent]]]
  BY DEF ResolveTag
<1>2. [a \in {} |-> Absent] \in Sums
  BY NoManifestType DEF NoManifest, Manifest
<1>3. [step |-> "fetching", tag |-> g, commit |-> tagged[g], sums |-> [a \in {} |-> Absent]]
        \in Download
  BY <1>2 DEF Download, TypeOK
<1>4. fetch' \in [Branches -> Download]
  BY <1>1, <1>3 DEF TypeOK
<1>5. \A x \in Branches : /\ x \notin open => fetch'[x] = NotFetching
                          /\ fetch'[x].step = "fetched" => DOMAIN fetch'[x].sums = Artifacts
  BY <1>1 DEF ResolveTag, TypeOK
<1> QED
  BY <1>4, <1>5 DEF ResolveTag, TypeOK

\* The checksums after one more file.
LEMMA OneMoreFile ==
  ASSUME NEW sums \in Sums, NEW a \in Artifacts, NEW bytes \in Contents
  PROVE  [x \in DOMAIN sums \cup {a} |-> IF x = a THEN bytes ELSE sums[x]] \in Sums
<1> DEFINE S == DOMAIN sums \cup {a}
           f == [x \in S |-> IF x = a THEN bytes ELSE sums[x]]
<1>1. sums \in [DOMAIN sums -> Contents] /\ DOMAIN sums \subseteq Artifacts
  BY SumsElim
<1>2. S \in SUBSET Artifacts /\ f \in [S -> Contents]
  BY <1>1
<1> HIDE DEF S, f
<1>3. f \in Sums
  BY <1>2, SumsIntro
<1> QED
  BY <1>3 DEF S, f

LEMMA TypeFetchFile == TypeOK /\ (\E b \in Branches : FetchFile(b)) => TypeOK'
<1> SUFFICES ASSUME TypeOK, NEW b \in Branches, FetchFile(b) PROVE TypeOK'
  OBVIOUS
<1> DEFINE g == fetch[b].tag
           sums == fetch[b].sums
<1>1. fetch[b].step = "fetching" /\ g \in Tags /\ sums \in Sums /\ work[b] \in Tree
  BY DEF FetchFile, TypeOK, Download
<1>2. PICK a \in Due(sums) :
        /\ work' = [work EXCEPT ![b] = WithArtifact(work[b], g, a, Published[tagged[g]][a])]
        /\ fetch' = [fetch EXCEPT ![b].sums =
             [x \in DOMAIN sums \cup {a} |-> IF x = a THEN Published[tagged[g]][a] ELSE sums[x]]]
  BY DEF FetchFile
<1>3. a \in Artifacts /\ Published[tagged[g]][a] \in Contents
  BY <1>1, PublishedContents DEF Due, TypeOK
<1>4. WithArtifact(work[b], g, a, Published[tagged[g]][a]) \in Tree
  BY <1>1, <1>3, WithArtifactType
<1>5. work' \in [Branches -> Tree]
  BY <1>2, <1>4 DEF TypeOK
<1> DEFINE more == [x \in DOMAIN sums \cup {a} |->
                      IF x = a THEN Published[tagged[g]][a] ELSE sums[x]]
<1>6. more \in Sums
  BY <1>1, <1>3, OneMoreFile
<1>7. fetch' = [fetch EXCEPT ![b] = [fetch[b] EXCEPT !.sums = more]]
  BY <1>2
<1> HIDE DEF more
<1>8. [fetch[b] EXCEPT !.sums = more] \in Download
  BY <1>6 DEF Download, TypeOK
<1>9. [fetch[b] EXCEPT !.sums = more].step = "fetching"
  BY <1>1 DEF TypeOK, Download
<1>10. fetch' \in [Branches -> Download]
  BY <1>7, <1>8 DEF TypeOK
<1>11. b \in open
  BY <1>1 DEF TypeOK, NotFetching
<1>12. \A x \in Branches : /\ x \notin open => fetch'[x] = NotFetching
                           /\ fetch'[x].step = "fetched" => DOMAIN fetch'[x].sums = Artifacts
  BY <1>7, <1>9, <1>11 DEF TypeOK
<1> QED
  BY <1>5, <1>10, <1>12 DEF FetchFile, TypeOK

LEMMA TypeWriteManifest == TypeOK /\ (\E b \in Branches : WriteManifest(b)) => TypeOK'
<1> SUFFICES ASSUME TypeOK, NEW b \in Branches, WriteManifest(b) PROVE TypeOK'
  OBVIOUS
<1> DEFINE m == [commit |-> fetch[b].commit, sums |-> fetch[b].sums]
           t == WithManifest(work[b], fetch[b].tag, m)
           done == [fetch[b] EXCEPT !.step = "fetched"]
<1>1. m \in Manifest /\ fetch[b].tag \in Tags /\ done \in Download
  BY DEF TypeOK, Download, Manifest
<1>2. t \in Tree
  BY <1>1, WithManifestType DEF TypeOK
<1>3. work' = [work EXCEPT ![b] = t] /\ fetch' = [fetch EXCEPT ![b] = done]
  BY DEF WriteManifest
<1>4. done.sums = fetch[b].sums /\ DOMAIN fetch[b].sums = Artifacts
  BY DEF WriteManifest, TypeOK, Download
<1>5. b \in open
  BY DEF WriteManifest, TypeOK, NotFetching
<1> HIDE DEF m, t, done
<1>6. work' \in [Branches -> Tree] /\ fetch' \in [Branches -> Download]
  BY <1>1, <1>2, <1>3 DEF TypeOK
<1>7. \A x \in Branches : /\ x \notin open => fetch'[x] = NotFetching
                          /\ fetch'[x].step = "fetched" => DOMAIN fetch'[x].sums = Artifacts
  BY <1>3, <1>4, <1>5 DEF TypeOK
<1> QED
  BY <1>6, <1>7 DEF WriteManifest, TypeOK

LEMMA TypeStopFetching == TypeOK /\ (\E b \in Branches : StopFetching(b)) => TypeOK'
<1> SUFFICES ASSUME TypeOK, NEW b \in Branches, StopFetching(b) PROVE TypeOK'
  OBVIOUS
<1>1. work' \in [Branches -> Tree]
  <2>1. CASE UNCHANGED work
    BY <2>1 DEF TypeOK
  <2>2. ASSUME NEW a \in Due(fetch[b].sums),
               work' = [work EXCEPT ![b] = WithArtifact(work[b], fetch[b].tag, a, Torn)]
        PROVE  work' \in [Branches -> Tree]
    <3>1. WithArtifact(work[b], fetch[b].tag, a, Torn) \in Tree
      BY WithArtifactType DEF Due, TypeOK, Download
    <3> QED
      BY <2>2, <3>1 DEF TypeOK
  <2> QED
    BY <2>1, <2>2 DEF StopFetching
<1>2. NotFetching \in Download /\ NotFetching.step = "idle"
  <2>1. fetch[b].tag \in Tags
    BY DEF TypeOK, Download
  <2> QED
    BY <2>1, NotFetchingType DEF NotFetching
<1> QED
  BY <1>1, <1>2 DEF StopFetching, TypeOK

LEMMA TypeReplaceRelease == TypeOK /\ (\E b \in Branches : ReplaceRelease(b)) => TypeOK'
<1> SUFFICES ASSUME TypeOK, NEW b \in Branches, ReplaceRelease(b) PROVE TypeOK'
  OBVIOUS
<1>1. fetch[b].tag \in Tags /\ work[b] \in Tree
  BY DEF TypeOK, Download
<1>2. Replaced(work[b], fetch[b].tag) \in Tree
  BY <1>1, ReplacedType
<1>3. NotFetching \in Download /\ NotFetching.step = "idle"
  BY <1>1, NotFetchingType DEF NotFetching
<1> QED
  BY <1>2, <1>3 DEF ReplaceRelease, TypeOK

\* What an author does to a branch.
LEMMA AuthorWrites ==
  ASSUME TypeOK, NEW b \in Branches, Author(b)
  PROVE  \E p \in Paths, check \in CheckFile :
           /\ work' = [work EXCEPT ![b] = WithCheck(work[b], p, check)]
           /\ check.pins = check.seen
<1>1. CASE WriteCheck(b)
  <2>1. PICK p \in Paths, draft \in Drafts :
          /\ \A c \in draft.binds : Statement(work[b], c) # Withdrawn
          /\ work' = [work EXCEPT ![b] = WithCheck(work[b], p,
               CheckOf(draft, [c \in draft.binds |-> Statement(work[b], c)]))]
    BY <1>1 DEF WriteCheck
  <2> DEFINE pins == [c \in draft.binds |-> Statement(work[b], c)]
  <2>2. /\ draft.binds \in SUBSET Controls /\ draft.id \in Ids
        /\ draft.automated \in BOOLEAN /\ draft.resolves \in BOOLEAN
        /\ draft.freshness \in Nat /\ draft.renewal \in Nat
    BY DraftsAssumption
  <2>3. \A c \in draft.binds : Statement(work[b], c) \in Texts
    BY <1>1, <2>1, <2>2, StatementType DEF WriteCheck, TypeOK
  <2>4. pins \in [draft.binds -> Texts]
    BY <2>3
  <2> HIDE DEF pins
  <2>5. pins \in Statements
    BY <2>2, <2>4, StatementsIntro
  <2>6. CheckOf(draft, pins) \in CheckFile
    BY <2>2, <2>5 DEF CheckOf, CheckFile
  <2>7. CheckOf(draft, pins).pins = CheckOf(draft, pins).seen
    BY DEF CheckOf
  <2>8. work' = [work EXCEPT ![b] = WithCheck(work[b], p, CheckOf(draft, pins))]
    BY <2>1 DEF pins
  <2> QED
    BY <2>6, <2>7, <2>8
<1>2. CASE AffirmCheck(b)
  <2>1. PICK p \in CheckFiles(work[b]) :
          LET check == work[b].checks[p]
              now   == [c \in DOMAIN check.pins |-> Statement(work[b], c)]
          IN  /\ \A c \in DOMAIN now : now[c] # Withdrawn
              /\ work' = [work EXCEPT ![b] =
                            WithCheck(work[b], p, [check EXCEPT !.pins = now, !.seen = now])]
    BY <1>2 DEF AffirmCheck
  <2> DEFINE check == work[b].checks[p]
             S     == DOMAIN check.pins
             now   == [c \in S |-> Statement(work[b], c)]
             new   == [check EXCEPT !.pins = now, !.seen = now]
  <2>2. p \in Paths /\ check \in CheckFile
    BY DEF CheckFiles, TypeOK, Tree
  <2>3. check.pins \in Statements
    BY <2>2 DEF CheckFile
  <2>4. S \in SUBSET Controls
    BY <2>3, StatementsElim
  <2>5. \A c \in S : Statement(work[b], c) \in Texts
    BY <1>2, <2>1, <2>4, StatementType DEF AffirmCheck, TypeOK
  <2>6. now \in [S -> Texts]
    BY <2>5
  <2>7. work' = [work EXCEPT ![b] = WithCheck(work[b], p, new)]
    BY <2>1
  <2> HIDE DEF now, S
  <2>8. now \in Statements
    BY <2>4, <2>6, StatementsIntro
  <2>9. new \in CheckFile /\ new.pins = new.seen
    BY <2>2, <2>8 DEF CheckFile
  <2> QED
    BY <2>2, <2>7, <2>9
<1>3. CASE RemoveCheck(b)
  <2>1. PICK p \in CheckFiles(work[b]) :
          work' = [work EXCEPT ![b] = WithCheck(work[b], p, NoCheck)]
    BY <1>3 DEF RemoveCheck
  <2>2. p \in Paths /\ NoCheck.pins = NoCheck.seen
    BY DEF CheckFiles, NoCheck
  <2> QED
    BY <2>1, <2>2, NoCheckType
<1> QED
  BY <1>1, <1>2, <1>3 DEF Author

LEMMA TypeAuthor == TypeOK /\ (\E b \in Branches : Author(b)) => TypeOK'
<1> SUFFICES ASSUME TypeOK, NEW b \in Branches, Author(b) PROVE TypeOK'
  OBVIOUS
<1>1. PICK p \in Paths, check \in CheckFile :
        work' = [work EXCEPT ![b] = WithCheck(work[b], p, check)]
  BY AuthorWrites
<1>2. WithCheck(work[b], p, check) \in Tree
  BY WithCheckType DEF TypeOK
<1>3. work' \in [Branches -> Tree]
  BY <1>1, <1>2 DEF TypeOK
<1>4. UNCHANGED <<tagged, moved, main, base, open, fetch, opened, fetched>>
  BY DEF Author, WriteCheck, AffirmCheck, RemoveCheck
<1> QED
  BY <1>3, <1>4 DEF TypeOK

LEMMA TypeBranches ==
  TypeOK /\ (\E b \in Branches : OpenBranch(b) \/ MergeBranch(b)) => TypeOK'
<1> SUFFICES ASSUME TypeOK, NEW b \in Branches, OpenBranch(b) \/ MergeBranch(b) PROVE TypeOK'
  OBVIOUS
<1>1. CASE OpenBranch(b)
  BY <1>1 DEF OpenBranch, TypeOK
<1>2. CASE MergeBranch(b)
  <2>1. MergedTree(base[b], main, work[b]) \in Tree
    BY MergedTreeType DEF TypeOK
  <2>2. NotFetching \in Download /\ NotFetching.step = "idle"
    <3>1. fetch[b].tag \in Tags
      BY DEF TypeOK, Download
    <3> QED
      BY <3>1, NotFetchingType DEF NotFetching
  <2> QED
    BY <1>2, <2>1, <2>2, FirstTreeAssumption DEF MergeBranch, TypeOK
<1> QED
  BY <1>1, <1>2

LEMMA TypeMoveTag == TypeOK /\ MoveTag => TypeOK'
BY DEF MoveTag, TypeOK

LEMMA TypeStep == TypeOK /\ [Next]_vars => TypeOK'
<1> SUFFICES ASSUME TypeOK, [Next]_vars PROVE TypeOK'
  OBVIOUS
<1>1. CASE \E b \in Branches : Fetch(b)
  BY <1>1, TypeResolveTag, TypeFetchFile, TypeWriteManifest, TypeStopFetching,
     TypeReplaceRelease DEF Fetch
<1>2. CASE UNCHANGED vars
  BY <1>2 DEF vars, TypeOK
<1> QED
  BY <1>1, <1>2, TypeAuthor, TypeBranches, TypeMoveTag DEF Next

\* Trees stay trees, whatever is fetched, written, merged or moved, and a fetch
\* that is over has every file.
THEOREM TypeCorrect == Spec => []TypeOK
BY TypeInit, TypeStep, PTL DEF Spec

-----------------------------------------------------------------------------
(* What every tree keeps, green or not.                                    *)

\* Every check is pinned to what its author read.
Read(t) == \A p \in Paths : t.checks[p].pins = t.checks[p].seen

\* These sums are of what upstream had at commits: at this one, unless the tag
\* is among those that were moved.
OfUpstream(g, commit, sums, M) ==
  \A a \in DOMAIN sums : \E c \in Commits :
    sums[a] = Published[c][a] /\ (c = commit \/ g \in M)

\* A manifest is of every file, and of upstream's.
Vouched(t, M) ==
  \A g \in Tags : t.manifests[g] # NoManifest =>
    /\ DOMAIN t.manifests[g].sums = Artifacts
    /\ OfUpstream(g, t.manifests[g].commit, t.manifests[g].sums, M)

ReadInv == Read(main) /\ \A b \in Branches : Read(base[b]) /\ Read(work[b])

\* A fetch that is under way is of upstream's files, and of the tag as it is
\* unless that was moved.
FetchInv ==
  \A b \in Branches : fetch[b].step # "idle" =>
    /\ OfUpstream(fetch[b].tag, fetch[b].commit, fetch[b].sums, moved)
    /\ fetch[b].tag \notin moved => fetch[b].commit = tagged[fetch[b].tag]

VouchedInv ==
  /\ FetchInv
  /\ Vouched(main, moved)
  /\ \A b \in Branches : Vouched(base[b], moved) /\ Vouched(work[b], moved)

LEMMA ReadMerged ==
  ASSUME NEW from \in Tree, NEW ours \in Tree, NEW theirs \in Tree, Read(ours), Read(theirs)
  PROVE  Read(MergedTree(from, ours, theirs))
<1>1. from.checks \in [Paths -> CheckFile] /\ ours.checks \in [Paths -> CheckFile]
        /\ theirs.checks \in [Paths -> CheckFile]
  BY DEF Tree
<1>2. \A p \in Paths : ThreeWay(from.checks, ours.checks, theirs.checks)[p]
        \in {ours.checks[p], theirs.checks[p]}
  BY <1>1, ThreeWayPicks
<1> QED
  BY <1>2 DEF Read, MergedTree

\* A fetch writes no check.
LEMMA FetchKeepsChecks ==
  ASSUME TypeOK, NEW b \in Branches, Fetch(b)
  PROVE  \/ UNCHANGED work
         \/ \E t \in Tree : t.checks = work[b].checks /\ work' = [work EXCEPT ![b] = t]
<1>1. fetch[b].tag \in Tags /\ work[b] \in Tree
  BY DEF TypeOK, Download
<1>2. CASE ResolveTag(b)
  BY <1>2 DEF ResolveTag
<1>3. ASSUME NEW a \in Artifacts, NEW bytes \in Contents \cup {Absent, Torn},
             work' = [work EXCEPT ![b] = WithArtifact(work[b], fetch[b].tag, a, bytes)]
      PROVE  \E t \in Tree : t.checks = work[b].checks /\ work' = [work EXCEPT ![b] = t]
  <2>1. WithArtifact(work[b], fetch[b].tag, a, bytes) \in Tree
    BY <1>1, WithArtifactType
  <2>2. WithArtifact(work[b], fetch[b].tag, a, bytes).checks = work[b].checks
    BY <1>1 DEF WithArtifact, Tree
  <2> QED
    BY <1>3, <2>1, <2>2
<1>4. CASE FetchFile(b)
  <2>1. PICK a \in Due(fetch[b].sums) : work' = [work EXCEPT ![b] =
          WithArtifact(work[b], fetch[b].tag, a, Published[tagged[fetch[b].tag]][a])]
    BY <1>4 DEF FetchFile
  <2>2. a \in Artifacts /\ Published[tagged[fetch[b].tag]][a] \in Contents
    BY <1>1, PublishedContents DEF Due, TypeOK
  <2> QED
    BY <1>3, <2>1, <2>2
<1>5. CASE WriteManifest(b)
  <2> DEFINE m == [commit |-> fetch[b].commit, sums |-> fetch[b].sums]
  <2>1. m \in Manifest
    BY DEF TypeOK, Download, Manifest
  <2>2. WithManifest(work[b], fetch[b].tag, m) \in Tree
    BY <1>1, <2>1, WithManifestType
  <2>3. WithManifest(work[b], fetch[b].tag, m).checks = work[b].checks
    BY <1>1 DEF WithManifest, Tree
  <2>4. work' = [work EXCEPT ![b] = WithManifest(work[b], fetch[b].tag, m)]
    BY <1>5 DEF WriteManifest
  <2> QED
    BY <2>2, <2>3, <2>4
<1>6. CASE StopFetching(b)
  <2>1. CASE UNCHANGED work
    BY <2>1
  <2>2. CASE \E a \in Due(fetch[b].sums) :
               work' = [work EXCEPT ![b] = WithArtifact(work[b], fetch[b].tag, a, Torn)]
    BY <1>3, <2>2 DEF Due
  <2> QED
    BY <1>6, <2>1, <2>2 DEF StopFetching
<1>7. CASE ReplaceRelease(b)
  <2>1. Replaced(work[b], fetch[b].tag) \in Tree
    BY <1>1, ReplacedType
  <2>2. Replaced(work[b], fetch[b].tag).checks = work[b].checks
    BY DEF Replaced
  <2> QED
    BY <1>7, <2>1, <2>2 DEF ReplaceRelease
<1> QED
  BY <1>2, <1>4, <1>5, <1>6, <1>7 DEF Fetch

LEMMA ReadStep == TypeOK /\ TypeOK' /\ ReadInv /\ [Next]_vars => ReadInv'
<1> SUFFICES ASSUME TypeOK, ReadInv, [Next]_vars PROVE ReadInv'
  OBVIOUS
<1>1. ASSUME NEW b \in Branches, Fetch(b) PROVE ReadInv'
  <2>1. \/ UNCHANGED work
        \/ \E t \in Tree : t.checks = work[b].checks /\ work' = [work EXCEPT ![b] = t]
    BY <1>1, FetchKeepsChecks
  <2>2. UNCHANGED <<main, base>>
    BY <1>1 DEF Fetch, ResolveTag, FetchFile, WriteManifest, StopFetching, ReplaceRelease
  <2> QED
    BY <2>1, <2>2 DEF ReadInv, Read, TypeOK
<1>2. ASSUME NEW b \in Branches, Author(b) PROVE ReadInv'
  <2>1. PICK p \in Paths, check \in CheckFile :
          work' = [work EXCEPT ![b] = WithCheck(work[b], p, check)] /\ check.pins = check.seen
    BY <1>2, AuthorWrites
  <2>2. Read(WithCheck(work[b], p, check))
    <3>1. WithCheck(work[b], p, check).checks = [work[b].checks EXCEPT ![p] = check]
      BY DEF WithCheck, TypeOK, Tree
    <3>2. work[b].checks \in [Paths -> CheckFile]
      BY DEF TypeOK, Tree
    <3> QED
      BY <2>1, <3>1, <3>2 DEF ReadInv, Read
  <2>3. UNCHANGED <<main, base>>
    BY <1>2 DEF Author, WriteCheck, AffirmCheck, RemoveCheck
  <2> QED
    BY <2>1, <2>2, <2>3 DEF ReadInv, TypeOK
<1>3. ASSUME NEW b \in Branches, OpenBranch(b) PROVE ReadInv'
  BY <1>3 DEF OpenBranch, ReadInv, TypeOK
<1>4. ASSUME NEW b \in Branches, MergeBranch(b) PROVE ReadInv'
  <2>1. Read(MergedTree(base[b], main, work[b]))
    BY ReadMerged DEF TypeOK, ReadInv
  <2>2. Read(FirstTree)
    BY FirstTreeAssumption DEF Read
  <2> QED
    BY <1>4, <2>1, <2>2 DEF MergeBranch, ReadInv, TypeOK
<1>5. CASE MoveTag
  BY <1>5 DEF MoveTag, ReadInv
<1>6. CASE UNCHANGED vars
  BY <1>6 DEF vars, ReadInv
<1> QED
  BY <1>1, <1>2, <1>3, <1>4, <1>5, <1>6 DEF Next

\* A tree that validates is pinned to what its authors read, and to what it has.
LEMMA ReadIsReviewed == TypeOK /\ ReadInv => GreenIsReviewed
<1> SUFFICES ASSUME TypeOK, ReadInv, NEW t \in Trees, Green(t),
                    NEW p \in CheckFiles(t), NEW c \in DOMAIN t.checks[p].seen
             PROVE  t.checks[p].seen[c] = CatalogText[CatalogBytes(t)][c]
  BY DEF GreenIsReviewed
<1>1. Read(t)
  BY DEF Trees, ReadInv, TypeOK
<1>2. t.checks[p].pins = t.checks[p].seen
  BY <1>1 DEF Read, CheckFiles
<1>3. BindingsSound(t, t.checks[p])
  BY DEF Green, RegistryValid
<1> QED
  BY <1>2, <1>3 DEF BindingsSound, Statement

\* Whatever is merged in whatever order, a tree that validates has no check that
\* is bound to a statement its author has not read.
THEOREM GreenIsReviewedAlways == Spec => []GreenIsReviewed
<1>1. Init => ReadInv
  BY FirstTreeAssumption DEF Init, ReadInv, Read
<1> QED
  BY <1>1, TypeInit, TypeStep, ReadStep, ReadIsReviewed, PTL DEF Spec

-----------------------------------------------------------------------------
(* Manifests.                                                              *)

LEMMA VouchedGrows ==
  ASSUME NEW t, NEW M, NEW N, M \subseteq N, Vouched(t, M)
  PROVE  Vouched(t, N)
BY DEF Vouched, OfUpstream

LEMMA VouchedMerged ==
  ASSUME NEW from \in Tree, NEW ours \in Tree, NEW theirs \in Tree, NEW M,
         Vouched(ours, M), Vouched(theirs, M)
  PROVE  Vouched(MergedTree(from, ours, theirs), M)
<1>1. from.manifests \in [Tags -> Manifest] /\ ours.manifests \in [Tags -> Manifest]
        /\ theirs.manifests \in [Tags -> Manifest]
  BY DEF Tree
<1>2. \A g \in Tags : ThreeWay(from.manifests, ours.manifests, theirs.manifests)[g]
        \in {ours.manifests[g], theirs.manifests[g]}
  BY <1>1, ThreeWayPicks
<1> QED
  BY <1>2 DEF Vouched, MergedTree

LEMMA VouchedManifest ==
  ASSUME NEW t \in Tree, NEW M, NEW g \in Tags, NEW manifest \in Manifest, Vouched(t, M),
         DOMAIN manifest.sums = Artifacts, OfUpstream(g, manifest.commit, manifest.sums, M)
  PROVE  Vouched(WithManifest(t, g, manifest), M)
<1>1. WithManifest(t, g, manifest).manifests = [t.manifests EXCEPT ![g] = manifest]
  BY DEF WithManifest, Tree
<1>2. t.manifests \in [Tags -> Manifest]
  BY DEF Tree
<1>3. \A x \in Tags : WithManifest(t, g, manifest).manifests[x]
                       = IF x = g THEN manifest ELSE t.manifests[x]
  BY <1>1, <1>2
<1> QED
  BY <1>3 DEF Vouched

\* Trees with the manifests of another.
LEMMA VouchedSame ==
  ASSUME NEW t, NEW u, NEW M, Vouched(t, M), u.manifests = t.manifests
  PROVE  Vouched(u, M)
BY DEF Vouched

LEMMA VouchedReplaced ==
  ASSUME NEW t \in Tree, NEW g \in Tags, NEW M, Vouched(t, M)
  PROVE  Vouched(Replaced(t, g), M)
<1>1. t.manifests \in [Tags -> Manifest]
  BY DEF Tree
<1>2. \A x \in Tags : Replaced(t, g).manifests[x] \in {NoManifest, t.manifests[x]}
  BY <1>1 DEF Replaced
<1> QED
  BY <1>2 DEF Vouched

LEMMA FirstTreeVouched == Vouched(FirstTree, {})
<1> SUFFICES ASSUME NEW g \in Tags, FirstTree.manifests[g] # NoManifest
             PROVE  /\ DOMAIN FirstTree.manifests[g].sums = Artifacts
                    /\ OfUpstream(g, FirstTree.manifests[g].commit,
                                  FirstTree.manifests[g].sums, {})
  BY DEF Vouched
<1>1. FirstTree.manifests[g] = [commit |-> FirstTagged[g], sums |-> Published[FirstTagged[g]]]
  BY FirstTreeAssumption
<1>2. FirstTagged[g] \in Commits /\ DOMAIN Published[FirstTagged[g]] = Artifacts
  BY UpstreamAssumption
<1> QED
  BY <1>1, <1>2 DEF OfUpstream

LEMMA VouchedInit == Init => VouchedInv
<1> SUFFICES ASSUME Init PROVE VouchedInv
  OBVIOUS
<1>1. Vouched(FirstTree, {})
  BY FirstTreeVouched
<1>2. \A b \in Branches : fetch[b].step = "idle"
  BY DEF Init, NotFetching
<1> QED
  BY <1>1, <1>2 DEF Init, VouchedInv, FetchInv

LEMMA VouchedResolveTag ==
  ASSUME TypeOK, VouchedInv, NEW b \in Branches, ResolveTag(b)
  PROVE  VouchedInv'
<1>1. PICK g \in Tags :
        fetch' = [fetch EXCEPT ![b] = [step |-> "fetching", tag |-> g, commit |-> tagged[g],
                                       sums |-> [a \in {} |-> Absent]]]
  BY DEF ResolveTag
<1>2. OfUpstream(g, tagged[g], [a \in {} |-> Absent], moved)
  BY DEF OfUpstream
<1>3. FetchInv'
  BY <1>1, <1>2 DEF ResolveTag, TypeOK, VouchedInv, FetchInv
<1> QED
  BY <1>3 DEF ResolveTag, VouchedInv

LEMMA VouchedFetchFile ==
  ASSUME TypeOK, VouchedInv, NEW b \in Branches, FetchFile(b)
  PROVE  VouchedInv'
<1> DEFINE g == fetch[b].tag
           sums == fetch[b].sums
           bytes(a) == Published[tagged[g]][a]
           more(a) == [x \in DOMAIN sums \cup {a} |-> IF x = a THEN bytes(a) ELSE sums[x]]
<1>1. fetch[b].step = "fetching" /\ g \in Tags /\ work[b] \in Tree /\ tagged[g] \in Commits
  BY DEF FetchFile, TypeOK, Download
<1>2. PICK a \in Due(sums) :
        /\ work' = [work EXCEPT ![b] = WithArtifact(work[b], g, a, bytes(a))]
        /\ fetch' = [fetch EXCEPT ![b].sums = more(a)]
  BY DEF FetchFile
<1>3. Vouched(WithArtifact(work[b], g, a, bytes(a)), moved)
  <2>1. WithArtifact(work[b], g, a, bytes(a)).manifests = work[b].manifests
    BY <1>1 DEF WithArtifact, Tree
  <2> QED
    BY <2>1, VouchedSame DEF VouchedInv
<1>4. OfUpstream(g, fetch[b].commit, sums, moved)
        /\ (g \notin moved => fetch[b].commit = tagged[g])
  BY <1>1 DEF VouchedInv, FetchInv
<1>5. OfUpstream(g, fetch[b].commit, more(a), moved)
  <2> SUFFICES ASSUME NEW x \in DOMAIN sums \cup {a}
               PROVE  \E c \in Commits : more(a)[x] = Published[c][x]
                                         /\ (c = fetch[b].commit \/ g \in moved)
    BY DEF OfUpstream
  <2>1. CASE x = a
    BY <1>1, <1>4, <2>1
  <2>2. CASE x # a
    BY <1>4, <2>2 DEF OfUpstream
  <2> QED
    BY <2>1, <2>2
<1> HIDE DEF bytes, more
<1>6. FetchInv'
  <2>1. UNCHANGED <<tagged, moved>>
    BY DEF FetchFile
  <2>2. \A x \in Branches : x # b => fetch'[x] = fetch[x]
    BY <1>2 DEF TypeOK
  <2>3. fetch'[b].tag = g /\ fetch'[b].commit = fetch[b].commit /\ fetch'[b].sums = more(a)
    BY <1>2 DEF TypeOK, Download
  <2> QED
    BY <1>4, <1>5, <2>1, <2>2, <2>3 DEF VouchedInv, FetchInv
<1> QED
  BY <1>2, <1>3, <1>6 DEF FetchFile, VouchedInv, TypeOK

LEMMA VouchedWriteManifest ==
  ASSUME TypeOK, VouchedInv, NEW b \in Branches, WriteManifest(b)
  PROVE  VouchedInv'
<1> DEFINE m == [commit |-> fetch[b].commit, sums |-> fetch[b].sums]
           t == WithManifest(work[b], fetch[b].tag, m)
<1>1. m \in Manifest /\ fetch[b].tag \in Tags
  BY DEF TypeOK, Download, Manifest
<1>2. DOMAIN m.sums = Artifacts /\ OfUpstream(fetch[b].tag, m.commit, m.sums, moved)
  BY DEF WriteManifest, VouchedInv, FetchInv
<1>3. Vouched(t, moved)
  BY <1>1, <1>2, VouchedManifest DEF TypeOK, VouchedInv
<1>4. work' = [work EXCEPT ![b] = t]
  BY DEF WriteManifest
<1> HIDE DEF t, m
<1>5. FetchInv'
  <2>1. /\ \A x \in Branches : x # b => fetch'[x] = fetch[x]
        /\ fetch[b].step # "idle" /\ fetch'[b].tag = fetch[b].tag
        /\ fetch'[b].commit = fetch[b].commit /\ fetch'[b].sums = fetch[b].sums
    BY DEF WriteManifest, TypeOK, Download
  <2> QED
    BY <2>1 DEF WriteManifest, VouchedInv, FetchInv
<1> QED
  BY <1>3, <1>4, <1>5 DEF WriteManifest, VouchedInv, TypeOK

\* A fetch that is over or was stopped is none.
LEMMA FetchInvEnds ==
  ASSUME TypeOK, FetchInv, NEW b \in Branches, fetch' = [fetch EXCEPT ![b] = NotFetching],
         UNCHANGED <<tagged, moved>>
  PROVE  FetchInv'
<1>1. fetch'[b].step = "idle" /\ \A x \in Branches : x # b => fetch'[x] = fetch[x]
  BY DEF NotFetching, TypeOK
<1> QED
  BY <1>1 DEF FetchInv

LEMMA VouchedStopFetching ==
  ASSUME TypeOK, VouchedInv, NEW b \in Branches, StopFetching(b)
  PROVE  VouchedInv'
<1>1. FetchInv'
  BY FetchInvEnds DEF StopFetching, VouchedInv
<1>2. ASSUME NEW a \in Due(fetch[b].sums)
      PROVE  Vouched(WithArtifact(work[b], fetch[b].tag, a, Torn), moved)
  <2>1. WithArtifact(work[b], fetch[b].tag, a, Torn).manifests = work[b].manifests
    BY DEF WithArtifact, Tree, TypeOK
  <2> QED
    BY <2>1, VouchedSame DEF VouchedInv
<1>3. \A x \in Branches : Vouched(work'[x], moved)
  BY <1>2 DEF StopFetching, VouchedInv, TypeOK
<1> QED
  BY <1>1, <1>3 DEF StopFetching, VouchedInv

LEMMA VouchedReplaceRelease ==
  ASSUME TypeOK, VouchedInv, NEW b \in Branches, ReplaceRelease(b)
  PROVE  VouchedInv'
<1>1. FetchInv'
  BY FetchInvEnds DEF ReplaceRelease, VouchedInv
<1>2. Vouched(Replaced(work[b], fetch[b].tag), moved)
  BY VouchedReplaced DEF TypeOK, Download, VouchedInv
<1> QED
  BY <1>1, <1>2 DEF ReplaceRelease, VouchedInv, TypeOK

LEMMA VouchedAuthor ==
  ASSUME TypeOK, VouchedInv, NEW b \in Branches, Author(b)
  PROVE  VouchedInv'
<1>1. PICK p \in Paths, check \in CheckFile :
        work' = [work EXCEPT ![b] = WithCheck(work[b], p, check)]
  BY AuthorWrites
<1>2. WithCheck(work[b], p, check).manifests = work[b].manifests
  BY DEF WithCheck, Tree, TypeOK
<1>3. Vouched(WithCheck(work[b], p, check), moved)
  BY <1>2, VouchedSame DEF VouchedInv
<1>4. UNCHANGED <<tagged, moved, main, base, fetch>>
  BY DEF Author, WriteCheck, AffirmCheck, RemoveCheck
<1> QED
  BY <1>1, <1>3, <1>4 DEF VouchedInv, FetchInv, TypeOK

LEMMA VouchedBranches ==
  ASSUME TypeOK, VouchedInv, NEW b \in Branches, OpenBranch(b) \/ MergeBranch(b),
         Vouched(FirstTree, moved)
  PROVE  VouchedInv'
<1>1. CASE OpenBranch(b)
  BY <1>1 DEF OpenBranch, VouchedInv, FetchInv, TypeOK
<1>2. CASE MergeBranch(b)
  <2>1. Vouched(MergedTree(base[b], main, work[b]), moved)
    BY VouchedMerged DEF TypeOK, VouchedInv
  <2>2. FetchInv'
    BY <1>2, FetchInvEnds DEF MergeBranch, VouchedInv
  <2> QED
    BY <1>2, <2>1, <2>2 DEF MergeBranch, VouchedInv, TypeOK
<1> QED
  BY <1>1, <1>2

LEMMA VouchedMoveTag == ASSUME TypeOK, VouchedInv, MoveTag PROVE VouchedInv'
<1>1. moved \subseteq moved'
  BY DEF MoveTag
<1>2. FetchInv'
  <2>1. \A g \in Tags : g \notin moved' => g \notin moved /\ tagged'[g] = tagged[g]
    BY DEF MoveTag, TypeOK
  <2>2. \A b \in Branches : fetch[b].tag \in Tags
    BY DEF TypeOK, Download
  <2>3. \A b \in Branches : OfUpstream(fetch[b].tag, fetch[b].commit, fetch[b].sums, moved)
                           => OfUpstream(fetch[b].tag, fetch[b].commit, fetch[b].sums, moved')
    BY <1>1 DEF OfUpstream
  <2> QED
    BY <2>1, <2>2, <2>3 DEF MoveTag, VouchedInv, FetchInv
<1>3. Vouched(main, moved')
  BY <1>1, VouchedGrows DEF VouchedInv
<1>4. \A b \in Branches : Vouched(base[b], moved') /\ Vouched(work[b], moved')
  BY <1>1, VouchedGrows DEF VouchedInv
<1> QED
  BY <1>2, <1>3, <1>4 DEF MoveTag, VouchedInv

LEMMA VouchedStep == TypeOK /\ VouchedInv /\ [Next]_vars => VouchedInv'
<1> SUFFICES ASSUME TypeOK, VouchedInv, [Next]_vars PROVE VouchedInv'
  OBVIOUS
<1>1. Vouched(FirstTree, moved)
  BY FirstTreeVouched, VouchedGrows
<1>2. ASSUME NEW b \in Branches, Fetch(b) PROVE VouchedInv'
  BY <1>2, VouchedResolveTag, VouchedFetchFile, VouchedWriteManifest, VouchedStopFetching,
     VouchedReplaceRelease DEF Fetch
<1>3. CASE UNCHANGED vars
  BY <1>3 DEF vars, VouchedInv, FetchInv
<1> QED
  BY <1>1, <1>2, <1>3, VouchedAuthor, VouchedBranches, VouchedMoveTag DEF Next

\* The release that validation verifies is the one that evaluation loads.
LEMMA GreenPin == ASSUME NEW t \in Tree, Green(t) PROVE Release(t) = t.pin
<1>1. PICK g \in Tags : Releases(t) = {g}
  BY DEF Green, RegistryValid, CatalogLoads
<1>2. Releases(t) = {Release(t)}
  BY <1>1 DEF Release
<1>3. t.pin \in Releases(t)
  BY DEF Green, Verify, Releases, Tree
<1> QED
  BY <1>2, <1>3

LEMMA VouchedIsPublished == TypeOK /\ VouchedInv => GreenIsPublished
<1> SUFFICES ASSUME TypeOK, VouchedInv, NEW t \in Trees, Green(t), NEW a \in Artifacts
             PROVE  \E c \in Commits :
                      /\ t.vendored[<<Release(t), a>>] = Published[c][a]
                      /\ c = t.manifests[Release(t)].commit \/ Release(t) \in moved
  BY DEF GreenIsPublished
<1>1. t \in Tree /\ Vouched(t, moved)
  BY DEF Trees, VouchedInv, TypeOK
<1>2. Release(t) = t.pin /\ t.pin \in Tags
  BY <1>1, GreenPin DEF Tree
<1>3. t.manifests[t.pin] # NoManifest
  BY DEF Green, Verify
<1>4. /\ DOMAIN t.manifests[t.pin].sums = Artifacts
      /\ OfUpstream(t.pin, t.manifests[t.pin].commit, t.manifests[t.pin].sums, moved)
  BY <1>1, <1>2, <1>3 DEF Vouched
<1>5. t.vendored[<<t.pin, a>>] = t.manifests[t.pin].sums[a]
  BY <1>4 DEF Green, Verify
<1> QED
  BY <1>2, <1>4, <1>5 DEF OfUpstream

\* However fetches stop, are retried and are merged: the release that a tree that
\* validates will have loaded is whole, and as upstream published it, at the
\* commit the manifest names unless upstream moved the tag.
THEOREM GreenIsPublishedAlways == Spec => []GreenIsPublished
BY TypeInit, TypeStep, VouchedInit, VouchedStep, VouchedIsPublished, PTL DEF Spec

=============================================================================
