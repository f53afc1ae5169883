----------------------------- MODULE PathRules ------------------------------
(***************************************************************************)
(* The path arithmetic of checks/windows/appcontrol_paths.py: which        *)
(* directories an AppLocker path pattern covers, and which rules permit    *)
(* execution from them.                                                    *)
(*                                                                         *)
(* A path is the sequence of its segments, normalised (upper case, no      *)
(* trailing separator).  A pattern has two more segments: the wildcard,    *)
(* which fnmatch lets stand for one segment or for several, and its kin    *)
(* that must end in .EXE.                                                  *)
(***************************************************************************)
EXTENDS Integers, Sequences, SequencesExt, FiniteSets

CONSTANT Segments    \* the segments of paths and patterns

Star    == "*"
StarExe == "*.EXE"

Wildcards == {Star, StarExe}

\* Segments of files that can be run.
Executables == {"RUN.EXE", "OTHER.EXE"}

\* Names that the arithmetic below puts into paths are segments like others.
ASSUME SegmentsAssumption ==
  Wildcards \cup Executables \cup
    {"C:", "WINDOWS", "SYSTEM32", "SYSWOW64", "PROGRAM FILES", "PROGRAM FILES (X86)"}
      \subseteq Segments

HasWildcard(pattern) == \E i \in 1..Len(pattern) : pattern[i] \in Wildcards

-----------------------------------------------------------------------------
(* Matching.                                                               *)

\* Where the i-th segment of the pattern can end in the path, from where what is
\* before it can end.
Ends(pattern, path, i, starts) ==
  {j \in 1..Len(path) :
     CASE pattern[i] = Star -> \E k \in starts : k < j
       [] pattern[i] = StarExe -> path[j] \in Executables /\ \E k \in starts : k < j
       [] OTHER -> path[j] = pattern[i] /\ j - 1 \in starts}

\* The lengths of the prefixes of the path that the first i segments match.
Reached(pattern, path) ==
  LET reached[i \in 0..Len(pattern)] ==
        IF i = 0 THEN {0} ELSE Ends(pattern, path, i, reached[i - 1])
  IN  reached

\* fnmatch.fnmatchcase(path, pattern).
Matches(pattern, path) == Len(path) \in Reached(pattern, path)[Len(pattern)]

\* _expand: what AppLocker's variables stand for on this host.  Some stand for
\* two directories, removable media for none.
Expand(pattern) ==
  LET with(prefixes) == {p \o Tail(pattern) : p \in prefixes}
  IN  IF pattern = <<>> THEN {}
      ELSE CASE Head(pattern) = "%OSDRIVE%" -> with({<<"C:">>})
             [] Head(pattern) = "%WINDIR%"  -> with({<<"C:", "WINDOWS">>})
             [] Head(pattern) = "%SYSTEM32%" ->
                  with({<<"C:", "WINDOWS", "SYSTEM32">>, <<"C:", "WINDOWS", "SYSWOW64">>})
             [] Head(pattern) = "%PROGRAMFILES%" ->
                  with({<<"C:", "PROGRAM FILES">>, <<"C:", "PROGRAM FILES (X86)">>})
             [] Head(pattern) \in {"%REMOVABLE%", "%HOT%"} -> {}
             [] OTHER -> {pattern}

\* _contains: the location lies wholly inside what the pattern matches.  A rule
\* written X\* governs X itself.
PatternContains(pattern, location) ==
  \E e \in Expand(pattern) :
    \/ Matches(e, location)
    \/ Matches(Append(e, Star), location)
    \/ Last(e) = Star /\ Len(e) > 1 /\ Matches(Front(e), location)

\* The literal part of a pattern, before its first wildcard.
Stem(pattern) ==
  SubSeq(pattern, 1, CHOOSE n \in 0..Len(pattern) :
    /\ \A i \in 1..n : pattern[i] \notin Wildcards
    /\ n = Len(pattern) \/ pattern[n + 1] \in Wildcards)

\* _covers: some of the location is inside what the pattern matches; the
\* pattern may be narrower than the location.
PatternCovers(pattern, location) ==
  \/ PatternContains(pattern, location)
  \/ \E e \in Expand(pattern) : Stem(e) # <<>> /\ IsPrefix(location, Stem(e))

-----------------------------------------------------------------------------
(* Rules.                                                                  *)

\* An exception or a deny taken to count as soon as it covers some of it.
PermittingUnlessTouched(rules, location) ==
  LET denied == UNION {r.paths : r \in {q \in rules : q.action = "deny"}}
  IN  {r \in rules :
         /\ r.action = "allow"
         /\ \E p \in r.paths : PatternCovers(p, location)
         /\ ~\E p \in r.exceptions \cup denied : PatternCovers(p, location)}

\* The rules of a collection that the policy permits execution from a location
\* by.  Deny beats allow within a collection; an exception or a deny counts
\* only when it contains the whole location.
Permitting(rules, location) ==
  LET denied == UNION {r.paths : r \in {q \in rules : q.action = "deny"}}
  IN  {r \in rules :
         /\ r.action = "allow"
         /\ \E p \in r.paths : PatternCovers(p, location)
         /\ ~\E p \in r.exceptions \cup denied : PatternContains(p, location)}

\* Allow rules whose path conditions were not read.
Unparsed(rules) == {r \in rules : r.action = "allow" /\ r.paths = {} /\ ~r.others}

-----------------------------------------------------------------------------
(* What AppLocker does with a file, for comparison: a pattern matches files, *)
(* a directory's name stands for everything below it.                        *)

Governs(pattern, file) ==
  \E e \in Expand(pattern) : Matches(e, file) \/ Matches(Append(e, Star), file)

\* A rule applies to a file unless one of its exceptions does.
AppliesTo(rule, file) ==
  /\ \E p \in rule.paths : Governs(p, file)
  /\ ~\E p \in rule.exceptions : Governs(p, file)

\* May one of these principals run the file?
MayRun(rules, principals, file) ==
  LET for(action) == {r \in rules : r.action = action /\ AppliesTo(r, file)}
  IN  /\ \E r \in for("allow") : r.sid \in principals
      /\ ~\E r \in for("deny") : r.sid \in principals

=============================================================================
