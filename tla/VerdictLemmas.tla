--------------------------- MODULE VerdictLemmas ---------------------------
(***************************************************************************)
(* What an evaluation's arithmetic over its evaluations comes to, for      *)
(* every registry, every evaluator and every set of bundles: the code's    *)
(* evaluations, findings, reasons and figures on the one side, what the    *)
(* evaluators say of the bundles (AssessProperties) on the other.  Nothing *)
(* here speaks of a state.                                                 *)
(***************************************************************************)
EXTENDS AssessProperties, FiniteSetTheorems, WellFoundedInduction, TLAPS

\* An invocation, as Begin records it.
Job == [run : Runs, baseline : Baselines, files : FileLists, total : Totals]

\* The evaluations of an invocation's first n bundles, and of all of them.
EvalsOf(job, n) ==
  UNION {EvaluateBundle(i, job.files[i], job.baseline) : i \in 1..n}

AllEvals(job) == EvalsOf(job, Len(job.files))

\* The results the invocation in place n writes when it gets that far.
ResultsFor(n, job) == Results(n, job.run, job.baseline, AllEvals(job), job.total)

-----------------------------------------------------------------------------
(* Types.                                                                  *)

LEMMA JobTyped ==
  ASSUME NEW job \in Job
  PROVE  /\ job.baseline \subseteq Controls
         /\ job.files \in Seq(Bundle)
         /\ Len(job.files) \in Nat \ {0}
         /\ \A i \in 1..Len(job.files) : job.files[i] \in Bundle
         /\ job.total \in Nat \cup {-1}
<1>1. /\ job.baseline \in Baselines
      /\ job.files \in FileLists
      /\ job.total \in Totals
  BY DEF Job
<1>2. job.files \in Seq(Bundle) /\ job.files # <<>>
  BY <1>1, InputAssumption
<1>3. Len(job.files) \in Nat \ {0} /\ \A i \in 1..Len(job.files) : job.files[i] \in Bundle
  BY <1>2
<1> QED
  BY <1>1, <1>2, <1>3, InputAssumption DEF NotGiven

LEMMA OutcomeTyped ==
  ASSUME NEW c \in Checks, NEW b \in Bundle
  PROVE  /\ Judge(c, b.facts).says \in Statuses \cup {"raises"}
         /\ Judge(c, b.facts).confidence \in Confidences
         /\ Judge(c, b.facts).reason \in Reasons
         /\ Judge(c, b.facts).cites \subseteq FactKeys
         /\ Ceiling[c] \in Confidences
         /\ Window[c] \in Nat
         /\ Freshness[c] \in Nat
         /\ Automated[c] \in BOOLEAN
         /\ Scope[c] \in {"subject", "aggregate"}
         /\ b.subject \in Subjects
<1>1. b.facts \in FactMaps /\ b.subject \in Subjects
  BY DEF Bundle
<1>2. Judge(c, b.facts) \in Outcome
  BY <1>1, JudgeAssumption
<1> QED
  BY <1>1, <1>2, RegistryAssumption DEF Outcome

-----------------------------------------------------------------------------
(* One check against one bundle.                                           *)

\* FactBundle.require lets an evaluator go on exactly when its facts are all
\* there and complete.
LEMMA RequireIsComplete ==
  ASSUME NEW facts, NEW keys
  PROVE  /\ Require(facts, keys) = NoResult <=> Complete(facts, keys)
         /\ Missing(facts, keys) # {} =>
              Require(facts, keys) = Unassessed("collection-error")
         /\ Missing(facts, keys) = {} /\ Incomplete(facts, keys) # {} =>
              Require(facts, keys) = Unassessed("partial-population")
<1>1. /\ Unassessed("collection-error") # NoResult
      /\ Unassessed("partial-population") # NoResult
  <2>1. /\ Unassessed("collection-error").status = "unassessed"
        /\ Unassessed("partial-population").status = "unassessed"
        /\ NoResult.status = "none"
    BY DEF Unassessed, NoResult, Verdict, None
  <2> QED
    BY <2>1
<1> QED
  BY <1>1 DEF Require, Complete

\* What evaluate_check comes to for an automated check, case by case.
LEMMA JudgeCheckCases ==
  ASSUME NEW c \in Checks, NEW b \in Bundle, Automated[c]
  PROVE  LET r == JudgeCheck(c, b.facts, {})
             outcome == Judge(c, b.facts)
         IN  /\ Missing(b.facts, Required[c]) # {} =>
                  r = Unassessed("collection-error")
             /\ Missing(b.facts, Required[c]) = {} /\ Incomplete(b.facts, Required[c]) # {} =>
                  r = Unassessed("partial-population")
             /\ Complete(b.facts, Required[c]) /\ Window[c] > 0 =>
                  r = Unassessed("insufficient-history")
             /\ Complete(b.facts, Required[c]) /\ ~(Window[c] > 0) =>
                  r = WithConfidenceCeiling(Construct(outcome), Ceiling[c])
<1> DEFINE outcome == Judge(c, b.facts)
           guard == Require(b.facts, Required[c])
<1>1. Window[c] \in Nat
  BY OutcomeTyped
<1>2. Window[c] # 0 /\ ~Spans({}, Window[c]) <=> Window[c] > 0
  BY <1>1 DEF Spans
<1>3. \A reason : WithConfidenceCeiling(Unassessed(reason), Ceiling[c]) = Unassessed(reason)
  BY DEF WithConfidenceCeiling, Unassessed, None
<1>4. guard # NoResult => JudgeCheck(c, b.facts, {}) = WithConfidenceCeiling(guard, Ceiling[c])
  BY DEF JudgeCheck
<1>5. guard = NoResult /\ Window[c] > 0 =>
        JudgeCheck(c, b.facts, {})
          = WithConfidenceCeiling(Unassessed("insufficient-history"), Ceiling[c])
  BY <1>2 DEF JudgeCheck
<1>6. guard = NoResult /\ ~(Window[c] > 0) =>
        JudgeCheck(c, b.facts, {}) = WithConfidenceCeiling(Construct(outcome), Ceiling[c])
  BY <1>2 DEF JudgeCheck
<1>7. /\ guard = NoResult <=> Complete(b.facts, Required[c])
      /\ Missing(b.facts, Required[c]) # {} => guard = Unassessed("collection-error")
      /\ Missing(b.facts, Required[c]) = {} /\ Incomplete(b.facts, Required[c]) # {} =>
           guard = Unassessed("partial-population")
  BY RequireIsComplete
<1> HIDE DEF guard, outcome
<1>8. Missing(b.facts, Required[c]) # {} \/ Incomplete(b.facts, Required[c]) # {} =>
        guard # NoResult
  BY <1>7 DEF Complete
<1> QED
  BY <1>3, <1>4, <1>5, <1>6, <1>7, <1>8 DEF outcome

\* The result constructors, by what the evaluator said.
LEMMA ConstructCases ==
  ASSUME NEW outcome, outcome.says \in Statuses \cup {"raises"},
         outcome.confidence \in Confidences, outcome.reason \in Reasons,
         NEW ceiling \in Confidences
  PROVE  LET r == WithConfidenceCeiling(Construct(outcome), ceiling)
         IN  CASE outcome.says \in {"satisfied", "not-satisfied"} /\ outcome.cites # {} ->
                    /\ r.status = outcome.says
                    /\ r.confidence = CappedBy(outcome.confidence, ceiling)
                    /\ r.reason = None
               [] outcome.says = "not-applicable" ->
                    r.status = "not-applicable" /\ r.confidence = None /\ r.reason = None
               [] outcome.says = "unassessed" -> r = Unassessed(outcome.reason)
               [] OTHER -> r = ErrorResult
<1> DEFINE built == Construct(outcome)
           r == WithConfidenceCeiling(built, ceiling)
<1>1. \A c \in Confidences : c # None
  BY DEF Confidences, None
<1>2. CASE outcome.says \in {"satisfied", "not-satisfied"} /\ outcome.cites # {}
  <2>1. built = [status |-> outcome.says, confidence |-> outcome.confidence,
                 reason |-> None, cites |-> outcome.cites]
    BY <1>2 DEF Construct, Verdict
  <2>2. built.confidence # None
    BY <2>1, <1>1
  <2>3. r = [built EXCEPT !.confidence = CappedBy(built.confidence, ceiling)]
    BY <2>2 DEF WithConfidenceCeiling
  <2>4. /\ r.status = outcome.says
        /\ r.confidence = CappedBy(outcome.confidence, ceiling)
        /\ r.reason = None
    BY <2>1, <2>3
  <2> HIDE DEF r, built
  <2> QED
    BY <1>2, <2>4 DEF r, built
<1>3. CASE outcome.says \in {"satisfied", "not-satisfied"} /\ outcome.cites = {}
  <2>1. built = ErrorResult
    BY <1>3 DEF Construct
  <2>2. ErrorResult.confidence = None
    BY DEF ErrorResult
  <2>3. r = ErrorResult
    BY <2>1, <2>2 DEF WithConfidenceCeiling
  <2> QED
    BY <1>3, <2>3
<1>4. CASE outcome.says = "not-applicable"
  <2>1. built = [status |-> "not-applicable", confidence |-> None,
                 reason |-> None, cites |-> outcome.cites]
    BY <1>4 DEF Construct, NotApplicable, Verdict
  <2>2. r = built
    BY <2>1 DEF WithConfidenceCeiling
  <2> QED
    BY <1>4, <2>1, <2>2
<1>5. CASE outcome.says = "unassessed"
  <2>1. built = Unassessed(outcome.reason)
    BY <1>5 DEF Construct
  <2>2. Unassessed(outcome.reason).confidence = None
    BY DEF Unassessed
  <2>3. r = Unassessed(outcome.reason)
    BY <2>1, <2>2 DEF WithConfidenceCeiling
  <2> QED
    BY <1>5, <2>3
<1>6. CASE outcome.says \in {"error", "raises"}
  <2>1. built = ErrorResult
    BY <1>6 DEF Construct
  <2>2. ErrorResult.confidence = None
    BY DEF ErrorResult
  <2>3. r = ErrorResult
    BY <2>1, <2>2 DEF WithConfidenceCeiling
  <2> QED
    BY <1>6, <2>3
<1> QED
  BY <1>2, <1>3, <1>4, <1>5, <1>6 DEF Statuses, Determinate

\* The verdict evaluate_check reaches is the one the evaluator is entitled to:
\* determinate when it says so, with its reason to be so, and never otherwise.
LEMMA VerdictIsWhatItSays ==
  ASSUME NEW c \in Checks, NEW b \in Bundle, Automated[c]
  PROVE  LET r == JudgeCheck(c, b.facts, {})
             outcome == Judge(c, b.facts)
         IN  /\ r.status \in Statuses
             /\ \A s \in Determinate : r.status = s <=> Says(b, c) = s
             /\ r.status \in {"satisfied", "not-satisfied"} =>
                  r.confidence = CappedBy(outcome.confidence, Ceiling[c])
             /\ r.status \notin {"satisfied", "not-satisfied"} => r.confidence = None
             /\ r.status \in Determinate => r.reason = None
             /\ r.status \notin Determinate =>
                  r.reason # None /\ Explains(b, c, r.reason)
<1> DEFINE outcome == Judge(c, b.facts)
           r == JudgeCheck(c, b.facts, {})
<1>1. /\ outcome.says \in Statuses \cup {"raises"}
      /\ outcome.confidence \in Confidences /\ outcome.reason \in Reasons
      /\ Ceiling[c] \in Confidences
  BY OutcomeTyped
<1>2. /\ Missing(b.facts, Required[c]) # {} => r = Unassessed("collection-error")
      /\ Missing(b.facts, Required[c]) = {} /\ Incomplete(b.facts, Required[c]) # {} =>
           r = Unassessed("partial-population")
      /\ Complete(b.facts, Required[c]) /\ Window[c] > 0 =>
           r = Unassessed("insufficient-history")
      /\ Complete(b.facts, Required[c]) /\ ~(Window[c] > 0) =>
           r = WithConfidenceCeiling(Construct(outcome), Ceiling[c])
  BY JudgeCheckCases
<1>3. /\ \A reason : /\ Unassessed(reason).status = "unassessed"
                     /\ Unassessed(reason).confidence = None
                     /\ Unassessed(reason).reason = reason
      /\ ErrorResult.status = "error" /\ ErrorResult.confidence = None
      /\ ErrorResult.reason = "evaluation-error"
  BY DEF Unassessed, ErrorResult
<1>4. Says(b, c) = IF \/ ~Complete(b.facts, Required[c])
                      \/ Window[c] > 0
                      \/ outcome.says \in {"satisfied", "not-satisfied"} /\ outcome.cites = {}
                   THEN "nothing"
                   ELSE outcome.says
  BY DEF Says
<1>5. LET res == WithConfidenceCeiling(Construct(outcome), Ceiling[c])
      IN  CASE outcome.says \in {"satisfied", "not-satisfied"} /\ outcome.cites # {} ->
                    /\ res.status = outcome.says
                    /\ res.confidence = CappedBy(outcome.confidence, Ceiling[c])
                    /\ res.reason = None
               [] outcome.says = "not-applicable" ->
                    res.status = "not-applicable" /\ res.confidence = None /\ res.reason = None
               [] outcome.says = "unassessed" -> res = Unassessed(outcome.reason)
               [] OTHER -> res = ErrorResult
  BY <1>1, ConstructCases
<1>6. Complete(b.facts, Required[c])
        <=> Missing(b.facts, Required[c]) = {} /\ Incomplete(b.facts, Required[c]) = {}
  BY DEF Complete
<1> HIDE DEF r, outcome
<1>7. CASE ~Complete(b.facts, Required[c]) \/ Window[c] > 0
  <2>1. Says(b, c) = "nothing"
    BY <1>7, <1>4
  <2>2. \/ r = Unassessed("collection-error") /\ Missing(b.facts, Required[c]) # {}
        \/ r = Unassessed("partial-population") /\ Incomplete(b.facts, Required[c]) # {}
        \/ r = Unassessed("insufficient-history") /\ Window[c] > 0
    BY <1>7, <1>2, <1>6
  <2>3. r.reason # None /\ Explains(b, c, r.reason)
    BY <2>2, <1>3 DEF Explains, None
  <2> QED
    BY <2>1, <2>2, <2>3, <1>3 DEF Determinate, Statuses, r
<1>8. CASE Complete(b.facts, Required[c]) /\ ~(Window[c] > 0)
  <2>1. r = WithConfidenceCeiling(Construct(outcome), Ceiling[c])
    BY <1>8, <1>2
  <2>2. CASE outcome.says \in {"satisfied", "not-satisfied"} /\ outcome.cites # {}
    <3>1. Says(b, c) = outcome.says
      BY <2>2, <1>8, <1>4
    <3> QED
      BY <2>1, <2>2, <3>1, <1>5, <1>1 DEF Determinate, Statuses, r, outcome
  <2>3. CASE outcome.says \in {"satisfied", "not-satisfied"} /\ outcome.cites = {}
    <3>1. Says(b, c) = "nothing" /\ r = ErrorResult
      BY <2>1, <2>3, <1>4, <1>5
    <3>2. r.reason # None /\ Explains(b, c, r.reason)
      BY <3>1, <2>3, <1>8, <1>3 DEF Explains, None, outcome
    <3> QED
      BY <3>1, <3>2, <1>3 DEF Determinate, Statuses, r
  <2>4. CASE outcome.says = "not-applicable"
    <3>1. Says(b, c) = "not-applicable"
      BY <2>4, <1>8, <1>4
    <3> QED
      BY <2>1, <2>4, <3>1, <1>5 DEF Determinate, Statuses, r
  <2>5. CASE outcome.says = "unassessed"
    <3>1. Says(b, c) = "unassessed" /\ r = Unassessed(outcome.reason)
      BY <2>1, <2>5, <1>8, <1>4, <1>5
    <3>2. outcome.reason # None
      BY <1>1 DEF Reasons, None
    <3>3. r.reason # None /\ Explains(b, c, r.reason)
      BY <3>1, <3>2, <1>3 DEF Explains, outcome
    <3> QED
      BY <3>1, <3>3, <1>3 DEF Determinate, Statuses, r
  <2>6. CASE outcome.says \in {"error", "raises"}
    <3>1. Says(b, c) = outcome.says /\ r = ErrorResult
      BY <2>1, <2>6, <1>8, <1>4, <1>5
    <3>2. r.reason # None /\ Explains(b, c, r.reason)
      BY <3>1, <2>6, <1>8, <1>3 DEF Explains, None, outcome
    <3> QED
      BY <2>6, <3>1, <3>2, <1>3 DEF Determinate, Statuses, r
  <2> QED
    BY <1>1, <2>2, <2>3, <2>4, <2>5, <2>6 DEF Statuses, Determinate
<1> QED
  BY <1>7, <1>8

-----------------------------------------------------------------------------
(* The evaluations of an invocation, and what its checks look at.          *)

\* Evaluation e is what came of check p[2] looking at bundle p[1].
ComesOf(e, p) ==
  /\ e.check = p[2]
  /\ e.subject = p[1].subject
  /\ e.result = JudgeCheck(p[2], p[1].facts, {})

LEMMA EvalsAre ==
  ASSUME NEW job, NEW n
  PROVE  \A e : e \in EvalsOf(job, n) <=>
           \E i \in 1..n, c \in Checks :
             /\ Applies(c, job.files[i], job.baseline)
             /\ e = EvaluateCheck(i, c, job.files[i], {})
BY DEF EvalsOf, EvaluateBundle

\* One more turn of the loop over the bundles.
LEMMA EvalsGrow ==
  ASSUME NEW job, NEW n \in Nat
  PROVE  /\ EvalsOf(job, 0) = {}
         /\ EvalsOf(job, n + 1)
              = EvalsOf(job, n) \cup EvaluateBundle(n + 1, job.files[n + 1], job.baseline)
<1>1. EvalsOf(job, 0) = {}
  BY DEF EvalsOf
<1>2. 1..(n + 1) = (1..n) \cup {n + 1}
  OBVIOUS
<1> QED
  BY <1>1, <1>2 DEF EvalsOf

LEMMA LooksAtAre ==
  ASSUME NEW job \in Job, NEW x
  PROVE  \A p : p \in LooksAt(job, x) <=>
           \E i \in 1..Len(job.files), c \in Checks :
             /\ p = <<job.files[i], c>>
             /\ Applies(c, job.files[i], job.baseline)
             /\ x \in Binds[c]
<1>1. \A p : p \in Looks(job) <=>
        /\ p \in Bundles(job) \X Checks
        /\ Applies(p[2], p[1], job.baseline)
  BY DEF Looks, Applies
<1>2. \A p : p \in Bundles(job) \X Checks <=>
        \E i \in 1..Len(job.files), c \in Checks : p = <<job.files[i], c>>
  BY DEF Bundles
<1>3. \A p : p \in LooksAt(job, x) <=> p \in Looks(job) /\ x \in Binds[p[2]]
  BY DEF LooksAt
<1> QED
  BY <1>1, <1>2, <1>3

LEMMA LooksTyped ==
  ASSUME NEW job \in Job, NEW x, NEW p \in LooksAt(job, x)
  PROVE  /\ p[1] \in Bundle /\ p[1] \in Bundles(job)
         /\ p[2] \in Checks /\ Automated[p[2]]
         /\ x \in Binds[p[2]]
<1>1. PICK i \in 1..Len(job.files), c \in Checks :
         /\ p = <<job.files[i], c>>
         /\ Applies(c, job.files[i], job.baseline)
         /\ x \in Binds[c]
  BY LooksAtAre
<1>2. job.files[i] \in Bundle
  BY JobTyped
<1> QED
  BY <1>1, <1>2 DEF Applies, Bundles

LEMMA EvaluationsComeOfLooks ==
  ASSUME NEW job \in Job, NEW x
  PROVE  /\ \A e \in Contributing(AllEvals(job), x) :
              \E p \in LooksAt(job, x) : ComesOf(e, p)
         /\ \A p \in LooksAt(job, x) :
              \E e \in Contributing(AllEvals(job), x) : ComesOf(e, p)
<1>1. ASSUME NEW e \in Contributing(AllEvals(job), x)
      PROVE  \E p \in LooksAt(job, x) : ComesOf(e, p)
  <2>1. e \in AllEvals(job) /\ x \in Binds[e.check]
    BY DEF Contributing
  <2>2. PICK i \in 1..Len(job.files), c \in Checks :
           /\ Applies(c, job.files[i], job.baseline)
           /\ e = EvaluateCheck(i, c, job.files[i], {})
    BY <2>1, EvalsAre DEF AllEvals
  <2>3. /\ e.check = c /\ e.subject = job.files[i].subject
        /\ e.result = JudgeCheck(c, job.files[i].facts, {})
    BY <2>2 DEF EvaluateCheck
  <2>4. <<job.files[i], c>> \in LooksAt(job, x)
    BY <2>1, <2>2, <2>3, LooksAtAre
  <2> QED
    BY <2>3, <2>4 DEF ComesOf
<1>2. ASSUME NEW p \in LooksAt(job, x)
      PROVE  \E e \in Contributing(AllEvals(job), x) : ComesOf(e, p)
  <2>1. PICK i \in 1..Len(job.files), c \in Checks :
           /\ p = <<job.files[i], c>>
           /\ Applies(c, job.files[i], job.baseline)
           /\ x \in Binds[c]
    BY LooksAtAre
  <2> DEFINE e == EvaluateCheck(i, c, job.files[i], {})
  <2>2. e \in AllEvals(job)
    BY <2>1, EvalsAre DEF AllEvals
  <2>3. /\ e.check = c /\ e.subject = job.files[i].subject
        /\ e.result = JudgeCheck(c, job.files[i].facts, {})
    BY DEF EvaluateCheck
  <2> HIDE DEF e
  <2>4. e \in Contributing(AllEvals(job), x)
    BY <2>1, <2>2, <2>3 DEF Contributing
  <2>5. ComesOf(e, p)
    BY <2>1, <2>3 DEF ComesOf
  <2> QED
    BY <2>4, <2>5
<1> QED
  BY <1>1, <1>2

\* The determinations behind a control are what the evaluators say of it.
LEMMA DeterminationsComeOfVerdicts ==
  ASSUME NEW job \in Job, NEW x
  PROVE  LET determined == Determined(Contributing(AllEvals(job), x))
         IN  /\ \A e \in determined : \E p \in LooksAt(job, x) :
                  /\ ComesOf(e, p)
                  /\ Says(p[1], p[2]) = e.result.status
                  /\ e.result.status \in Determinate
             /\ \A p \in LooksAt(job, x) : Says(p[1], p[2]) \in Determinate =>
                  \E e \in determined :
                    /\ ComesOf(e, p)
                    /\ e.result.status = Says(p[1], p[2])
<1> DEFINE determined == Determined(Contributing(AllEvals(job), x))
<1>1. \A e : e \in determined <=>
        e \in Contributing(AllEvals(job), x) /\ e.result.status \in Determinate
  BY DEF Determined, EmitsFinding
<1>2. ASSUME NEW p \in LooksAt(job, x), NEW e, ComesOf(e, p)
      PROVE  \A s \in Determinate : e.result.status = s <=> Says(p[1], p[2]) = s
  BY <1>2, LooksTyped, VerdictIsWhatItSays DEF ComesOf
<1> HIDE DEF determined
<1>3. ASSUME NEW e \in determined
      PROVE  \E p \in LooksAt(job, x) : /\ ComesOf(e, p)
                                       /\ Says(p[1], p[2]) = e.result.status
                                       /\ e.result.status \in Determinate
  <2>1. PICK p \in LooksAt(job, x) : ComesOf(e, p)
    BY <1>1, EvaluationsComeOfLooks
  <2> QED
    BY <1>1, <1>2, <2>1
<1>4. ASSUME NEW p \in LooksAt(job, x), Says(p[1], p[2]) \in Determinate
      PROVE  \E e \in determined : ComesOf(e, p) /\ e.result.status = Says(p[1], p[2])
  <2>1. PICK e \in Contributing(AllEvals(job), x) : ComesOf(e, p)
    BY EvaluationsComeOfLooks
  <2>2. e.result.status = Says(p[1], p[2])
    BY <1>2, <1>4, <2>1
  <2> QED
    BY <1>1, <1>4, <2>1, <2>2
<1> QED
  BY <1>3, <1>4 DEF determined

-----------------------------------------------------------------------------
(* The results of an invocation.                                           *)

\* The determinations behind the finding for control x.
Behind(job, x) == Determined(Contributing(AllEvals(job), x))

FindingFor(n, job, x) == ResultsFor(n, job).findings[x]

LEMMA ResultsFields ==
  ASSUME NEW n, NEW job
  PROVE  /\ ResultsFor(n, job).by = n
         /\ ResultsFor(n, job).id = ResultId(job.run)
         /\ ResultsFor(n, job).run = job.run
         /\ ResultsFor(n, job).reviewed = job.baseline
         /\ ResultsFor(n, job).observations = AllEvals(job)
         /\ ResultsFor(n, job).findings
              = Findings(job.run, job.baseline, AllEvals(job), job.total)
         /\ ResultsFor(n, job).undetermined = UnassessedControls(job.baseline, AllEvals(job))
         /\ DOMAIN ResultsFor(n, job).findings = DeterminedControls(AllEvals(job))
         /\ DOMAIN ResultsFor(n, job).undetermined
              = job.baseline \ DeterminedControls(AllEvals(job))
BY DEF ResultsFor, Results, Findings, UnassessedControls

LEMMA FindingFields ==
  ASSUME NEW n, NEW job, NEW x \in DeterminedControls(AllEvals(job))
  PROVE  LET F == FindingFor(n, job, x)
             aggregateOnly == \A e \in Behind(job, x) : Scope[e.check] = "aggregate"
         IN  /\ F.id = FindingId(ResultId(job.run), x, job.baseline)
             /\ F.state = State(Behind(job, x))
             /\ F.status = StatusProp(Behind(job, x))
             /\ F.confidence = WeakestConfidence(Behind(job, x))
             /\ F.basis = IF aggregateOnly THEN "aggregate-subject" ELSE "subject"
             /\ F.population = Population(Behind(job, x),
                                 IF aggregateOnly THEN Cardinality(Behind(job, x))
                                 ELSE EstateTotal(AllEvals(job), job.total))
             /\ F.saysPartial = (F.population.assessed < F.population.total)
             /\ F.related = {ObservationId(ResultId(job.run), e.check, e.subject) :
                               e \in Behind(job, x)}
<1>1. FindingFor(n, job, x)
        = Finding(ResultId(job.run), job.baseline, x, Contributing(AllEvals(job), x),
                  EstateTotal(AllEvals(job), job.total))
  <2>1. FindingFor(n, job, x) = Findings(job.run, job.baseline, AllEvals(job), job.total)[x]
    BY ResultsFields DEF FindingFor
  <2> QED
    BY <2>1, Zenon DEF Findings
<1> QED
  BY <1>1 DEF Finding, Behind

\* Which controls have a finding: those some evaluator determined.
LEMMA DeterminedControlsAre ==
  ASSUME NEW job \in Job, NEW x
  PROVE  /\ x \in DeterminedControls(AllEvals(job)) <=> Behind(job, x) # {}
         /\ x \in DeterminedControls(AllEvals(job)) <=> Verdicts(job, x) \cap Determinate # {}
<1>1. x \in DeterminedControls(AllEvals(job))
        <=> \E e \in Determined(AllEvals(job)) : x \in Binds[e.check]
  BY DEF DeterminedControls
<1>2. \A e : e \in Behind(job, x) <=> e \in Determined(AllEvals(job)) /\ x \in Binds[e.check]
  BY DEF Behind, Determined, Contributing
<1>3. Behind(job, x) # {} <=> \E p \in LooksAt(job, x) : Says(p[1], p[2]) \in Determinate
  BY DeterminationsComeOfVerdicts DEF Behind
<1>4. (\E p \in LooksAt(job, x) : Says(p[1], p[2]) \in Determinate)
        <=> Verdicts(job, x) \cap Determinate # {}
  BY DEF Verdicts
<1> QED
  BY <1>1, <1>2, <1>3, <1>4

\* The statuses behind a finding are the determinate verdicts on its control.
LEMMA StatusesAreVerdicts ==
  ASSUME NEW job \in Job, NEW x
  PROVE  /\ \A s \in Determinate :
              s \in Verdicts(job, x) <=> \E e \in Behind(job, x) : e.result.status = s
         /\ \A e \in Behind(job, x) : e.result.status \in Determinate
<1>1. \A s : s \in Verdicts(job, x) <=> \E p \in LooksAt(job, x) : Says(p[1], p[2]) = s
  BY DEF Verdicts
<1> QED
  BY <1>1, DeterminationsComeOfVerdicts DEF Behind

\* The verdict of a finding: not-satisfied exactly when some evaluator said
\* so, satisfied only when one said that or not-applicable.
LEMMA FindingVerdict ==
  ASSUME NEW n, NEW job \in Job, NEW x \in DeterminedControls(AllEvals(job))
  PROVE  LET F == FindingFor(n, job, x)
         IN  /\ F.state \in {"satisfied", "not-satisfied"}
             /\ F.state = "not-satisfied" <=> "not-satisfied" \in Verdicts(job, x)
             /\ F.state = "satisfied" =>
                  Verdicts(job, x) \cap {"satisfied", "not-applicable"} # {}
             /\ F.status \in Determinate
             /\ F.status = "not-satisfied" <=> "not-satisfied" \in Verdicts(job, x)
             /\ F.status = "satisfied" => "satisfied" \in Verdicts(job, x)
<1> DEFINE F == FindingFor(n, job, x)
           D == Behind(job, x)
<1>1. F.state = State(D) /\ F.status = StatusProp(D)
  BY FindingFields
<1>2. D # {} /\ \A e \in D : e.result.status \in Determinate
  BY DeterminedControlsAre, StatusesAreVerdicts
<1>3. \A s \in Determinate :
        s \in Verdicts(job, x) <=> \E e \in D : e.result.status = s
  BY StatusesAreVerdicts
<1> HIDE DEF F, D
<1>4. WithStatus(D, "not-satisfied") = {} <=> "not-satisfied" \notin Verdicts(job, x)
  BY <1>3 DEF WithStatus, Determinate
<1>5. /\ F.state \in {"satisfied", "not-satisfied"}
      /\ F.state = "not-satisfied" <=> "not-satisfied" \in Verdicts(job, x)
  BY <1>1, <1>4 DEF State
<1>6. F.state = "satisfied" =>
        Verdicts(job, x) \cap {"satisfied", "not-applicable"} # {}
  BY <1>2, <1>3, <1>5 DEF Determinate
<1>7. CASE \A e \in D : e.result.status = "not-applicable"
  <2>1. F.status = "not-applicable" /\ "not-satisfied" \notin Verdicts(job, x)
    BY <1>1, <1>3, <1>7 DEF StatusProp, Determinate
  <2> QED
    BY <2>1, <1>5, <1>6 DEF Determinate, F
<1>8. CASE \E e \in D : e.result.status # "not-applicable"
  <2>1. F.status = F.state
    BY <1>1, <1>8 DEF StatusProp
  <2>2. F.status = "satisfied" => "satisfied" \in Verdicts(job, x)
    BY <2>1, <1>2, <1>3, <1>5, <1>8 DEF Determinate
  <2> QED
    BY <2>1, <2>2, <1>5, <1>6 DEF Determinate, F
<1> QED
  BY <1>7, <1>8

\* The items of a POA&M are the controls that some evaluator failed.
LEMMA PoamItems ==
  ASSUME NEW n, NEW job \in Job
  PROVE  LET P == Poam(n, ResultsFor(n, job))
         IN  /\ P.by = n
             /\ \A x : x \in DOMAIN P.items <=> "not-satisfied" \in Verdicts(job, x)
             /\ \A x \in DOMAIN P.items :
                  /\ x \in DeterminedControls(AllEvals(job))
                  /\ P.items[x].id = PoamItemId(job.run, x, job.baseline)
                  /\ P.items[x].related = FindingFor(n, job, x).id
<1> DEFINE R == ResultsFor(n, job)
           P == Poam(n, R)
<1>1. P.by = n /\ DOMAIN P.items = {x \in DOMAIN R.findings : R.findings[x].state = "not-satisfied"}
  BY DEF Poam
<1>2. \A x \in DOMAIN P.items : /\ P.items[x].id = PoamItemId(R.run, x, R.reviewed)
                                /\ P.items[x].related = R.findings[x].id
  BY DEF Poam
<1>3. /\ DOMAIN R.findings = DeterminedControls(AllEvals(job))
      /\ R.run = job.run /\ R.reviewed = job.baseline
  BY ResultsFields
<1>4. \A x : R.findings[x] = FindingFor(n, job, x)
  BY DEF FindingFor
<1> HIDE DEF P, R
<1>5. ASSUME NEW x PROVE x \in DOMAIN P.items <=> "not-satisfied" \in Verdicts(job, x)
  <2>1. "not-satisfied" \in Verdicts(job, x) => x \in DeterminedControls(AllEvals(job))
    BY DeterminedControlsAre DEF Determinate
  <2>2. x \in DeterminedControls(AllEvals(job)) =>
          (R.findings[x].state = "not-satisfied" <=> "not-satisfied" \in Verdicts(job, x))
    BY <1>4, FindingVerdict
  <2> QED
    BY <2>1, <2>2, <1>1, <1>3
<1> QED
  BY <1>1, <1>2, <1>3, <1>4, <1>5 DEF P, R

-----------------------------------------------------------------------------
(* Rows and cells: a report of the results of one invocation by the plan of *)
(* another, or of the same.                                                *)

LEMMA RowsAre ==
  ASSUME NEW k, NEW b, NEW R
  PROVE  /\ DOMAIN Build(Plan(k, b), R) = b
         /\ \A x \in b : Build(Plan(k, b), R)[x] = Row(Plan(k, b), R, x)
<1>1. Reviewed(Plan(k, b)) = b
  BY DEF Reviewed, Plan
<1> QED
  BY <1>1 DEF Build

LEMMA RowVerdict ==
  ASSUME NEW k, NEW b, NEW n, NEW job \in Job, NEW x \in b
  PROVE  LET row == Build(Plan(k, b), ResultsFor(n, job))[x]
         IN  /\ row.status = "satisfied" => "satisfied" \in Verdicts(job, x)
             /\ row.status = "not-satisfied" <=> "not-satisfied" \in Verdicts(job, x)
             /\ row.status = "undetermined" /\ x \in job.baseline =>
                  /\ x \notin DeterminedControls(AllEvals(job))
                  /\ row.reason = ReasonFor(AllEvals(job), x)
<1> DEFINE R == ResultsFor(n, job)
           row == Build(Plan(k, b), R)[x]
<1>1. row = Row(Plan(k, b), R, x)
  BY RowsAre
<1>2. /\ DOMAIN R.findings = DeterminedControls(AllEvals(job))
      /\ R.undetermined = UnassessedControls(job.baseline, AllEvals(job))
      /\ DOMAIN R.undetermined = job.baseline \ DeterminedControls(AllEvals(job))
  BY ResultsFields
<1>3. CASE x \in DeterminedControls(AllEvals(job))
  <2>1. row.status = FindingFor(n, job, x).status
    BY <1>1, <1>2, <1>3 DEF Row, FindingFor
  <2> HIDE DEF row
  <2> QED
    BY <1>3, <2>1, FindingVerdict DEF row, Determinate
<1>4. CASE x \notin DeterminedControls(AllEvals(job))
  <2>1. row.status = "undetermined"
    BY <1>1, <1>2, <1>4 DEF Row, UndeterminedRow
  <2>2. x \in job.baseline => row.reason = R.undetermined[x]
    BY <1>1, <1>2, <1>4 DEF Row, UndeterminedRow
  <2>3. x \in job.baseline => R.undetermined[x] = ReasonFor(AllEvals(job), x)
    BY <1>2, <1>4 DEF UnassessedControls
  <2>4. "not-satisfied" \notin Verdicts(job, x)
    BY <1>4, DeterminedControlsAre DEF Determinate
  <2> HIDE DEF row, R
  <2> QED
    BY <1>4, <2>1, <2>2, <2>3, <2>4 DEF row, R
<1> QED
  BY <1>3, <1>4

LEMMA CellsAre ==
  ASSUME NEW rows, NEW x \in TemplateControls
  PROVE  LET cell == Populate(rows)[x]
         IN  /\ cell = "Effective" => x \in DOMAIN rows /\ rows[x].status = "satisfied"
             /\ x \in DOMAIN rows /\ rows[x].status = "not-satisfied" => cell = "Ineffective"
             /\ cell # Untouched <=> x \in DOMAIN rows
<1>1. \A reason : ReasonStatus(reason) \in {"No Visibility", "Not Applicable", "Not Assessed"}
  BY DEF ReasonStatus
<1>2. \A row : /\ StatusFor(row) = "Effective" => row.status = "satisfied"
               /\ row.status = "not-satisfied" => StatusFor(row) = "Ineffective"
               /\ StatusFor(row) # Untouched
  BY <1>1 DEF StatusFor, Untouched
<1>3. Populate(rows)[x] = IF x \in DOMAIN rows THEN StatusFor(rows[x]) ELSE Untouched
  BY DEF Populate
<1> QED
  BY <1>2, <1>3 DEF Untouched

-----------------------------------------------------------------------------
(* Reasons: what is quoted for a control that nothing determined.          *)

LEMMA LeastNatural ==
  ASSUME NEW S, S \subseteq Nat, S # {}
  PROVE  \E m \in S : \A k \in S : m <= k
<1> DEFINE Less == OpToRel(<, Nat)
<1>1. IsWellFoundedOn(Less, Nat)
  BY NatLessThanWellFounded
<1>2. \A k, m \in Nat : <<k, m>> \in Less <=> k < m
  BY DEF OpToRel
<1> HIDE DEF Less
<1>3. PICK m \in S : \A k \in S : <<k, m>> \notin Less
  BY <1>1, WFMin
<1>4. ASSUME NEW k \in S PROVE m <= k
  <2>1. k \in Nat /\ m \in Nat
    OBVIOUS
  <2>2. ~(k < m)
    BY <2>1, <1>2, <1>3
  <2> QED
    BY <2>1, <2>2
<1> QED
  BY <1>4

\* Some evaluation comes first among any of an invocation's evaluations.
LEMMA FirstExists ==
  ASSUME NEW job \in Job, NEW T, T \subseteq AllEvals(job), T # {}
  PROVE  \E e \in T : \A f \in T : e = f \/ Before(e, f)
<1>1. \A e \in T : /\ e.at \in Nat /\ e.check \in Checks /\ CheckPos[e.check] \in Nat
                   /\ e = EvaluateCheck(e.at, e.check, job.files[e.at], {})
  <2> TAKE e \in T
  <2>1. PICK i \in 1..Len(job.files), c \in Checks : e = EvaluateCheck(i, c, job.files[i], {})
    BY EvalsAre DEF AllEvals
  <2>2. e.at = i /\ e.check = c
    BY <2>1 DEF EvaluateCheck
  <2>3. i \in Nat
    BY JobTyped
  <2> QED
    BY <2>1, <2>2, <2>3, RegistryAssumption
<1> DEFINE Places == {e.at : e \in T}
<1>2. Places \subseteq Nat /\ Places # {}
  BY <1>1
<1>3. PICK i \in Places : \A j \in Places : i <= j
  BY <1>2, LeastNatural
<1> DEFINE There == {e \in T : e.at = i}
           Positions == {CheckPos[e.check] : e \in There}
<1>4. There # {}
  OBVIOUS
<1>5. Positions \subseteq Nat /\ Positions # {}
  BY <1>1, <1>4
<1> HIDE DEF Positions
<1>6. PICK k \in Positions : \A m \in Positions : k <= m
  BY <1>5, LeastNatural
<1> USE DEF Positions
<1>7. PICK e \in There : CheckPos[e.check] = k
  BY <1>6
<1>8. ASSUME NEW f \in T PROVE e = f \/ Before(e, f)
  <2>1. e \in T /\ e.at = i /\ i <= f.at /\ i \in Nat /\ f.at \in Nat
    BY <1>1, <1>2, <1>3, <1>7
  <2>2. CASE f.at # i
    <3>1. e.at < f.at
      BY <2>1, <2>2
    <3> QED
      BY <3>1 DEF Before
  <2>3. CASE f.at = i
    <3>1. k <= CheckPos[f.check] /\ k \in Nat /\ CheckPos[f.check] \in Nat
      BY <2>3, <1>1, <1>5, <1>6
    <3>2. CASE CheckPos[f.check] = k
      <4>1. f.check = e.check
        BY <3>2, <2>1, <1>1, <1>7, RegistryAssumption
      <4>2. e = EvaluateCheck(i, e.check, job.files[i], {})
        BY <2>1, <1>1
      <4>3. f = EvaluateCheck(i, e.check, job.files[i], {})
        BY <2>3, <4>1, <1>1
      <4> QED
        BY <4>2, <4>3
    <3>3. CASE CheckPos[f.check] # k
      <4>1. CheckPos[e.check] < CheckPos[f.check]
        BY <3>1, <3>3, <1>7
      <4> QED
        BY <4>1, <2>1, <2>3 DEF Before
    <3> QED
      BY <3>2, <3>3
  <2> QED
    BY <2>2, <2>3
<1> QED
  BY <1>7, <1>8

\* The reason unassessed_controls gives is true of the evidence.
LEMMA ReasonIsTrue ==
  ASSUME NEW job \in Job, NEW x, x \notin DeterminedControls(AllEvals(job))
  PROVE  ReasonHolds(job, x, ReasonFor(AllEvals(job), x))
<1> DEFINE E == Contributing(AllEvals(job), x)
<1>1. CASE x \in AttestedControls \ AutomatedControls
  <2>1. ReasonFor(AllEvals(job), x) = "requires-attestation"
    BY <1>1 DEF ReasonFor
  <2> QED
    BY <1>1, <2>1 DEF ReasonHolds
<1>2. CASE x \notin AutomatedControls \cup AttestedControls
  <2>1. ReasonFor(AllEvals(job), x) = "not-implemented"
    BY <1>2 DEF ReasonFor
  <2>2. \A c \in Checks : x \notin Binds[c]
    BY <1>2 DEF AutomatedControls, AttestedControls
  <2> QED
    BY <2>1, <2>2 DEF ReasonHolds
<1>3. CASE x \in AutomatedControls /\ E = {}
  <2>1. ReasonFor(AllEvals(job), x) = "no-subject-in-scope"
    BY <1>3 DEF ReasonFor
  <2>2. LooksAt(job, x) = {}
    BY <1>3, EvaluationsComeOfLooks
  <2> QED
    BY <1>3, <2>1, <2>2 DEF ReasonHolds
<1>4. CASE x \in AutomatedControls /\ E # {}
  <2>1. ReasonFor(AllEvals(job), x) = FirstReason(E)
    BY <1>4 DEF ReasonFor
  <2>2. ASSUME NEW e \in E
        PROVE  e.result.reason # None
               /\ \E p \in LooksAt(job, x) : Explains(p[1], p[2], e.result.reason)
    <3>1. e.result.status \notin Determinate
      <4>1. e \notin Behind(job, x)
        BY DeterminedControlsAre
      <4> QED
        BY <4>1 DEF Behind, Determined, EmitsFinding
    <3>2. PICK p \in LooksAt(job, x) : ComesOf(e, p)
      BY EvaluationsComeOfLooks
    <3>3. e.result = JudgeCheck(p[2], p[1].facts, {})
      BY <3>2 DEF ComesOf
    <3>4. p[1] \in Bundle /\ p[2] \in Checks /\ Automated[p[2]]
      BY LooksTyped
    <3> QED
      BY <3>1, <3>3, <3>4, VerdictIsWhatItSays
  <2> DEFINE told == {e \in E : e.result.reason # None}
  <2>3. told = E
    BY <2>2
  <2>4. E \subseteq AllEvals(job)
    BY DEF Contributing
  <2> DEFINE first == CHOOSE e \in told : \A f \in told : e = f \/ Before(e, f)
  <2>5. FirstReason(E) = first.result.reason
    BY <1>4, <2>3 DEF FirstReason
  <2>6. first \in told
    <3>1. \E e \in told : \A f \in told : e = f \/ Before(e, f)
      BY <1>4, <2>3, <2>4, FirstExists
    <3> HIDE DEF told
    <3> QED
      BY <3>1
  <2>7. \E p \in LooksAt(job, x) : Explains(p[1], p[2], FirstReason(E))
    BY <2>2, <2>3, <2>5, <2>6
  <2> QED
    BY <2>1, <2>7 DEF ReasonHolds
<1> QED
  BY <1>1, <1>2, <1>3, <1>4

-----------------------------------------------------------------------------
(* Confidence: the weakest of the contributing verdicts'.                  *)

LEMMA CappedByIsWeaker ==
  ASSUME NEW c \in Confidences, NEW d \in Confidences
  PROVE  /\ CappedBy(c, d) \in Confidences
         /\ Rank[CappedBy(c, d)] \in 0..3
         /\ Rank[CappedBy(c, d)] >= Rank[c]
         /\ Rank[CappedBy(c, d)] >= Rank[d]
BY DEF CappedBy, Rank, Confidences

LEMMA WeakestExists ==
  ASSUME NEW C, C \subseteq Confidences, C # {}
  PROVE  \E c \in C : \A d \in C : Rank[d] <= Rank[c]
<1>1. /\ Rank["direct"] = 0 /\ Rank["proxy"] = 1
      /\ Rank["partial"] = 2 /\ Rank["attested"] = 3
  BY DEF Rank, Confidences
<1>2. \A c \in C : c \in {"direct", "proxy", "partial", "attested"}
  BY DEF Confidences
<1>3. CASE "attested" \in C
  BY <1>1, <1>2, <1>3
<1>4. CASE "attested" \notin C /\ "partial" \in C
  BY <1>1, <1>2, <1>4
<1>5. CASE "attested" \notin C /\ "partial" \notin C /\ "proxy" \in C
  BY <1>1, <1>2, <1>5
<1>6. CASE "attested" \notin C /\ "partial" \notin C /\ "proxy" \notin C
  BY <1>1, <1>2, <1>6
<1> QED
  BY <1>3, <1>4, <1>5, <1>6

\* A finding is no more confident than any verdict it rests on.
LEMMA FindingConfidence ==
  ASSUME NEW n, NEW job \in Job, NEW x \in DeterminedControls(AllEvals(job)),
         NEW p \in LooksAt(job, x),
         Says(p[1], p[2]) \in {"satisfied", "not-satisfied"}
  PROVE  /\ FindingFor(n, job, x).confidence \in Confidences
         /\ Rank[FindingFor(n, job, x).confidence] >= Rank[Ceiling[p[2]]]
         /\ Rank[FindingFor(n, job, x).confidence]
              >= Rank[Judge(p[2], p[1].facts).confidence]
<1> DEFINE D == Behind(job, x)
           C == ConfidencesOf(D)
           w == WeakestConfidence(D)
           capped == CappedBy(Judge(p[2], p[1].facts).confidence, Ceiling[p[2]])
<1>1. FindingFor(n, job, x).confidence = w
  BY FindingFields
<1>2. C \subseteq Confidences
  <2>1. ASSUME NEW e \in D, e.result.confidence # None
        PROVE  e.result.confidence \in Confidences
    <3>1. PICK q \in LooksAt(job, x) : ComesOf(e, q)
      BY DeterminationsComeOfVerdicts DEF Behind
    <3>2. e.result = JudgeCheck(q[2], q[1].facts, {})
      BY <3>1 DEF ComesOf
    <3>3. q[1] \in Bundle /\ q[2] \in Checks /\ Automated[q[2]]
      BY LooksTyped
    <3>4. e.result.confidence = CappedBy(Judge(q[2], q[1].facts).confidence, Ceiling[q[2]])
      BY <2>1, <3>2, <3>3, VerdictIsWhatItSays
    <3> QED
      BY <3>3, <3>4, OutcomeTyped, CappedByIsWeaker
  <2> QED
    BY <2>1 DEF ConfidencesOf
<1>3. p[1] \in Bundle /\ p[2] \in Checks /\ Automated[p[2]]
  BY LooksTyped
<1>4. capped \in C
  <2>1. PICK e \in D : ComesOf(e, p) /\ e.result.status = Says(p[1], p[2])
    BY DeterminationsComeOfVerdicts DEF Behind, Determinate
  <2>2. e.result.confidence = capped
    BY <2>1, <1>3, VerdictIsWhatItSays DEF ComesOf
  <2>3. capped # None
    BY <1>3, OutcomeTyped, CappedByIsWeaker DEF Confidences, None
  <2> QED
    BY <2>1, <2>2, <2>3 DEF ConfidencesOf
<1>5. /\ capped \in Confidences /\ Rank[capped] \in 0..3
      /\ Rank[capped] >= Rank[Ceiling[p[2]]]
      /\ Rank[capped] >= Rank[Judge(p[2], p[1].facts).confidence]
  BY <1>3, OutcomeTyped, CappedByIsWeaker
<1>6. w \in C /\ Rank[capped] <= Rank[w]
  <2>1. w = CHOOSE c \in C : \A d \in C : Rank[d] <= Rank[c]
    BY <1>4 DEF WeakestConfidence
  <2>2. \E c \in C : \A d \in C : Rank[d] <= Rank[c]
    BY <1>2, <1>4, WeakestExists
  <2> HIDE DEF C, w, capped
  <2>3. w \in C /\ \A d \in C : Rank[d] <= Rank[w]
    BY <2>1, <2>2
  <2> QED
    BY <2>3, <1>4
<1>7. \A c \in Confidences : Rank[c] \in 0..3
  BY DEF Rank, Confidences
<1>8. /\ Rank[w] \in 0..3 /\ Rank[Ceiling[p[2]]] \in 0..3
      /\ Rank[Judge(p[2], p[1].facts).confidence] \in 0..3
  BY <1>2, <1>3, <1>6, <1>7, OutcomeTyped
<1> HIDE DEF w, capped, C, D
<1> QED
  BY <1>1, <1>2, <1>5, <1>6, <1>8

-----------------------------------------------------------------------------
(* Figures.                                                                *)

LEMMA FiniteImage ==
  ASSUME NEW S, IsFiniteSet(S), NEW f
  PROVE  IsFiniteSet({f[s] : s \in S})
<1> DEFINE T == {f[s] : s \in S}
           g == [s \in S |-> f[s]]
<1>1. g \in [S -> T] /\ \A t \in T : \E s \in S : g[s] = t
  OBVIOUS
<1>2. g \in Surjection(S, T)
  BY <1>1 DEF Surjection
<1> HIDE DEF g
<1>3. IsFiniteSet(T)
  BY <1>2, FS_Surjection
<1> QED
  BY <1>3

LEMMA FiniteSubset ==
  ASSUME NEW S, IsFiniteSet(S), NEW T, T \subseteq S
  PROVE  /\ IsFiniteSet(T)
         /\ Cardinality(T) \in Nat /\ Cardinality(S) \in Nat
         /\ Cardinality(T) <= Cardinality(S)
         /\ T # S => Cardinality(T) < Cardinality(S)
<1>1. T \in SUBSET S
  OBVIOUS
<1>2. IsFiniteSet(T) /\ Cardinality(T) <= Cardinality(S)
        /\ (Cardinality(S) = Cardinality(T) => S = T)
  BY <1>1, FS_Subset
<1>3. Cardinality(T) \in Nat /\ Cardinality(S) \in Nat
  BY <1>2, FS_CardinalityType
<1> QED
  BY <1>2, <1>3

\* The subjects, and the evaluations, of an invocation are finitely many.
LEMMA EvidenceIsFinite ==
  ASSUME NEW job \in Job
  PROVE  /\ IsFiniteSet({b.subject : b \in Bundles(job)})
         /\ IsFiniteSet(AllEvals(job))
<1> DEFINE I == 1..Len(job.files)
           subject == [i \in I |-> job.files[i].subject]
           made == [q \in I \X Checks |-> EvaluateCheck(q[1], q[2], job.files[q[1]], {})]
<1>1. IsFiniteSet(I)
  BY JobTyped, FS_Interval
<1>2. {b.subject : b \in Bundles(job)} = {subject[i] : i \in I}
  <2>1. {b.subject : b \in Bundles(job)} = {job.files[i].subject : i \in I}
    BY DEF Bundles
  <2> QED
    BY <2>1
<1>3. IsFiniteSet({subject[i] : i \in I})
  BY <1>1, FiniteImage
<1>4. IsFiniteSet(I \X Checks)
  BY <1>1, RegistryAssumption, FS_Product
<1>5. \A i \in I, c \in Checks :
        made[<<i, c>>] = EvaluateCheck(i, c, job.files[i], {})
  OBVIOUS
<1> HIDE DEF made
<1>6. IsFiniteSet({made[q] : q \in I \X Checks})
  BY <1>4, FiniteImage
<1>7. AllEvals(job) \subseteq {made[q] : q \in I \X Checks}
  <2> SUFFICES ASSUME NEW e \in AllEvals(job) PROVE e \in {made[q] : q \in I \X Checks}
    OBVIOUS
  <2>1. PICK i \in I, c \in Checks : e = EvaluateCheck(i, c, job.files[i], {})
    BY EvalsAre DEF AllEvals
  <2>2. <<i, c>> \in I \X Checks /\ made[<<i, c>>] = e
    BY <2>1, <1>5
  <2> QED
    BY <2>2
<1> QED
  BY <1>2, <1>3, <1>6, <1>7, FiniteSubset

\* The sets of subjects a finding counts, as the evaluators' answers give them.
LEMMA SubjectsBehind ==
  ASSUME NEW job \in Job, NEW x
  PROVE  LET D       == Behind(job, x)
             judged  == SubjectsWhere(job, x, Determinate)
             failing == SubjectsWhere(job, x, {"not-satisfied"})
             passing == SubjectsWhere(job, x, {"satisfied"})
         IN  /\ SubjectsOf(D) = judged
             /\ SubjectsOf(WithStatus(D, "not-satisfied")) = failing
             /\ NotApplicableSubjects(D) = judged \ (failing \cup passing)
             /\ failing \subseteq judged
             /\ judged \subseteq {b.subject : b \in Bundles(job)}
<1> DEFINE D == Behind(job, x)
<1>1. \A s, ways : s \in SubjectsWhere(job, x, ways) <=>
        \E p \in LooksAt(job, x) : p[1].subject = s /\ Says(p[1], p[2]) \in ways
  BY DEF SubjectsWhere
<1>2. /\ \A e \in D : \E p \in LooksAt(job, x) :
           /\ e.subject = p[1].subject
           /\ Says(p[1], p[2]) = e.result.status
           /\ e.result.status \in Determinate
      /\ \A p \in LooksAt(job, x) : Says(p[1], p[2]) \in Determinate =>
           \E e \in D : e.subject = p[1].subject /\ e.result.status = Says(p[1], p[2])
  BY DeterminationsComeOfVerdicts DEF Behind, ComesOf
<1> HIDE DEF D
<1>3. ASSUME NEW ways, ways \subseteq Determinate, NEW s
      PROVE  s \in SubjectsWhere(job, x, ways)
               <=> \E e \in D : e.subject = s /\ e.result.status \in ways
  BY <1>1, <1>2, <1>3
<1>4. \A s : s \in SubjectsOf(D) <=> s \in SubjectsWhere(job, x, Determinate)
  <2>1. \A s : s \in SubjectsOf(D) <=> \E e \in D : e.subject = s
    BY DEF SubjectsOf
  <2> QED
    BY <2>1, <1>2, <1>3
<1>5. \A s : s \in SubjectsOf(WithStatus(D, "not-satisfied"))
               <=> s \in SubjectsWhere(job, x, {"not-satisfied"})
  <2>1. \A s : s \in SubjectsOf(WithStatus(D, "not-satisfied"))
                 <=> \E e \in D : e.subject = s /\ e.result.status = "not-satisfied"
    BY DEF SubjectsOf, WithStatus
  <2>2. {"not-satisfied"} \subseteq Determinate
    BY DEF Determinate
  <2> QED
    BY <2>1, <2>2, <1>3
<1>6. \A s : s \in NotApplicableSubjects(D)
               <=> /\ s \in SubjectsWhere(job, x, Determinate)
                   /\ s \notin SubjectsWhere(job, x, {"not-satisfied"})
                   /\ s \notin SubjectsWhere(job, x, {"satisfied"})
  <2>1. \A s : s \in NotApplicableSubjects(D)
                 <=> /\ s \in SubjectsOf(D)
                     /\ \A e \in D : e.subject = s => e.result.status = "not-applicable"
    BY DEF NotApplicableSubjects
  <2>2. \A e \in D : e.result.status # "not-applicable"
          <=> e.result.status \in {"not-satisfied"} \/ e.result.status \in {"satisfied"}
    BY <1>2 DEF Determinate
  <2>3. {"not-satisfied"} \subseteq Determinate /\ {"satisfied"} \subseteq Determinate
    BY DEF Determinate
  <2> QED
    BY <2>1, <2>2, <2>3, <1>3, <1>4
<1>7. SubjectsWhere(job, x, {"not-satisfied"}) \subseteq SubjectsWhere(job, x, Determinate)
  BY <1>1 DEF Determinate
<1>8. SubjectsWhere(job, x, Determinate) \subseteq {b.subject : b \in Bundles(job)}
  BY <1>1, LooksTyped
<1> QED
  BY <1>4, <1>5, <1>6, <1>7, <1>8 DEF D

\* The population figures of a finding count subjects of the evidence.
LEMMA FindingPopulation ==
  ASSUME NEW n, NEW job \in Job, NEW x \in DeterminedControls(AllEvals(job))
  PROVE  LET F       == FindingFor(n, job, x)
             figures == F.population
             judged  == SubjectsWhere(job, x, Determinate)
             failing == SubjectsWhere(job, x, {"not-satisfied"})
             passing == SubjectsWhere(job, x, {"satisfied"})
             all     == {b.subject : b \in Bundles(job)}
         IN  /\ figures.assessed = Cardinality(judged)
             /\ figures.failing = Cardinality(failing)
             /\ figures.na = Cardinality(judged \ (failing \cup passing))
             /\ figures.assessed <= figures.total
             /\ F.basis = "subject" /\ job.total >= Cardinality(all) =>
                  /\ figures.total = job.total
                  /\ all # judged => F.saysPartial
             /\ "not-satisfied" \in Verdicts(job, x) => figures.failing > 0
<1> DEFINE F       == FindingFor(n, job, x)
           D       == Behind(job, x)
           judged  == SubjectsWhere(job, x, Determinate)
           failing == SubjectsWhere(job, x, {"not-satisfied"})
           passing == SubjectsWhere(job, x, {"satisfied"})
           all     == {b.subject : b \in Bundles(job)}
           aggregateOnly == \A e \in D : Scope[e.check] = "aggregate"
           estate  == IF aggregateOnly THEN Cardinality(D)
                      ELSE EstateTotal(AllEvals(job), job.total)
           assessed == Cardinality(judged)
<1>1. /\ SubjectsOf(D) = judged
      /\ SubjectsOf(WithStatus(D, "not-satisfied")) = failing
      /\ NotApplicableSubjects(D) = judged \ (failing \cup passing)
      /\ failing \subseteq judged
      /\ judged \subseteq all
  BY SubjectsBehind
<1>2. /\ F.population = Population(D, estate)
      /\ F.saysPartial = (F.population.assessed < F.population.total)
      /\ F.basis = "subject" => estate = EstateTotal(AllEvals(job), job.total)
  BY FindingFields
<1>3. /\ Population(D, estate).total
           = IF estate > Cardinality(SubjectsOf(D)) THEN estate
             ELSE Cardinality(SubjectsOf(D))
      /\ Population(D, estate).assessed = Cardinality(SubjectsOf(D))
      /\ Population(D, estate).failing
           = Cardinality(SubjectsOf(WithStatus(D, "not-satisfied")))
      /\ Population(D, estate).na = Cardinality(NotApplicableSubjects(D))
  BY DEF Population
<1>4. /\ IsFiniteSet(all)
      /\ Cardinality(all) \in Nat /\ assessed \in Nat
      /\ assessed <= Cardinality(all)
      /\ all # judged => assessed < Cardinality(all)
      /\ IsFiniteSet(failing)
  BY <1>1, EvidenceIsFinite, FiniteSubset
<1>5. /\ SubjectsOf(AllEvals(job)) \subseteq all
      /\ Cardinality(SubjectsOf(AllEvals(job))) \in Nat
  <2>1. ASSUME NEW e \in AllEvals(job) PROVE e.subject \in all
    <3>1. PICK i \in 1..Len(job.files), c \in Checks :
             e = EvaluateCheck(i, c, job.files[i], {})
      BY EvalsAre DEF AllEvals
    <3>2. e.subject = job.files[i].subject
      BY <3>1 DEF EvaluateCheck
    <3> QED
      BY <3>2 DEF Bundles
  <2>2. SubjectsOf(AllEvals(job)) \subseteq all
    BY <2>1 DEF SubjectsOf
  <2> QED
    BY <2>2, <1>4, FiniteSubset
<1>6. EstateTotal(AllEvals(job), job.total) \in Int
      /\ (job.total # -1 => EstateTotal(AllEvals(job), job.total) = job.total)
  BY <1>5, JobTyped DEF EstateTotal, NotGiven
<1>7. Cardinality(D) \in Nat
  <2>1. D \subseteq AllEvals(job)
    BY DEF Behind, Determined, Contributing
  <2> QED
    BY <2>1, EvidenceIsFinite, FiniteSubset
<1>8. estate \in Int
  BY <1>6, <1>7
<1>9. "not-satisfied" \in Verdicts(job, x) => Cardinality(failing) > 0
  <2>1. "not-satisfied" \in Verdicts(job, x) => failing # {}
    BY DEF Verdicts, SubjectsWhere
  <2>2. Cardinality(failing) \in Nat /\ (Cardinality(failing) = 0 <=> failing = {})
    BY <1>4, FS_CardinalityType, FS_EmptySet
  <2> QED
    BY <2>1, <2>2
<1>10. job.total >= Cardinality(all) => job.total # -1
  BY <1>4, JobTyped
<1> HIDE DEF F, D, judged, failing, passing, all, estate, assessed, aggregateOnly
<1>11. /\ F.population.assessed = assessed
       /\ F.population.failing = Cardinality(failing)
       /\ F.population.na = Cardinality(judged \ (failing \cup passing))
       /\ F.population.total = IF estate > assessed THEN estate ELSE assessed
  BY <1>1, <1>2, <1>3 DEF assessed
<1>12. F.population.assessed <= F.population.total
  BY <1>4, <1>8, <1>11
<1>13. ASSUME F.basis = "subject", job.total >= Cardinality(all)
       PROVE  /\ F.population.total = job.total
              /\ all # judged => F.saysPartial
  <2>1. estate = job.total
    BY <1>13, <1>2, <1>6, <1>10
  <2>2. F.population.total = job.total
    BY <2>1, <1>13, <1>4, <1>8, <1>11
  <2>3. all # judged => F.population.assessed < F.population.total
    BY <2>1, <2>2, <1>13, <1>4, <1>8, <1>11
  <2> QED
    BY <2>2, <2>3, <1>2
<1> QED
  BY <1>9, <1>11, <1>12, <1>13 DEF F, judged, failing, passing, all, assessed

-----------------------------------------------------------------------------
(* Identifiers, and the same evidence twice.                               *)

\* No two of an invocation's bundles are of one subject, as where a run's
\* directory holds a file per host.
OneBundleEach(job) ==
  \A i, j \in 1..Len(job.files) : job.files[i].subject = job.files[j].subject => i = j

\* Then an evaluation is known by its check and its subject.
LEMMA KnownByCheckAndSubject ==
  ASSUME NEW job, OneBundleEach(job),
         NEW d \in AllEvals(job), NEW e \in AllEvals(job),
         d.check = e.check, d.subject = e.subject
  PROVE  d = e
<1>1. PICK i \in 1..Len(job.files), c \in Checks : d = EvaluateCheck(i, c, job.files[i], {})
  BY EvalsAre DEF AllEvals
<1>2. PICK j \in 1..Len(job.files), k \in Checks : e = EvaluateCheck(j, k, job.files[j], {})
  BY EvalsAre DEF AllEvals
<1>3. /\ d.check = c /\ d.subject = job.files[i].subject
      /\ e.check = k /\ e.subject = job.files[j].subject
  BY <1>1, <1>2 DEF EvaluateCheck
<1>4. c = k /\ i = j
  BY <1>3 DEF OneBundleEach
<1> QED
  BY <1>1, <1>2, <1>4

LEMMA BehindAre ==
  ASSUME NEW job, NEW x
  PROVE  \A e : e \in Behind(job, x) <=>
           /\ e \in AllEvals(job)
           /\ x \in Binds[e.check]
           /\ e.result.status \in Determinate
BY DEF Behind, Determined, Contributing, EmitsFinding

\* A finding cites the observations of the determinations it rests on, and
\* no other observation.
LEMMA FindingCitesItsDeterminations ==
  ASSUME NEW n, NEW job \in Job, OneBundleEach(job),
         NEW x \in DeterminedControls(AllEvals(job))
  PROVE  {e \in AllEvals(job) :
            ObservationId(ResultId(job.run), e.check, e.subject)
              \in FindingFor(n, job, x).related}
           = {e \in AllEvals(job) : x \in Binds[e.check] /\ e.result.status \in Determinate}
<1> DEFINE related == FindingFor(n, job, x).related
           Id(e) == ObservationId(ResultId(job.run), e.check, e.subject)
<1>1. related = {Id(e) : e \in Behind(job, x)}
  BY FindingFields
<1>2. \A d, e : Id(d) = Id(e) => d.check = e.check /\ d.subject = e.subject
  BY DEF ObservationId
<1> HIDE DEF Id, related
<1>3. ASSUME NEW e \in AllEvals(job) PROVE Id(e) \in related <=> e \in Behind(job, x)
  <2>1. ASSUME Id(e) \in related PROVE e \in Behind(job, x)
    <3>1. PICK d \in Behind(job, x) : Id(d) = Id(e)
      BY <2>1, <1>1
    <3>2. d \in AllEvals(job) /\ d.check = e.check /\ d.subject = e.subject
      BY <3>1, <1>2, BehindAre
    <3>3. d = e
      BY <3>2, KnownByCheckAndSubject
    <3> QED
      BY <3>3
  <2> QED
    BY <2>1, <1>1
<1>4. {e \in AllEvals(job) : Id(e) \in related}
        = {e \in AllEvals(job) : x \in Binds[e.check] /\ e.result.status \in Determinate}
  BY <1>3, BehindAre
<1> QED
  BY <1>4 DEF Id, related

LEMMA CardinalityOfImage ==
  ASSUME NEW S, IsFiniteSet(S), NEW f, \A a, b \in S : f[a] = f[b] => a = b
  PROVE  Cardinality({f[s] : s \in S}) = Cardinality(S)
<1> DEFINE T == {f[s] : s \in S}
           g == [s \in S |-> f[s]]
<1>1. g \in [S -> T] /\ \A t \in T : \E s \in S : g[s] = t
  OBVIOUS
<1>2. \A a, b \in S : g[a] = g[b] => a = b
  OBVIOUS
<1>3. g \in Surjection(S, T)
  BY <1>1 DEF Surjection
<1>4. g \in Injection(S, T)
  BY <1>1, <1>2 DEF Injection, IsInjective
<1> HIDE DEF g
<1>5. Cardinality(T) = Cardinality(S)
  BY <1>3, <1>4, FS_Surjection
<1> QED
  BY <1>5

\* The determinations behind a control are as many in any order of the bundles.
Key(e) == <<e.check, e.subject>>

KeysBehind(job, x) == {Key(e) : e \in Behind(job, x)}

LEMMA AsManyKeys ==
  ASSUME NEW job \in Job, OneBundleEach(job), NEW x
  PROVE  Cardinality(KeysBehind(job, x)) = Cardinality(Behind(job, x))
<1> DEFINE D == Behind(job, x)
           key == [e \in D |-> Key(e)]
<1>1. IsFiniteSet(D)
  <2>1. D \subseteq AllEvals(job)
    BY BehindAre
  <2> QED
    BY <2>1, EvidenceIsFinite, FiniteSubset
<1>2. \A d, e \in D : key[d] = key[e] => d = e
  BY BehindAre, KnownByCheckAndSubject DEF Key
<1>3. {key[e] : e \in D} = KeysBehind(job, x)
  BY DEF KeysBehind
<1> HIDE DEF key, D
<1>4. Cardinality({key[e] : e \in D}) = Cardinality(D)
  BY <1>1, <1>2, CardinalityOfImage
<1> QED
  BY <1>3, <1>4 DEF D

\* What two invocations on the same bundles for the same baseline have behind
\* a control is the same, apart from its place.
LEMMA SameBehind ==
  ASSUME NEW j \in Job, NEW k \in Job, NEW x,
         Bundles(j) = Bundles(k), j.baseline = k.baseline
  PROVE  /\ Verdicts(j, x) = Verdicts(k, x)
         /\ \A d \in Behind(j, x) : \E e \in Behind(k, x) :
              d.check = e.check /\ d.subject = e.subject /\ d.result = e.result
<1>1. LooksAt(j, x) = LooksAt(k, x)
  BY DEF LooksAt, Looks
<1>2. Verdicts(j, x) = Verdicts(k, x)
  BY <1>1 DEF Verdicts
<1>3. ASSUME NEW d \in Behind(j, x)
      PROVE  \E e \in Behind(k, x) :
               d.check = e.check /\ d.subject = e.subject /\ d.result = e.result
  <2>1. PICK p \in LooksAt(j, x) : /\ ComesOf(d, p)
                                   /\ Says(p[1], p[2]) = d.result.status
                                   /\ d.result.status \in Determinate
    BY DeterminationsComeOfVerdicts DEF Behind
  <2>2. PICK e \in Behind(k, x) : ComesOf(e, p)
    BY <2>1, <1>1, DeterminationsComeOfVerdicts DEF Behind
  <2> QED
    BY <2>1, <2>2 DEF ComesOf
<1> QED
  BY <1>2, <1>3

\* Whatever a finding is made of is the same of C as of D.
SameFigures(C, D) ==
  /\ SubjectsOf(C) = SubjectsOf(D)
  /\ SubjectsOf(WithStatus(C, "not-satisfied")) = SubjectsOf(WithStatus(D, "not-satisfied"))
  /\ NotApplicableSubjects(C) = NotApplicableSubjects(D)
  /\ State(C) = State(D)
  /\ StatusProp(C) = StatusProp(D)
  /\ WeakestConfidence(C) = WeakestConfidence(D)
  /\ (\A e \in C : Scope[e.check] = "aggregate") <=> (\A e \in D : Scope[e.check] = "aggregate")
  /\ {Key(e) : e \in C} = {Key(e) : e \in D}
  /\ \A r : {ObservationId(r, e.check, e.subject) : e \in C}
              = {ObservationId(r, e.check, e.subject) : e \in D}

\* It comes of the checks, subjects and results of the determinations alone.
LEMMA FiguresComeOfResults ==
  ASSUME NEW C, NEW D,
         \A d \in C : \E e \in D :
           d.check = e.check /\ d.subject = e.subject /\ d.result = e.result,
         \A d \in D : \E e \in C :
           d.check = e.check /\ d.subject = e.subject /\ d.result = e.result
  PROVE  SameFigures(C, D)
<1>1. SubjectsOf(C) = SubjectsOf(D)
  BY DEF SubjectsOf
<1>2. SubjectsOf(WithStatus(C, "not-satisfied")) = SubjectsOf(WithStatus(D, "not-satisfied"))
  <2>1. \A E, s : s \in SubjectsOf(WithStatus(E, "not-satisfied"))
                    <=> \E e \in E : e.subject = s /\ e.result.status = "not-satisfied"
    BY DEF SubjectsOf, WithStatus
  <2>2. \A s : s \in SubjectsOf(WithStatus(C, "not-satisfied"))
                 <=> s \in SubjectsOf(WithStatus(D, "not-satisfied"))
    BY <2>1
  <2> QED
    BY <2>2
<1>3. NotApplicableSubjects(C) = NotApplicableSubjects(D)
  <2>1. \A E, s : s \in NotApplicableSubjects(E)
                    <=> /\ s \in SubjectsOf(E)
                        /\ \A e \in E : e.subject = s => e.result.status = "not-applicable"
    BY DEF NotApplicableSubjects
  <2>2. \A s : s \in NotApplicableSubjects(C) <=> s \in NotApplicableSubjects(D)
    BY <2>1, <1>1
  <2> QED
    BY <2>2
<1>4. State(C) = State(D)
  <2>1. WithStatus(C, "not-satisfied") = {} <=> WithStatus(D, "not-satisfied") = {}
    BY DEF WithStatus
  <2> QED
    BY <2>1 DEF State
<1>5. StatusProp(C) = StatusProp(D)
  <2>1. (\A e \in C : e.result.status = "not-applicable")
          <=> (\A e \in D : e.result.status = "not-applicable")
    OBVIOUS
  <2> QED
    BY <2>1, <1>4 DEF StatusProp
<1>6. WeakestConfidence(C) = WeakestConfidence(D)
  <2>1. ConfidencesOf(C) = ConfidencesOf(D)
    BY DEF ConfidencesOf
  <2> QED
    BY <2>1 DEF WeakestConfidence
<1>7. (\A e \in C : Scope[e.check] = "aggregate")
        <=> (\A e \in D : Scope[e.check] = "aggregate")
  <2>1. ASSUME \A e \in C : Scope[e.check] = "aggregate", NEW d \in D
        PROVE  Scope[d.check] = "aggregate"
    BY <2>1
  <2>2. ASSUME \A e \in D : Scope[e.check] = "aggregate", NEW d \in C
        PROVE  Scope[d.check] = "aggregate"
    BY <2>2
  <2> QED
    BY <2>1, <2>2
<1>8. {Key(e) : e \in C} = {Key(e) : e \in D}
  <2>1. \A d \in C : Key(d) \in {Key(e) : e \in D}
    BY DEF Key
  <2>2. \A d \in D : Key(d) \in {Key(e) : e \in C}
    BY DEF Key
  <2> QED
    BY <2>1, <2>2
<1>9. ASSUME NEW r
      PROVE  {ObservationId(r, e.check, e.subject) : e \in C}
               = {ObservationId(r, e.check, e.subject) : e \in D}
  <2>1. \A d \in C : ObservationId(r, d.check, d.subject)
                       \in {ObservationId(r, e.check, e.subject) : e \in D}
    BY DEF ObservationId
  <2>2. \A d \in D : ObservationId(r, d.check, d.subject)
                       \in {ObservationId(r, e.check, e.subject) : e \in C}
    BY DEF ObservationId
  <2> QED
    BY <2>1, <2>2
<1> QED
  BY <1>1, <1>2, <1>3, <1>4, <1>5, <1>6, <1>7, <1>8, <1>9 DEF SameFigures

LEMMA SameSubjects ==
  ASSUME NEW j \in Job, NEW k \in Job,
         Bundles(j) = Bundles(k), j.baseline = k.baseline
  PROVE  SubjectsOf(AllEvals(j)) \subseteq SubjectsOf(AllEvals(k))
<1> SUFFICES ASSUME NEW d \in AllEvals(j) PROVE \E e \in AllEvals(k) : e.subject = d.subject
  BY DEF SubjectsOf
<1>1. PICK i \in 1..Len(j.files), c \in Checks :
         /\ Applies(c, j.files[i], j.baseline)
         /\ d = EvaluateCheck(i, c, j.files[i], {})
  BY EvalsAre DEF AllEvals
<1>2. PICK m \in 1..Len(k.files) : k.files[m] = j.files[i]
  <2>1. j.files[i] \in Bundles(k)
    BY DEF Bundles
  <2> QED
    BY <2>1 DEF Bundles
<1> DEFINE e == EvaluateCheck(m, c, k.files[m], {})
<1>3. e \in AllEvals(k)
  BY <1>1, <1>2, EvalsAre DEF AllEvals
<1>4. e.subject = d.subject
  BY <1>1, <1>2 DEF EvaluateCheck
<1> QED
  BY <1>3, <1>4

\* The same bundles in any order give the same findings, figures included.
LEMMA SameFindings ==
  ASSUME NEW m, NEW n, NEW j \in Job, NEW k \in Job,
         OneBundleEach(j), OneBundleEach(k),
         Bundles(j) = Bundles(k), j.baseline = k.baseline,
         j.total = k.total, j.run = k.run
  PROVE  ResultsFor(m, j).findings = ResultsFor(n, k).findings
<1> DEFINE estate == EstateTotal(AllEvals(j), j.total)
           DC == DeterminedControls(AllEvals(j))
<1>1. EstateTotal(AllEvals(k), k.total) = estate
  <2>1. SubjectsOf(AllEvals(j)) = SubjectsOf(AllEvals(k))
    BY SameSubjects
  <2> QED
    BY <2>1 DEF EstateTotal
<1>2. DeterminedControls(AllEvals(k)) = DC
  BY SameBehind, DeterminedControlsAre
<1>3. ASSUME NEW x
      PROVE  Finding(ResultId(j.run), j.baseline, x, Contributing(AllEvals(j), x), estate)
               = Finding(ResultId(k.run), k.baseline, x, Contributing(AllEvals(k), x), estate)
  <2> DEFINE C == Behind(j, x)
             D == Behind(k, x)
             aggregateC == \A e \in C : Scope[e.check] = "aggregate"
             aggregateD == \A e \in D : Scope[e.check] = "aggregate"
             popC == Population(C, IF aggregateC THEN Cardinality(C) ELSE estate)
             popD == Population(D, IF aggregateD THEN Cardinality(D) ELSE estate)
  <2>1. SameFigures(C, D)
    BY SameBehind, FiguresComeOfResults
  <2>2. Cardinality(C) = Cardinality(D)
    <3>1. KeysBehind(j, x) = KeysBehind(k, x)
      BY <2>1 DEF SameFigures, KeysBehind
    <3> QED
      BY <3>1, AsManyKeys
  <2>3. popC = popD
    <3>1. aggregateC <=> aggregateD
      BY <2>1 DEF SameFigures
    <3>2. (IF aggregateC THEN Cardinality(C) ELSE estate)
            = (IF aggregateD THEN Cardinality(D) ELSE estate)
      BY <3>1, <2>2
    <3>3. \A t : Population(C, t) = Population(D, t)
      BY <2>1, <2>2 DEF Population, SameFigures
    <3> QED
      BY <3>2, <3>3
  <2>4. Finding(ResultId(j.run), j.baseline, x, Contributing(AllEvals(j), x), estate)
          = [id            |-> FindingId(ResultId(j.run), x, j.baseline),
             state         |-> State(C),
             status        |-> StatusProp(C),
             reason        |-> IF State(C) = "satisfied" THEN "pass" ELSE "fail",
             notApplicable |-> StatusProp(C) = "not-applicable",
             confidence    |-> WeakestConfidence(C),
             basis         |-> IF aggregateC THEN "aggregate-subject" ELSE "subject",
             population    |-> popC,
             saysPartial   |-> popC.assessed < popC.total,
             related       |-> {ObservationId(ResultId(j.run), e.check, e.subject) : e \in C}]
    BY Zenon DEF Finding, Behind
  <2>5. Finding(ResultId(j.run), j.baseline, x, Contributing(AllEvals(k), x), estate)
          = [id            |-> FindingId(ResultId(j.run), x, j.baseline),
             state         |-> State(D),
             status        |-> StatusProp(D),
             reason        |-> IF State(D) = "satisfied" THEN "pass" ELSE "fail",
             notApplicable |-> StatusProp(D) = "not-applicable",
             confidence    |-> WeakestConfidence(D),
             basis         |-> IF aggregateD THEN "aggregate-subject" ELSE "subject",
             population    |-> popD,
             saysPartial   |-> popD.assessed < popD.total,
             related       |-> {ObservationId(ResultId(j.run), e.check, e.subject) : e \in D}]
    BY Zenon DEF Finding, Behind
  <2>6. /\ State(C) = State(D) /\ StatusProp(C) = StatusProp(D)
        /\ WeakestConfidence(C) = WeakestConfidence(D)
        /\ aggregateC <=> aggregateD
    BY <2>1 DEF SameFigures
  <2>7. {ObservationId(ResultId(j.run), e.check, e.subject) : e \in C}
          = {ObservationId(ResultId(j.run), e.check, e.subject) : e \in D}
    <3>1. \A r : {ObservationId(r, e.check, e.subject) : e \in C}
                   = {ObservationId(r, e.check, e.subject) : e \in D}
      BY <2>1, Zenon DEF SameFigures
    <3> QED
      BY <3>1, Zenon
  <2>8. ResultId(k.run) = ResultId(j.run) /\ k.baseline = j.baseline
    OBVIOUS
  <2> HIDE DEF C, D, aggregateC, aggregateD, popC, popD
  <2> QED
    BY <2>3, <2>4, <2>5, <2>6, <2>7, <2>8
<1>4. /\ ResultsFor(m, j).findings = Findings(j.run, j.baseline, AllEvals(j), j.total)
      /\ ResultsFor(n, k).findings = Findings(k.run, k.baseline, AllEvals(k), k.total)
  BY ResultsFields
<1>5. Findings(j.run, j.baseline, AllEvals(j), j.total)
        = [x \in DC |->
             Finding(ResultId(j.run), j.baseline, x, Contributing(AllEvals(j), x), estate)]
  BY Zenon DEF Findings
<1>6. Findings(k.run, k.baseline, AllEvals(k), k.total)
        = [x \in DC |->
             Finding(ResultId(k.run), k.baseline, x, Contributing(AllEvals(k), x), estate)]
  BY <1>1, <1>2, Zenon DEF Findings
<1> HIDE DEF DC, estate
<1> QED
  BY <1>3, <1>4, <1>5, <1>6

=============================================================================
