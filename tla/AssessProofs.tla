---------------------------- MODULE AssessProofs ----------------------------
(***************************************************************************)
(* The properties of AssessProperties, for every registry, every evaluator *)
(* and every sequence of invocations, crashes and readings.                *)
(*                                                                         *)
(* A document says what the invocation that wrote it said, for ever: that  *)
(* is the strengthening (Honest) under which the properties follow from    *)
(* the lemmas of VerdictLemmas.  None of them is inductive by itself: what *)
(* WriteResults writes is right because of the evaluations EvaluateNext    *)
(* gathered, one bundle after another, in the steps before it.             *)
(***************************************************************************)
EXTENDS VerdictLemmas

\* The documents of the invocation in place k.
PlanOf(k) == Plan(k, jobs[k].baseline)
ResultsOf(k) == ResultsFor(k, jobs[k])
PoamOf(k) == Poam(k, ResultsOf(k))

\* Every document that parses is what its invocation had to say.
DocumentsAreTheirWriters ==
  /\ IsWhole(plan) => plan = PlanOf(plan.by)
  /\ IsWhole(results) => results = ResultsOf(results.by)
  /\ IsWhole(poam) => poam = PoamOf(poam.by)

\* A reader between its two files holds some invocation's plan.
ReaderHoldsAPlan ==
  IF reader.kind = "nothing" THEN reader = NotReading
  ELSE IsWhole(reader.plan) /\ reader.plan = PlanOf(reader.plan.by)

\* What was rendered was rendered from documents of invocations.
RenderedFromDocuments ==
  /\ Reported =>
       /\ report.planBy \in 1..Len(jobs)
       /\ report.rows = Build(PlanOf(report.planBy), ResultsOf(report.resultsBy))
  /\ Annexed =>
       /\ annex.planBy \in 1..Len(jobs)
       /\ annex.cells = Populate(Build(PlanOf(annex.planBy), ResultsOf(annex.resultsBy)))

\* How far the running evaluation is: the bundles it has evaluated, and the
\* documents it has written.
EvaluationProgress ==
  /\ pc # "idle" => evals = EvalsOf(Current, cursor)
  /\ pc \in {"writing-results", "writing-poam"} =>
       cursor = Len(Current.files) /\ plan.by = Len(jobs)
  /\ pc = "writing-poam" => results.by = Len(jobs)

\* The inductive invariant.
Honest ==
  /\ TypeOK
  /\ DocumentsAreTheirWriters
  /\ ReaderHoldsAPlan
  /\ RenderedFromDocuments
  /\ EvaluationProgress
  /\ PoamIsLast

-----------------------------------------------------------------------------
(* Types.                                                                  *)

LEMMA TypeOKInit == Init => TypeOK
<1> SUFFICES ASSUME Init PROVE TypeOK
  OBVIOUS
<1>1. /\ now = 0 /\ jobs = <<>> /\ pc = "idle" /\ cursor = 0
      /\ plan.by = 0 /\ results.by = 0 /\ poam.by = 0
      /\ reader.kind = "nothing" /\ reader.plan.by = 0
      /\ report.resultsBy = 0 /\ annex.resultsBy = 0
  BY DEF Init, NoDoc, NotReading, NoReport
<1>2. /\ jobs \in Seq([run : Runs, baseline : Baselines, files : FileLists, total : Totals])
      /\ Len(jobs) = 0
  BY <1>1
<1>3. 0 \in 0..MaxHour /\ Len(jobs) <= MaxJobs
  BY <1>2, InputAssumption
<1> QED
  BY <1>1, <1>2, <1>3 DEF TypeOK

\* What is typed of an invocation that is running.
LEMMA CurrentTyped ==
  ASSUME TypeOK, Len(jobs) > 0
  PROVE  /\ Len(jobs) \in Nat \ {0}
         /\ Current = jobs[Len(jobs)] /\ Current \in Job
         /\ Len(Current.files) \in Nat \ {0}
<1>1. jobs \in Seq(Job)
  BY DEF TypeOK, Job
<1>2. Current \in Job
  BY <1>1 DEF Current
<1> QED
  BY <1>1, <1>2, JobTyped DEF Current

\* Invocations are added, never changed.
LEMMA BeginAdds ==
  ASSUME TypeOK, Begin
  PROVE  /\ \E job \in Job : jobs' = Append(jobs, job)
         /\ jobs' \in Seq(Job)
         /\ Len(jobs) \in Nat /\ Len(jobs') = Len(jobs) + 1 /\ Len(jobs') <= MaxJobs
         /\ \A k \in 1..Len(jobs) : jobs'[k] = jobs[k]
         /\ jobs'[Len(jobs')] \in Job
<1>1. jobs \in Seq(Job) /\ Len(jobs) < MaxJobs /\ MaxJobs \in Nat
  BY InputAssumption DEF TypeOK, Begin, Job
<1>2. PICK run \in Runs, baseline \in Baselines, files \in FileLists, total \in Totals :
         jobs' = Append(jobs, [run |-> run, baseline |-> baseline,
                               files |-> files, total |-> total])
  BY DEF Begin
<1> DEFINE job == [run |-> run, baseline |-> baseline, files |-> files, total |-> total]
<1>3. job \in Job
  BY DEF Job
<1>4. jobs' = Append(jobs, job)
  BY <1>2
<1> HIDE DEF job
<1>5. /\ jobs' \in Seq(Job) /\ Len(jobs') = Len(jobs) + 1
      /\ \A k \in 1..Len(jobs) : jobs'[k] = jobs[k]
      /\ jobs'[Len(jobs')] = job
  BY <1>1, <1>3, <1>4
<1> QED
  BY <1>1, <1>3, <1>4, <1>5

LEMMA JobsAreKept ==
  ASSUME TypeOK, [Next]_vars
  PROVE  /\ jobs' \in Seq(Job)
         /\ Len(jobs) \in Nat /\ Len(jobs') \in Nat /\ Len(jobs) <= Len(jobs')
         /\ \A k \in 1..Len(jobs) : jobs'[k] = jobs[k]
         /\ ~Begin => jobs' = jobs
<1>1. CASE Begin
  BY <1>1, BeginAdds
<1>2. CASE ~Begin
  <2>1. jobs' = jobs
    BY <1>2 DEF Next, Evaluate, Read, EvaluateNext, WritePlan, WriteResults, WritePoam, Die,
                ReadPlan, RenderReport, PopulateAnnex, FailToRead, Tick, vars
  <2> QED
    BY <2>1 DEF TypeOK, Job
<1> QED
  BY <1>1, <1>2

LEMMA WrittenBy ==
  ASSUME NEW k, NEW b, NEW r
  PROVE  Plan(k, b).by = k /\ Poam(k, r).by = k
BY DEF Plan, Poam

LEMMA ResultsBy ==
  ASSUME NEW k, NEW run, NEW baseline, NEW es, NEW total
  PROVE  Results(k, run, baseline, es, total).by = k
BY DEF Results

LEMMA TypeOKStep ==
  ASSUME TypeOK, [Next]_vars
  PROVE  TypeOK'
<1> USE DEF Job
<1>1. CASE Begin
  <2>1. /\ jobs' \in Seq(Job) /\ Len(jobs) \in Nat
        /\ Len(jobs') = Len(jobs) + 1 /\ Len(jobs') <= MaxJobs
        /\ jobs'[Len(jobs')] \in Job
    BY <1>1, BeginAdds
  <2>2. /\ pc' = "evaluating" /\ cursor' = 0
        /\ UNCHANGED <<now, plan, results, poam, reader, report, annex>>
    BY <1>1 DEF Begin
  <2>3. Len(Current'.files) \in Nat \ {0}
    BY <2>1, JobTyped DEF Current
  <2>4. Len(jobs') > 0 /\ 0 <= Len(Current'.files)
    BY <2>1, <2>3
  <2> QED
    BY <2>1, <2>2, <2>4, SMTT(20) DEF TypeOK
<1>2. CASE EvaluateNext
  <2>1. /\ pc = "evaluating" /\ cursor < Len(Current.files) /\ cursor' = cursor + 1
        /\ UNCHANGED <<now, jobs, pc, plan, results, poam, reader, report, annex>>
    BY <1>2 DEF EvaluateNext
  <2>2. Current' = Current
    BY <2>1 DEF Current
  <2>3. cursor \in Nat /\ Len(Current.files) \in Nat
    BY <2>1, CurrentTyped DEF TypeOK
  <2>4. cursor' \in Nat /\ cursor' <= Len(Current'.files)
    BY <2>1, <2>2, <2>3
  <2> QED
    BY <2>1, <2>4 DEF TypeOK
<1>3. CASE WritePlan \/ WriteResults \/ WritePoam \/ Die
  <2>1. /\ pc # "idle"
        /\ pc' \in {"idle", "writing-results", "writing-poam"}
        /\ plan' = plan \/ plan'.by = -1 \/ plan'.by = Len(jobs)
        /\ results' = results \/ results'.by = -1 \/ results'.by = Len(jobs)
        /\ poam' = poam \/ poam'.by = -1 \/ poam'.by = Len(jobs)
        /\ UNCHANGED <<now, jobs, cursor, reader, report, annex>>
    BY <1>3, WrittenBy, ResultsBy
       DEF WritePlan, WriteResults, WritePoam, Die, Torn
  <2>2. Current' = Current
    BY <2>1 DEF Current
  <2>3. Len(jobs) \in Nat
    BY DEF TypeOK
  <2>4. /\ plan'.by \in -1..Len(jobs) /\ results'.by \in -1..Len(jobs)
        /\ poam'.by \in -1..Len(jobs)
    BY <2>1, <2>3 DEF TypeOK
  <2> QED
    BY <2>1, <2>2, <2>4 DEF TypeOK
<1>4. CASE ReadPlan
  <2>1. /\ reader'.kind \in {"report", "annex"} /\ reader'.plan = plan
        /\ plan.by > 0
        /\ UNCHANGED <<now, jobs, pc, cursor, evals, plan, results, poam, report, annex>>
    BY <1>4 DEF ReadPlan, IsWhole
  <2>2. Len(jobs) \in Nat /\ plan.by \in -1..Len(jobs)
    BY DEF TypeOK
  <2>3. reader'.plan.by \in 0..Len(jobs)
    BY <2>1, <2>2
  <2>4. Current' = Current
    BY <2>1 DEF Current
  <2> QED
    BY <2>1, <2>3, <2>4 DEF TypeOK
<1>5. CASE RenderReport \/ PopulateAnnex \/ FailToRead
  <2>1. /\ reader' = NotReading
        /\ report' = report \/ (report'.resultsBy = results.by /\ results.by > 0)
        /\ annex' = annex \/ (annex'.resultsBy = results.by /\ results.by > 0)
        /\ UNCHANGED <<now, jobs, pc, cursor, evals, plan, results, poam>>
    BY <1>5 DEF RenderReport, PopulateAnnex, FailToRead, IsWhole
  <2>2. Len(jobs) \in Nat /\ results.by \in -1..Len(jobs)
    BY DEF TypeOK
  <2>3. /\ reader'.kind = "nothing" /\ reader'.plan.by \in 0..Len(jobs)
        /\ report'.resultsBy \in 0..Len(jobs) /\ annex'.resultsBy \in 0..Len(jobs)
    BY <2>1, <2>2 DEF NotReading, NoDoc, TypeOK
  <2>4. Current' = Current
    BY <2>1 DEF Current
  <2> QED
    BY <2>1, <2>3, <2>4 DEF TypeOK
<1>6. CASE Tick
  <2>1. /\ now < MaxHour /\ now' = now + 1
        /\ UNCHANGED <<jobs, pc, cursor, evals, plan, results, poam, reader, report, annex>>
    BY <1>6 DEF Tick
  <2>2. now' \in 0..MaxHour
    BY <2>1, InputAssumption DEF TypeOK
  <2>3. Current' = Current
    BY <2>1 DEF Current
  <2> QED
    BY <2>1, <2>2, <2>3 DEF TypeOK
<1>7. CASE UNCHANGED vars
  <2>1. UNCHANGED <<now, jobs, pc, cursor, evals, plan, results, poam, reader, report, annex>>
    BY <1>7 DEF vars
  <2>2. Current' = Current
    BY <2>1 DEF Current
  <2> QED
    BY <2>1, <2>2 DEF TypeOK
<1> QED
  BY <1>1, <1>2, <1>3, <1>4, <1>5, <1>6, <1>7 DEF Next, Evaluate, Read

\* Every variable holds what the code keeps there, however evaluations,
\* crashes, readers and the clock interleave.
THEOREM TypeCorrect == Spec => []TypeOK
<1>1. TypeOK /\ [Next]_vars => TypeOK'
  BY TypeOKStep
<1> QED
  BY TypeOKInit, <1>1, PTL DEF Spec

-----------------------------------------------------------------------------
(* The inductive invariant.                                                *)

LEMMA HonestInit == Init => Honest
<1> SUFFICES ASSUME Init PROVE Honest
  OBVIOUS
<1>1. TypeOK
  BY TypeOKInit
<1>2. /\ ~IsWhole(plan) /\ ~IsWhole(results) /\ ~IsWhole(poam)
      /\ reader.kind = "nothing" /\ reader = NotReading
      /\ ~Reported /\ ~Annexed
      /\ pc = "idle"
  BY DEF Init, NoDoc, NotReading, NoReport, IsWhole, Reported, Annexed
<1> QED
  BY <1>1, <1>2 DEF Honest, DocumentsAreTheirWriters, ReaderHoldsAPlan,
                    RenderedFromDocuments, EvaluationProgress, PoamIsLast

\* How documents change: they are torn, or written with all that their
\* invocation has to say.
LEMMA DocumentsAreWritten ==
  ASSUME Honest, [Next]_vars
  PROVE  /\ \/ plan' = plan
            \/ plan' = Torn
            \/ WritePlan /\ plan' = PlanOf(Len(jobs))
         /\ \/ results' = results
            \/ results' = Torn
            \/ WriteResults /\ results' = ResultsOf(Len(jobs))
         /\ \/ poam' = poam
            \/ poam' = Torn
            \/ WritePoam /\ poam' = PoamOf(Len(jobs))
<1>1. CASE WritePlan
  BY <1>1 DEF WritePlan, PlanOf, Current
<1>2. ASSUME pc \in {"writing-results", "writing-poam"}
      PROVE  Results(Len(jobs), Current.run, Current.baseline, evals, Current.total)
               = ResultsOf(Len(jobs))
  <2>1. evals = AllEvals(Current)
    BY <1>2 DEF Honest, EvaluationProgress, AllEvals
  <2> QED
    BY <2>1 DEF ResultsOf, ResultsFor, Current
<1>3. CASE WriteResults
  BY <1>2, <1>3 DEF WriteResults
<1>4. CASE WritePoam
  BY <1>2, <1>4 DEF WritePoam, PoamOf
<1>5. CASE Die
  BY <1>5 DEF Die
<1>6. CASE Begin \/ EvaluateNext \/ Read \/ Tick \/ UNCHANGED vars
  BY <1>6 DEF Begin, EvaluateNext, Read, ReadPlan, RenderReport, PopulateAnnex, FailToRead,
              Tick, vars
<1> QED
  BY <1>1, <1>3, <1>4, <1>5, <1>6 DEF Next, Evaluate

LEMMA OfPlaces ==
  ASSUME NEW k
  PROVE  PlanOf(k).by = k /\ ResultsOf(k).by = k /\ PoamOf(k).by = k
BY WrittenBy, ResultsBy DEF PlanOf, ResultsOf, PoamOf, ResultsFor

LEMMA DocumentsStep ==
  ASSUME Honest, [Next]_vars
  PROVE  DocumentsAreTheirWriters'
<1> USE DEF Honest
<1>1. Torn.by = -1
  BY DEF Torn
<1>2. plan.by \in -1..Len(jobs) /\ results.by \in -1..Len(jobs) /\ poam.by \in -1..Len(jobs)
      /\ Len(jobs) \in Nat
  BY DEF TypeOK
<1>3. WritePlan \/ WriteResults \/ WritePoam => Len(jobs) \in 1..Len(jobs)
  BY <1>2 DEF TypeOK, WritePlan, WriteResults, WritePoam
<1>4. (IsWhole(plan) => plan = PlanOf(plan.by))'
  <2>1. CASE plan' = plan
    BY <2>1, <1>2, JobsAreKept DEF IsWhole, DocumentsAreTheirWriters, PlanOf
  <2>2. CASE plan' = Torn
    BY <2>2, <1>1 DEF IsWhole
  <2>3. CASE WritePlan /\ plan' = PlanOf(Len(jobs))
    BY <2>3, <1>3, OfPlaces, JobsAreKept DEF PlanOf
  <2> QED
    BY <2>1, <2>2, <2>3, DocumentsAreWritten
<1>5. (IsWhole(results) => results = ResultsOf(results.by))'
  <2>1. CASE results' = results
    BY <2>1, <1>2, JobsAreKept DEF IsWhole, DocumentsAreTheirWriters, ResultsOf
  <2>2. CASE results' = Torn
    BY <2>2, <1>1 DEF IsWhole
  <2>3. CASE WriteResults /\ results' = ResultsOf(Len(jobs))
    BY <2>3, <1>3, OfPlaces, JobsAreKept DEF ResultsOf
  <2> QED
    BY <2>1, <2>2, <2>3, DocumentsAreWritten
<1>6. (IsWhole(poam) => poam = PoamOf(poam.by))'
  <2>1. CASE poam' = poam
    BY <2>1, <1>2, JobsAreKept DEF IsWhole, DocumentsAreTheirWriters, PoamOf, ResultsOf
  <2>2. CASE poam' = Torn
    BY <2>2, <1>1 DEF IsWhole
  <2>3. CASE WritePoam /\ poam' = PoamOf(Len(jobs))
    BY <2>3, <1>3, OfPlaces, JobsAreKept DEF PoamOf, ResultsOf
  <2> QED
    BY <2>1, <2>2, <2>3, DocumentsAreWritten
<1> QED
  BY <1>4, <1>5, <1>6 DEF DocumentsAreTheirWriters

LEMMA ReaderStep ==
  ASSUME Honest, [Next]_vars
  PROVE  ReaderHoldsAPlan'
<1> USE DEF Honest
<1>1. CASE reader' = reader
  <2>1. CASE reader.kind = "nothing"
    BY <1>1, <2>1 DEF ReaderHoldsAPlan, NotReading, NoDoc
  <2>2. CASE reader.kind # "nothing"
    <3>1. reader.plan.by \in 1..Len(jobs)
      BY <2>2 DEF ReaderHoldsAPlan, IsWhole, TypeOK
    <3> QED
      BY <1>1, <2>2, <3>1, JobsAreKept DEF ReaderHoldsAPlan, PlanOf, IsWhole
  <2> QED
    BY <2>1, <2>2
<1>2. CASE ReadPlan
  <2>1. PICK kind \in {"report", "annex"} : reader' = [kind |-> kind, plan |-> plan]
    BY <1>2 DEF ReadPlan
  <2>2. reader'.kind = kind /\ reader'.plan = plan
    BY <2>1
  <2>3. plan.by > 0 /\ plan = PlanOf(plan.by) /\ jobs' = jobs
    BY <1>2 DEF ReadPlan, IsWhole, DocumentsAreTheirWriters
  <2> QED
    BY <2>2, <2>3 DEF ReaderHoldsAPlan, PlanOf, IsWhole
<1>3. CASE reader' = NotReading
  BY <1>3 DEF ReaderHoldsAPlan, NotReading, NoDoc
<1>4. reader' = reader \/ ReadPlan \/ reader' = NotReading
  BY DEF Next, Evaluate, Read, Begin, EvaluateNext, WritePlan, WriteResults, WritePoam, Die,
         ReadPlan, RenderReport, PopulateAnnex, FailToRead, Tick, vars
<1> QED
  BY <1>1, <1>2, <1>3, <1>4

LEMMA RenderedStep ==
  ASSUME Honest, [Next]_vars
  PROVE  RenderedFromDocuments'
<1> USE DEF Honest
<1>1. /\ Len(jobs) \in Nat
      /\ report.resultsBy \in 0..Len(jobs) /\ annex.resultsBy \in 0..Len(jobs)
  BY DEF TypeOK
<1>2. ASSUME reader.kind # "nothing"
      PROVE  reader.plan = PlanOf(reader.plan.by) /\ reader.plan.by \in 1..Len(jobs)
  BY <1>2 DEF ReaderHoldsAPlan, IsWhole, TypeOK
<1>3. IsWhole(results) => results = ResultsOf(results.by) /\ results.by \in 1..Len(jobs)
  BY DEF DocumentsAreTheirWriters, IsWhole, TypeOK
<1>4. (Reported =>
         /\ report.planBy \in 1..Len(jobs)
         /\ report.rows = Build(PlanOf(report.planBy), ResultsOf(report.resultsBy)))'
  <2>1. CASE report' = report
    <3>1. Reported =>
            /\ report.resultsBy \in 1..Len(jobs) /\ report.planBy \in 1..Len(jobs)
            /\ report.rows = Build(PlanOf(report.planBy), ResultsOf(report.resultsBy))
      BY <1>1 DEF RenderedFromDocuments, Reported
    <3> QED
      BY <2>1, <3>1, JobsAreKept DEF Reported, PlanOf, ResultsOf
  <2>2. CASE RenderReport
    <3>1. /\ report'.planBy = reader.plan.by /\ report'.resultsBy = results.by
          /\ report'.rows = Build(reader.plan, results)
          /\ reader.kind # "nothing" /\ IsWhole(results) /\ jobs' = jobs
      BY <2>2 DEF RenderReport
    <3>2. report'.rows = Build(PlanOf(reader.plan.by), ResultsOf(results.by))
      BY <3>1, <1>2, <1>3
    <3> QED
      BY <3>1, <3>2, <1>2 DEF PlanOf, ResultsOf
  <2>3. report' = report \/ RenderReport
    BY DEF Next, Evaluate, Read, Begin, EvaluateNext, WritePlan, WriteResults, WritePoam, Die,
           ReadPlan, PopulateAnnex, FailToRead, Tick, vars
  <2> QED
    BY <2>1, <2>2, <2>3
<1>5. (Annexed =>
         /\ annex.planBy \in 1..Len(jobs)
         /\ annex.cells = Populate(Build(PlanOf(annex.planBy), ResultsOf(annex.resultsBy))))'
  <2>1. CASE annex' = annex
    <3>1. Annexed =>
            /\ annex.resultsBy \in 1..Len(jobs) /\ annex.planBy \in 1..Len(jobs)
            /\ annex.cells = Populate(Build(PlanOf(annex.planBy), ResultsOf(annex.resultsBy)))
      BY <1>1 DEF RenderedFromDocuments, Annexed
    <3> QED
      BY <2>1, <3>1, JobsAreKept DEF Annexed, PlanOf, ResultsOf
  <2>2. CASE PopulateAnnex
    <3>1. /\ annex'.planBy = reader.plan.by /\ annex'.resultsBy = results.by
          /\ annex'.cells = Populate(Build(reader.plan, results))
          /\ reader.kind # "nothing" /\ IsWhole(results) /\ jobs' = jobs
      BY <2>2 DEF PopulateAnnex
    <3>2. annex'.cells = Populate(Build(PlanOf(reader.plan.by), ResultsOf(results.by)))
      BY <3>1, <1>2, <1>3
    <3> QED
      BY <3>1, <3>2, <1>2 DEF PlanOf, ResultsOf
  <2>3. annex' = annex \/ PopulateAnnex
    BY DEF Next, Evaluate, Read, Begin, EvaluateNext, WritePlan, WriteResults, WritePoam, Die,
           ReadPlan, RenderReport, FailToRead, Tick, vars
  <2> QED
    BY <2>1, <2>2, <2>3
<1> QED
  BY <1>4, <1>5 DEF RenderedFromDocuments

LEMMA ProgressStep ==
  ASSUME Honest, [Next]_vars
  PROVE  EvaluationProgress'
<1> USE DEF Honest
<1>1. CASE Begin
  <2>1. pc' = "evaluating" /\ cursor' = 0 /\ evals' = {}
    BY <1>1 DEF Begin
  <2>2. EvalsOf(Current', 0) = {}
    BY EvalsGrow
  <2> QED
    BY <2>1, <2>2 DEF EvaluationProgress
<1>2. CASE EvaluateNext
  <2>1. /\ pc = "evaluating" /\ pc' = pc /\ jobs' = jobs /\ cursor' = cursor + 1
        /\ evals' = evals \cup EvaluateBundle(cursor + 1, Current.files[cursor + 1],
                                              Current.baseline)
    BY <1>2 DEF EvaluateNext
  <2>2. cursor \in Nat /\ evals = EvalsOf(Current, cursor)
    BY <2>1 DEF EvaluationProgress, TypeOK
  <2>3. evals' = EvalsOf(Current, cursor')
    BY <2>1, <2>2, EvalsGrow
  <2>4. Current' = Current
    BY <2>1 DEF Current
  <2> QED
    BY <2>1, <2>3, <2>4 DEF EvaluationProgress
<1>3. CASE WritePlan
  <2>1. /\ pc = "evaluating" /\ pc' = "writing-results" /\ cursor = Len(Current.files)
        /\ plan'.by = Len(jobs)
        /\ UNCHANGED <<jobs, cursor, evals>>
    BY <1>3, WrittenBy DEF WritePlan
  <2> QED
    BY <2>1 DEF EvaluationProgress, Current
<1>4. CASE WriteResults
  <2>1. /\ pc = "writing-results" /\ pc' = "writing-poam"
        /\ results'.by = Len(jobs)
        /\ UNCHANGED <<jobs, cursor, evals, plan>>
    BY <1>4, ResultsBy DEF WriteResults
  <2> QED
    BY <2>1 DEF EvaluationProgress, Current
<1>5. CASE WritePoam \/ Die
  <2>1. pc' = "idle"
    BY <1>5 DEF WritePoam, Die
  <2> QED
    BY <2>1 DEF EvaluationProgress
<1>6. CASE Read \/ Tick \/ UNCHANGED vars
  <2>1. UNCHANGED <<jobs, pc, cursor, evals, plan, results>>
    BY <1>6 DEF Read, ReadPlan, RenderReport, PopulateAnnex, FailToRead, Tick, vars
  <2> QED
    BY <2>1 DEF EvaluationProgress, Current
<1> QED
  BY <1>1, <1>2, <1>3, <1>4, <1>5, <1>6 DEF Next, Evaluate

LEMMA PoamIsLastStep ==
  ASSUME Honest, [Next]_vars
  PROVE  PoamIsLast'
<1> USE DEF Honest
<1>1. /\ Len(jobs) \in Nat /\ Len(jobs') \in Nat /\ Len(jobs) <= Len(jobs')
      /\ plan.by \in -1..Len(jobs) /\ results.by \in -1..Len(jobs) /\ poam.by \in -1..Len(jobs)
  BY JobsAreKept DEF TypeOK
<1>2. CASE Begin \/ EvaluateNext \/ Read \/ Tick \/ UNCHANGED vars
  <2>1. UNCHANGED <<plan, results, poam>>
    BY <1>2 DEF Begin, EvaluateNext, Read, ReadPlan, RenderReport, PopulateAnnex, FailToRead,
                Tick, vars
  <2> QED
    BY <2>1, <1>1 DEF PoamIsLast, IsWhole
<1>3. CASE WritePlan
  <2>1. plan'.by = Len(jobs) /\ UNCHANGED <<jobs, results, poam>>
    BY <1>3, WrittenBy DEF WritePlan
  <2> QED
    BY <2>1, <1>1 DEF PoamIsLast, IsWhole
<1>4. CASE WriteResults
  <2>1. results'.by = Len(jobs) /\ UNCHANGED <<jobs, plan, poam>>
    BY <1>4, ResultsBy DEF WriteResults
  <2> QED
    BY <2>1, <1>1 DEF PoamIsLast, IsWhole
<1>5. CASE WritePoam
  <2>1. /\ poam'.by = Len(jobs) /\ plan.by = Len(jobs) /\ results.by = Len(jobs)
        /\ UNCHANGED <<jobs, plan, results>>
    BY <1>5, WrittenBy DEF WritePoam, EvaluationProgress
  <2> QED
    BY <2>1, <1>1 DEF PoamIsLast, IsWhole
<1>6. CASE Die
  <2>1. /\ jobs' = jobs
        /\ plan' = plan \/ plan'.by = -1
        /\ results' = results \/ results'.by = -1
        /\ poam' = poam \/ poam'.by = -1
    BY <1>6 DEF Die, Torn
  <2> QED
    BY <2>1, <1>1 DEF PoamIsLast, IsWhole
<1> QED
  BY <1>2, <1>3, <1>4, <1>5, <1>6 DEF Next, Evaluate

\* A document says, for ever, what the invocation that wrote it found.
THEOREM HonestAlways == Spec => []Honest
<1>1. Honest /\ [Next]_vars => Honest'
  <2> SUFFICES ASSUME Honest, [Next]_vars PROVE Honest'
    OBVIOUS
  <2>1. TypeOK'
    BY TypeOKStep DEF Honest
  <2> QED
    BY <2>1, DocumentsStep, ReaderStep, RenderedStep, ProgressStep, PoamIsLastStep DEF Honest
<1> QED
  BY HonestInit, <1>1, PTL DEF Spec

\* Whoever finds a POA&M finds results and plan of its invocation or newer.
THEOREM PoamIsLastAlways == Spec => []PoamIsLast
<1>1. Honest => PoamIsLast
  BY DEF Honest
<1> QED
  BY HonestAlways, <1>1, PTL

-----------------------------------------------------------------------------
(* What documents say is true.                                             *)

LEMMA OnDisk ==
  ASSUME Honest
  PROVE  /\ \A k \in 1..Len(jobs) : jobs[k] \in Job
         /\ ResultsOnDisk =>
              /\ results.by \in 1..Len(jobs) /\ JobOf(results) \in Job
              /\ results = ResultsFor(results.by, JobOf(results))
         /\ IsWhole(poam) =>
              /\ poam.by \in 1..Len(jobs) /\ JobOf(poam) \in Job
              /\ poam = Poam(poam.by, ResultsFor(poam.by, JobOf(poam)))
<1>1. /\ jobs \in Seq(Job) /\ Len(jobs) \in Nat
      /\ results.by \in -1..Len(jobs) /\ poam.by \in -1..Len(jobs)
  BY DEF Honest, TypeOK, Job
<1>2. ResultsOnDisk => results.by \in 1..Len(jobs)
  BY <1>1 DEF ResultsOnDisk, IsWhole
<1>3. IsWhole(poam) => poam.by \in 1..Len(jobs)
  BY <1>1 DEF IsWhole
<1>4. \A k \in 1..Len(jobs) : jobs[k] \in Job
  BY <1>1
<1> QED
  BY <1>2, <1>3, <1>4
     DEF Honest, DocumentsAreTheirWriters, ResultsOnDisk, ResultsOf, PoamOf, JobOf

LEMMA Rendered ==
  ASSUME Honest
  PROVE  /\ Reported =>
              /\ report.resultsBy \in 1..Len(jobs) /\ jobs[report.resultsBy] \in Job
              /\ report.planBy \in 1..Len(jobs)
              /\ report.rows = Build(Plan(report.planBy, jobs[report.planBy].baseline),
                                     ResultsFor(report.resultsBy, jobs[report.resultsBy]))
              /\ DOMAIN report.rows = jobs[report.planBy].baseline
         /\ Annexed =>
              /\ annex.resultsBy \in 1..Len(jobs) /\ jobs[annex.resultsBy] \in Job
              /\ annex.cells
                   = Populate(Build(Plan(annex.planBy, jobs[annex.planBy].baseline),
                                    ResultsFor(annex.resultsBy, jobs[annex.resultsBy])))
<1>1. /\ Len(jobs) \in Nat
      /\ report.resultsBy \in 0..Len(jobs) /\ annex.resultsBy \in 0..Len(jobs)
  BY DEF Honest, TypeOK
<1>2. /\ Reported => report.resultsBy \in 1..Len(jobs)
      /\ Annexed => annex.resultsBy \in 1..Len(jobs)
  BY <1>1 DEF Reported, Annexed
<1> QED
  BY <1>2, OnDisk, RowsAre DEF Honest, RenderedFromDocuments, PlanOf, ResultsOf

LEMMA HonestSatisfied == Honest => SatisfiedIsObserved
<1> SUFFICES ASSUME Honest PROVE SatisfiedIsObserved
  OBVIOUS
<1>1. ASSUME ResultsOnDisk, NEW x \in DOMAIN results.findings,
             results.findings[x].state = "satisfied"
      PROVE  Verdicts(JobOf(results), x) \cap {"satisfied", "not-applicable"} # {}
  <2> DEFINE job == JobOf(results)
  <2>1. job \in Job /\ results = ResultsFor(results.by, job)
    BY <1>1, OnDisk
  <2>2. x \in DeterminedControls(AllEvals(job))
    BY <1>1, <2>1, ResultsFields
  <2>3. FindingFor(results.by, job, x).state = "satisfied"
    BY <1>1, <2>1 DEF FindingFor
  <2> QED
    BY <2>1, <2>2, <2>3, FindingVerdict
<1>2. ASSUME Reported, NEW x \in DOMAIN report.rows, report.rows[x].status = "satisfied"
      PROVE  "satisfied" \in Verdicts(jobs[report.resultsBy], x)
  BY <1>2, Rendered, RowVerdict
<1>3. ASSUME Annexed, NEW x \in TemplateControls, annex.cells[x] = "Effective"
      PROVE  "satisfied" \in Verdicts(jobs[annex.resultsBy], x)
  <2> DEFINE b == jobs[annex.planBy].baseline
             rows == Build(Plan(annex.planBy, b),
                           ResultsFor(annex.resultsBy, jobs[annex.resultsBy]))
  <2>1. annex.cells = Populate(rows) /\ jobs[annex.resultsBy] \in Job
    BY <1>3, Rendered
  <2>2. x \in b /\ rows[x].status = "satisfied"
    BY <1>3, <2>1, CellsAre, RowsAre
  <2> QED
    BY <2>1, <2>2, RowVerdict
<1> QED
  BY <1>1, <1>2, <1>3 DEF SatisfiedIsObserved

\* Absence of evidence is never compliance: whatever reads satisfied, in the
\* results, in a report or in an annex, some evaluator found so in a bundle of
\* that invocation, or found that it does not apply.
THEOREM SatisfiedIsObservedAlways == Spec => []SatisfiedIsObserved
BY HonestAlways, HonestSatisfied, PTL

LEMMA HonestFailureShown == Honest => FailureIsNeverHidden
<1> SUFFICES ASSUME Honest PROVE FailureIsNeverHidden
  OBVIOUS
<1>1. ASSUME ResultsOnDisk, NEW x \in Controls, "not-satisfied" \in Verdicts(JobOf(results), x)
      PROVE  /\ x \in DOMAIN results.findings
             /\ results.findings[x].state = "not-satisfied"
             /\ results.findings[x].population.failing > 0
             /\ IsWhole(poam) /\ poam.by = results.by => x \in DOMAIN poam.items
  <2> DEFINE job == JobOf(results)
  <2>1. job \in Job /\ results = ResultsFor(results.by, job)
    BY <1>1, OnDisk
  <2>2. x \in DeterminedControls(AllEvals(job))
    BY <1>1, <2>1, DeterminedControlsAre DEF Determinate
  <2>3. x \in DOMAIN results.findings /\ results.findings[x] = FindingFor(results.by, job, x)
    BY <2>1, <2>2, ResultsFields DEF FindingFor
  <2>4. FindingFor(results.by, job, x).state = "not-satisfied"
    BY <1>1, <2>1, <2>2, FindingVerdict
  <2>5. FindingFor(results.by, job, x).population.failing > 0
    BY <1>1, <2>1, <2>2, FindingPopulation
  <2>6. ASSUME IsWhole(poam), poam.by = results.by PROVE x \in DOMAIN poam.items
    <3>1. JobOf(poam) = job /\ poam = Poam(poam.by, ResultsFor(poam.by, job))
      BY <2>6, OnDisk DEF JobOf
    <3> QED
      BY <1>1, <2>1, <3>1, PoamItems
  <2> QED
    BY <2>3, <2>4, <2>5, <2>6
<1>2. ASSUME Reported, NEW x \in DOMAIN report.rows,
             "not-satisfied" \in Verdicts(jobs[report.resultsBy], x)
      PROVE  report.rows[x].status = "not-satisfied"
  BY <1>2, Rendered, RowVerdict
<1>3. ASSUME Annexed, NEW x \in TemplateControls,
             "not-satisfied" \in Verdicts(jobs[annex.resultsBy], x),
             annex.cells[x] # Untouched
      PROVE  annex.cells[x] = "Ineffective"
  <2> DEFINE b == jobs[annex.planBy].baseline
             rows == Build(Plan(annex.planBy, b),
                           ResultsFor(annex.resultsBy, jobs[annex.resultsBy]))
  <2>1. annex.cells = Populate(rows) /\ jobs[annex.resultsBy] \in Job
    BY <1>3, Rendered
  <2>2. x \in b /\ x \in DOMAIN rows
    BY <1>3, <2>1, CellsAre, RowsAre
  <2>3. rows[x].status = "not-satisfied"
    BY <1>3, <2>1, <2>2, RowVerdict
  <2> QED
    BY <2>1, <2>2, <2>3, CellsAre
<1> QED
  BY <1>1, <1>2, <1>3 DEF FailureIsNeverHidden

\* What an evaluator failed on any subject is a failure in the results, an
\* item of the POA&M, and nothing better in any report or annex.
THEOREM FailureIsNeverHiddenAlways == Spec => []FailureIsNeverHidden
BY HonestAlways, HonestFailureShown, PTL

LEMMA HonestFailure == Honest => FailureIsObserved
<1> SUFFICES ASSUME Honest PROVE FailureIsObserved
  OBVIOUS
<1>1. ASSUME ResultsOnDisk, NEW x \in DOMAIN results.findings,
             results.findings[x].state = "not-satisfied"
      PROVE  "not-satisfied" \in Verdicts(JobOf(results), x)
  <2> DEFINE job == JobOf(results)
  <2>1. job \in Job /\ results = ResultsFor(results.by, job)
    BY <1>1, OnDisk
  <2>2. x \in DeterminedControls(AllEvals(job))
    BY <1>1, <2>1, ResultsFields
  <2>3. FindingFor(results.by, job, x).state = "not-satisfied"
    BY <1>1, <2>1 DEF FindingFor
  <2> QED
    BY <2>1, <2>2, <2>3, FindingVerdict
<1>2. ASSUME IsWhole(poam), NEW x \in DOMAIN poam.items
      PROVE  "not-satisfied" \in Verdicts(JobOf(poam), x)
  BY <1>2, OnDisk, PoamItems
<1> QED
  BY <1>1, <1>2 DEF FailureIsObserved

\* Only an observation fails a control or opens a POA&M item.
THEOREM FailureIsObservedAlways == Spec => []FailureIsObserved
BY HonestAlways, HonestFailure, PTL

LEMMA HonestConfidence == Honest => ConfidenceIsTheWeakest
<1> SUFFICES ASSUME Honest, ResultsOnDisk, NEW x \in DOMAIN results.findings,
                    NEW p \in LooksAt(JobOf(results), x),
                    Says(p[1], p[2]) \in {"satisfied", "not-satisfied"}
             PROVE  /\ Rank[results.findings[x].confidence] >= Rank[Ceiling[p[2]]]
                    /\ Rank[results.findings[x].confidence]
                         >= Rank[Judge(p[2], p[1].facts).confidence]
  BY DEF ConfidenceIsTheWeakest
<1> DEFINE job == JobOf(results)
<1>1. job \in Job /\ results = ResultsFor(results.by, job)
  BY OnDisk
<1>2. x \in DeterminedControls(AllEvals(job))
  BY <1>1, ResultsFields
<1>3. results.findings[x] = FindingFor(results.by, job, x)
  BY <1>1 DEF FindingFor
<1> QED
  BY <1>1, <1>2, <1>3, FindingConfidence

\* A finding claims no more confidence than the weakest verdict it rests on.
THEOREM ConfidenceIsTheWeakestAlways == Spec => []ConfidenceIsTheWeakest
BY HonestAlways, HonestConfidence, PTL

LEMMA HonestReasons == Honest => UndeterminedIsAccountedFor
<1> SUFFICES ASSUME Honest, ResultsOnDisk PROVE UndeterminedIsAccountedFor
  BY DEF UndeterminedIsAccountedFor
<1> DEFINE job == JobOf(results)
<1>1. job \in Job /\ results = ResultsFor(results.by, job)
  BY OnDisk
<1>2. /\ DOMAIN results.findings = DeterminedControls(AllEvals(job))
      /\ results.undetermined = UnassessedControls(job.baseline, AllEvals(job))
      /\ DOMAIN results.undetermined = job.baseline \ DeterminedControls(AllEvals(job))
  BY <1>1, ResultsFields
<1>3. ASSUME NEW x \in DOMAIN results.undetermined
      PROVE  ReasonHolds(job, x, results.undetermined[x])
  <2>1. x \notin DeterminedControls(AllEvals(job))
    BY <1>2
  <2>2. results.undetermined[x] = ReasonFor(AllEvals(job), x)
    BY <1>2 DEF UnassessedControls
  <2> QED
    BY <1>1, <2>1, <2>2, ReasonIsTrue
<1> HIDE DEF job
<1> QED
  BY <1>2, <1>3 DEF UndeterminedIsAccountedFor, job

\* What the assessment did not determine is listed, each control with a reason
\* that is true of the evidence.
THEOREM UndeterminedIsAccountedForAlways == Spec => []UndeterminedIsAccountedFor
BY HonestAlways, HonestReasons, PTL

LEMMA HonestReport == Honest => ReportTellsTheReason
<1> SUFFICES ASSUME Honest, Reported, report.planBy = report.resultsBy
             PROVE  ReportTellsTheReason
  BY DEF ReportTellsTheReason
<1> DEFINE job == jobs[report.resultsBy]
<1>1. /\ job \in Job
      /\ report.rows = Build(Plan(report.planBy, job.baseline),
                             ResultsFor(report.resultsBy, job))
      /\ DOMAIN report.rows = job.baseline
  BY Rendered
<1>2. ASSUME NEW x \in DOMAIN report.rows, report.rows[x].status = "undetermined"
      PROVE  ReasonHolds(job, x, report.rows[x].reason)
  <2>1. /\ x \notin DeterminedControls(AllEvals(job))
        /\ report.rows[x].reason = ReasonFor(AllEvals(job), x)
    BY <1>1, <1>2, RowVerdict
  <2> QED
    BY <1>1, <2>1, ReasonIsTrue
<1> QED
  BY <1>1, <1>2 DEF ReportTellsTheReason

\* A report of one invocation covers its baseline and tells of every control
\* without a verdict a reason that is true of the evidence.
THEOREM ReportTellsTheReasonAlways == Spec => []ReportTellsTheReason
BY HonestAlways, HonestReport, PTL

LEMMA HonestAnnex == Honest => AnnexKeepsOtherRows
<1> SUFFICES ASSUME Honest, Annexed, NEW x \in TemplateControls
             PROVE  annex.cells[x] # Untouched <=> x \in jobs[annex.planBy].baseline
  BY DEF AnnexKeepsOtherRows
<1> QED
  BY Rendered, CellsAre, RowsAre

\* An annex fills in the assessed baseline's rows and no others.
THEOREM AnnexKeepsOtherRowsAlways == Spec => []AnnexKeepsOtherRows
BY HonestAlways, HonestAnnex, PTL

LEMMA HonestPopulation == Honest => PopulationIsHonest
<1> SUFFICES ASSUME Honest, ResultsOnDisk PROVE PopulationIsHonest
  BY DEF PopulationIsHonest
<1> DEFINE job == JobOf(results)
<1>1. job \in Job /\ results = ResultsFor(results.by, job)
  BY OnDisk
<1>2. ASSUME NEW x \in DOMAIN results.findings
      PROVE  /\ x \in DeterminedControls(AllEvals(job))
             /\ results.findings[x] = FindingFor(results.by, job, x)
  BY <1>1, ResultsFields DEF FindingFor
<1> SUFFICES ASSUME NEW x \in DOMAIN results.findings
             PROVE  LET figures == results.findings[x].population
                        judged  == SubjectsWhere(job, x, Determinate)
                        failing == SubjectsWhere(job, x, {"not-satisfied"})
                        passing == SubjectsWhere(job, x, {"satisfied"})
                        all     == {b.subject : b \in Bundles(job)}
                    IN  /\ figures.assessed = Cardinality(judged)
                        /\ figures.failing = Cardinality(failing)
                        /\ figures.na = Cardinality(judged \ (failing \cup passing))
                        /\ figures.assessed <= figures.total
                        /\ /\ results.findings[x].basis = "subject"
                           /\ job.total >= Cardinality(all)
                           => /\ figures.total = job.total
                              /\ all # judged => results.findings[x].saysPartial
  BY DEF PopulationIsHonest
<1> DEFINE F == FindingFor(results.by, job, x)
<1>3. results.findings[x] = F /\ x \in DeterminedControls(AllEvals(job))
  BY <1>2
<1> DEFINE judged  == SubjectsWhere(job, x, Determinate)
           failing == SubjectsWhere(job, x, {"not-satisfied"})
           passing == SubjectsWhere(job, x, {"satisfied"})
           all     == {b.subject : b \in Bundles(job)}
<1> HIDE DEF job
<1>4. /\ F.population.assessed = Cardinality(judged)
      /\ F.population.failing = Cardinality(failing)
      /\ F.population.na = Cardinality(judged \ (failing \cup passing))
      /\ F.population.assessed <= F.population.total
      /\ F.basis = "subject" /\ job.total >= Cardinality(all) =>
           /\ F.population.total = job.total
           /\ all # judged => F.saysPartial
  BY <1>1, <1>3, FindingPopulation, ZenonT(40)
<1> HIDE DEF F, judged, failing, passing, all
<1>5. /\ F.population.assessed = Cardinality(judged)
      /\ F.population.failing = Cardinality(failing)
      /\ F.population.na = Cardinality(judged \ (failing \cup passing))
      /\ F.population.assessed <= F.population.total
  BY <1>4
<1>6. /\ F.basis = "subject"
      /\ job.total >= Cardinality(all)
      => /\ F.population.total = job.total
         /\ all # judged => F.saysPartial
  BY <1>4, Zenon
<1> QED
  BY <1>3, <1>5, <1>6, Zenon DEF judged, failing, passing, all

\* The population figures count subjects of the evidence, each once.
THEOREM PopulationIsHonestAlways == Spec => []PopulationIsHonest
BY HonestAlways, HonestPopulation, PTL

-----------------------------------------------------------------------------
(* Identifiers, and documents in time.                                     *)
(*                                                                         *)
(* Two bundles of one subject in one invocation would share observation    *)
(* identifiers.  evaluate.yml (41-45) finds its arguments in the directory *)
(* of a run, where finalise.yml (20-22) writes one file per inventory      *)
(* host; `cca evaluate` itself does not look.                              *)
OneBundlePerSubject ==
  \A files \in FileLists :
    \A i, j \in 1..Len(files) : files[i].subject = files[j].subject => i = j

LEMMA JobsHaveOneBundleEach ==
  ASSUME OneBundlePerSubject, NEW job \in Job
  PROVE  OneBundleEach(job)
BY DEF OneBundlePerSubject, OneBundleEach, Job

LEMMA HonestLinks ==
  ASSUME OneBundlePerSubject
  PROVE  Honest => LinksLead
<1> SUFFICES ASSUME Honest, ResultsOnDisk PROVE LinksLead
  BY DEF LinksLead
<1> DEFINE job == JobOf(results)
<1>1. job \in Job /\ results = ResultsFor(results.by, job) /\ OneBundleEach(job)
  BY OnDisk, JobsHaveOneBundleEach
<1>2. /\ results.id = ResultId(job.run)
      /\ results.observations = AllEvals(job)
      /\ DOMAIN results.findings = DeterminedControls(AllEvals(job))
  BY <1>1, ResultsFields
<1>3. ASSUME NEW x \in DOMAIN results.findings
      PROVE  results.findings[x] = FindingFor(results.by, job, x)
  BY <1>1 DEF FindingFor
<1> HIDE DEF job
<1>4. ASSUME NEW x \in DOMAIN results.findings
      PROVE  results.findings[x].id = FindingId(ResultId(job.run), x, job.baseline)
  BY <1>2, <1>3, FindingFields
<1>5. ASSUME NEW x \in DOMAIN results.findings
      PROVE  {e \in results.observations :
                ObservationId(results.id, e.check, e.subject) \in results.findings[x].related}
               = {e \in results.observations :
                    x \in Binds[e.check] /\ e.result.status \in Determinate}
  <2>1. x \in DeterminedControls(AllEvals(job))
    BY <1>2
  <2>2. results.findings[x].related = FindingFor(results.by, job, x).related
    BY <1>3
  <2> QED
    BY <1>1, <1>2, <2>1, <2>2, FindingCitesItsDeterminations
<1>6. ASSUME IsWhole(poam), NEW x \in DOMAIN poam.items
      PROVE  LET leads == FindingsNamed(poam.items[x].related)
             IN  IF poam.by = results.by
                 THEN leads = {x} /\ results.findings[x].state = "not-satisfied"
                 ELSE leads # {} => JobOf(poam).run = JobOf(results).run
  <2> DEFINE other == JobOf(poam)
             leads == FindingsNamed(poam.items[x].related)
  <2>1. other \in Job /\ poam = Poam(poam.by, ResultsFor(poam.by, other))
    BY <1>6, OnDisk
  <2>2. /\ x \in DeterminedControls(AllEvals(other))
        /\ "not-satisfied" \in Verdicts(other, x)
        /\ poam.items[x].related = FindingFor(poam.by, other, x).id
    BY <1>6, <2>1, PoamItems
  <2>3. poam.items[x].related = FindingId(ResultId(other.run), x, other.baseline)
    BY <2>2, FindingFields
  <2>4. ASSUME NEW y \in leads PROVE y = x /\ job.run = other.run
    <3>1. y \in DOMAIN results.findings /\ results.findings[y].id = poam.items[x].related
      BY DEF FindingsNamed
    <3>2. FindingId(ResultId(job.run), y, job.baseline)
            = FindingId(ResultId(other.run), x, other.baseline)
      BY <3>1, <1>4, <2>3
    <3> QED
      BY <3>2 DEF FindingId, ResultId
  <2>5. CASE poam.by = results.by
    <3>1. other = job
      BY <2>5 DEF job, JobOf
    <3>2. x \in DOMAIN results.findings
      BY <1>2, <2>2, <3>1
    <3>3. x \in leads
      BY <1>4, <2>3, <3>1, <3>2 DEF FindingsNamed
    <3>4. results.findings[x].state = "not-satisfied"
      BY <1>1, <1>2, <1>3, <2>2, <3>1, <3>2, FindingVerdict
    <3> QED
      BY <2>4, <2>5, <3>3, <3>4
  <2>6. CASE poam.by # results.by
    BY <2>4, <2>6 DEF job
  <2> QED
    BY <2>5, <2>6
<1> QED
  BY <1>5, <1>6 DEF LinksLead

\* A finding's links lead to its determinations, and a POA&M item's to the
\* failure it stands for or nowhere, whichever invocations wrote the two.
THEOREM LinksLeadAlways ==
  ASSUME OneBundlePerSubject
  PROVE  Spec => []LinksLead
<1>1. Honest => LinksLead
  BY HonestLinks
<1> QED
  BY HonestAlways, <1>1, PTL

LEMMA SameEvidenceStep ==
  ASSUME OneBundlePerSubject, Honest, [Next]_vars,
         IsWhole(results), IsWhole(results'), results' # results,
         SameEvidence(results.by, results'.by), results'.run = results.run
  PROVE  results'.findings = results.findings
<1>1. results.by \in 1..Len(jobs) /\ results = ResultsOf(results.by)
  BY OnDisk DEF ResultsOnDisk, ResultsOf, JobOf
<1>2. results'.by = Len(jobs) /\ results' = ResultsOf(Len(jobs))
  <2>1. results' = ResultsOf(Len(jobs))
    BY DocumentsAreWritten DEF IsWhole, Torn
  <2> QED
    BY <2>1, OfPlaces
<1> DEFINE old == jobs[results.by]
           new == jobs[Len(jobs)]
<1>3. old \in Job /\ new \in Job
  BY <1>1, OnDisk
<1>4. /\ results = ResultsFor(results.by, old)
      /\ results' = ResultsFor(Len(jobs), new)
  BY <1>1, <1>2 DEF ResultsOf
<1>5. /\ Bundles(old) = Bundles(new)
      /\ old.baseline = new.baseline
      /\ old.total = new.total
  BY <1>2 DEF SameEvidence
<1>6. old.run = new.run
  BY <1>4, ResultsFields
<1>7. OneBundleEach(old) /\ OneBundleEach(new)
  BY <1>3, JobsHaveOneBundleEach
<1> HIDE DEF old, new
<1> QED
  BY <1>3, <1>4, <1>5, <1>6, <1>7, SameFindings

\* The same bundles, in whatever order they come, give the same findings.
THEOREM SameEvidenceAlways ==
  ASSUME OneBundlePerSubject
  PROVE  Spec => SameEvidenceSameFindings
<1>1. Honest /\ [Next]_vars =>
        [(IsWhole(results) /\ IsWhole(results') /\ results' # results) =>
           (SameEvidence(results.by, results'.by) /\ results'.run = results.run
              => results'.findings = results.findings)]_vars
  BY SameEvidenceStep
<1> QED
  BY HonestAlways, <1>1, PTL DEF Spec, SameEvidenceSameFindings

\* A check's controls lie in a baseline together or not at all.  Every check of
\* the registry binds one control; its schema would allow more, and with more
\* the evaluation of a check on account of one control would leave a finding
\* for another that the baseline does not have (emit.py 467-479) and that no
\* later results would list as undetermined.
BindingsKeepToBaselines ==
  \A c \in Checks, B \in Baselines : Binds[c] \cap B = {} \/ Binds[c] \subseteq B

LEMMA ItemsAreOfTheBaseline ==
  ASSUME BindingsKeepToBaselines, NEW job \in Job, NEW x, "not-satisfied" \in Verdicts(job, x)
  PROVE  x \in job.baseline
<1>1. PICK p \in LooksAt(job, x) : Says(p[1], p[2]) = "not-satisfied"
  BY DEF Verdicts
<1>2. p[2] \in Checks /\ Binds[p[2]] \cap job.baseline # {} /\ x \in Binds[p[2]]
  BY <1>1 DEF LooksAt, Looks
<1>3. job.baseline \in Baselines
  BY DEF Job
<1> QED
  BY <1>2, <1>3 DEF BindingsKeepToBaselines

LEMMA ItemsStep ==
  ASSUME BindingsKeepToBaselines, Honest, [Next]_vars,
         IsWhole(poam), IsWhole(poam'), poam' # poam,
         JobOf(poam).baseline = jobs'[poam'.by].baseline,
         NEW x \in DOMAIN poam.items
  PROVE  IF x \in DOMAIN poam'.items
         THEN poam'.items[x].id = poam.items[x].id
         ELSE /\ results'.by = poam'.by
              /\ \/ x \in DOMAIN results'.findings /\ results'.findings[x].state = "satisfied"
                 \/ x \in DOMAIN results'.undetermined
<1> DEFINE old == JobOf(poam)
           new == jobs[Len(jobs)]
<1>1. WritePoam /\ poam' = PoamOf(Len(jobs))
  BY DocumentsAreWritten DEF IsWhole, Torn
<1>2. poam'.by = Len(jobs) /\ jobs' = jobs /\ results' = results
  BY <1>1, OfPlaces DEF WritePoam
<1>3. results.by = Len(jobs) /\ ResultsOnDisk
  <2>1. pc = "writing-poam"
    BY <1>1 DEF WritePoam
  <2>2. Len(jobs) > 0 /\ results.by = Len(jobs)
    BY <2>1 DEF Honest, TypeOK, EvaluationProgress
  <2> QED
    BY <2>2 DEF ResultsOnDisk, IsWhole
<1>4. /\ new \in Job /\ results = ResultsFor(Len(jobs), new)
      /\ poam' = Poam(Len(jobs), ResultsFor(Len(jobs), new))
  BY <1>1, <1>3, OnDisk DEF JobOf, PoamOf, ResultsOf
<1>5. old \in Job /\ poam = Poam(poam.by, ResultsFor(poam.by, old))
  BY OnDisk
<1>6. old.baseline = new.baseline
  BY <1>2
<1>7. "not-satisfied" \in Verdicts(old, x) /\ poam.items[x].id = PoamItemId(old.run, x, old.baseline)
  BY <1>5, PoamItems
<1>8. x \in new.baseline
  BY <1>5, <1>6, <1>7, ItemsAreOfTheBaseline
<1> HIDE DEF old, new
<1>9. CASE x \in DOMAIN poam'.items
  <2>1. poam'.items[x].id = PoamItemId(new.run, x, new.baseline)
    BY <1>4, <1>9, PoamItems
  <2> QED
    BY <1>6, <1>7, <1>9, <2>1 DEF PoamItemId
<1>10. CASE x \notin DOMAIN poam'.items
  <2>1. "not-satisfied" \notin Verdicts(new, x)
    BY <1>4, <1>10, PoamItems
  <2>2. /\ DOMAIN results.findings = DeterminedControls(AllEvals(new))
        /\ DOMAIN results.undetermined = new.baseline \ DeterminedControls(AllEvals(new))
    BY <1>4, ResultsFields
  <2>3. CASE x \in DeterminedControls(AllEvals(new))
    <3>1. results.findings[x] = FindingFor(Len(jobs), new, x)
      BY <1>4 DEF FindingFor
    <3>2. results.findings[x].state = "satisfied"
      BY <1>4, <2>1, <2>3, <3>1, FindingVerdict
    <3> QED
      BY <1>2, <1>3, <1>10, <2>2, <2>3, <3>2
  <2>4. CASE x \notin DeterminedControls(AllEvals(new))
    BY <1>2, <1>3, <1>8, <1>10, <2>2, <2>4
  <2> QED
    BY <2>3, <2>4
<1> QED
  BY <1>9, <1>10

\* An open item keeps its identity from one POA&M to the next, and one that is
\* gone is satisfied or listed as undetermined in the results beside it.
THEOREM ItemsAreFollowedUpAlways ==
  ASSUME BindingsKeepToBaselines
  PROVE  Spec => ItemsAreFollowedUp
<1>1. Honest /\ [Next]_vars =>
        [IsWhole(poam) /\ IsWhole(poam') /\ poam' # poam
           /\ JobOf(poam).baseline = jobs'[poam'.by].baseline =>
         \A x \in DOMAIN poam.items :
           IF x \in DOMAIN poam'.items
           THEN poam'.items[x].id = poam.items[x].id
           ELSE /\ results'.by = poam'.by
                /\ \/ x \in DOMAIN results'.findings /\ results'.findings[x].state = "satisfied"
                   \/ x \in DOMAIN results'.undetermined]_vars
  BY ItemsStep, Zenon
<1> QED
  BY HonestAlways, <1>1, PTL DEF Spec, ItemsAreFollowedUp

=============================================================================
