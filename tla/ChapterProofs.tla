---------------------------- MODULE ChapterProofs ----------------------------
(***************************************************************************)
(* Proofs about ChapterRun and LockedChapter: what a run records as        *)
(* judged, publishes or rejects was judged as it is recorded, what it      *)
(* keeps of a failed repair loop is the best it has seen, and what a reset *)
(* of the chapter forgets never comes back.                                *)
(*                                                                         *)
(* The workflow's order carries the first: a text is only replaced while   *)
(* its validation is still to come (Planned), or in a repair, which is     *)
(* followed by its own (Judged).  The second rests on the history: all of  *)
(* its verdicts before the last one block, none scores better than the     *)
(* best, and none has fewer problems than the last while that one blocks.  *)
(* The third rests on the order of runs and markers (Ordered), on what a   *)
(* reset forgets (Forgetting) and on everything later naming later calls   *)
(* only (Afresh).                                                          *)
(***************************************************************************)
EXTENDS ChapterRun, LockedChapter, FiniteSetTheorems, SequenceTheorems, WellFoundedInduction, TLAPS

Pending(a) == \E i \in DOMAIN plan : plan[i] = a
Working == {"workflow", "repair", "revalidate"}
Over == {"review", "finish"}

\* What is left of the workflow still has its order, and a validation to come for a text to come.
Planned ==
  /\ \A i, j \in DOMAIN plan : plan[i] = plan[j] => i = j
  /\ \A a \in {"polish"} \cup Late : text = None => Before(plan, "generate_chapter", a)
  /\ Pending("validate") =>
       \A a \in {"repair_if_needed", "commit_snapshot"} : Before(plan, "validate", a)
  /\ After(plan, {"validate"}, {"generate_chapter", "polish"})
  /\ Pending("generate_chapter") \/ Pending("polish") => Pending("validate")

\* What is judged and with what, from the workflow's start to the record.
JudgedOK ==
  /\ pc = "idle" => attempts = 0 /\ history = <<>>
  /\ pc = "workflow" /\ Pending("validate") => history = <<>>
  /\ pc \in Working /\ ~Pending("validate") => history # <<>>
  /\ pc = "workflow" /\ ~Pending("validate") => validation.of = text
  /\ pc \in {"repair", "revalidate"} => ~Pending("validate")
  /\ pc \in Over => validation.of = text /\ (review = NoReview \/ review.of = text)
  /\ pc \in {"idle"} \cup Working => review = NoReview

\* A text is there as soon as something has to be done with it.
TextThere ==
  /\ text = None => pc \in {"idle", "workflow", "done"}
  /\ pc = "workflow" /\ text = None => Pending("generate_chapter")
  /\ best.of <= fresh

\* The verdicts of the run against its best and its last.
Kept ==
  /\ best = NoVerdict <=> history = <<>>
  /\ best # NoVerdict => best \in Verdict
  /\ \A i \in DOMAIN history : ~Better(history[i].problems, best.problems)

Shrinking ==
  /\ pc \in Working /\ ~Pending("validate") => validation = history[Len(history)]
  /\ pc \in {"repair", "revalidate"} => ~Ok(validation.problems)
  /\ pc \in Working /\ ~Pending("validate") /\ ~Ok(validation.problems) =>
       \A i \in DOMAIN history :
         Cardinality(validation.problems) <= Cardinality(history[i].problems)

RecordOK == pc # "done" => record = NoRecord

IInv == TypeOK /\ Planned /\ JudgedOK /\ TextThere /\ Kept /\ Shrinking /\ RecordOK
          /\ PublishedAsJudged /\ BestTextKept

-----------------------------------------------------------------------------
(* Verdicts and their scores.                                              *)

LEMMA Countable ==
  ASSUME NEW found \in SUBSET Found, NEW P(_)
  PROVE  Cardinality({p \in found : P(p)}) \in Nat /\ Cardinality(found) \in Nat
<1>1. IsFiniteSet(Found)
  BY ConfigAssumption, FS_AddElement DEF Found
<1>2. IsFiniteSet(found) /\ IsFiniteSet({p \in found : P(p)})
  BY <1>1, FS_Subset
<1> QED BY <1>2, FS_CardinalityType

LEMMA Scored ==
  ASSUME NEW found \in SUBSET Found
  PROVE  \A i \in 1..6 : Score(found)[i] \in Nat
<1>1. \A s \in {2, 3, 4} : CountOf(found, s) \in Nat
  BY Countable DEF CountOf
<1>2. Cardinality({p \in found : Blocks(p)}) \in Nat /\ Cardinality(found) \in Nat
  BY Countable
<1>3. \A i \in 1..6 : i = 1 \/ i = 2 \/ i = 3 \/ i = 4 \/ i = 5 \/ i = 6
  OBVIOUS
<1> QED BY <1>1, <1>2, <1>3 DEF Score

(* Scores are ordered lexicographically, so strictly and transitively.     *)
LEMMA BetterIsOrder ==
  ASSUME NEW f \in SUBSET Found, NEW g \in SUBSET Found, NEW h \in SUBSET Found
  PROVE  /\ ~Better(f, f)
         /\ Better(f, g) /\ Better(g, h) => Better(f, h)
<1>1. \A i \in 1..6 : Score(f)[i] \in Nat /\ Score(g)[i] \in Nat /\ Score(h)[i] \in Nat
  BY Scored
<1>2. ~Better(f, f)
  BY <1>1 DEF Better
<1>3. ASSUME Better(f, g), Better(g, h) PROVE Better(f, h)
  <2>1. PICK i \in 1..6 : /\ Score(f)[i] < Score(g)[i]
                          /\ \A j \in 1..i - 1 : Score(f)[j] = Score(g)[j]
    BY <1>3 DEF Better
  <2>2. PICK k \in 1..6 : /\ Score(g)[k] < Score(h)[k]
                          /\ \A j \in 1..k - 1 : Score(g)[j] = Score(h)[j]
    BY <1>3 DEF Better
  <2>3. PICK m \in 1..6 : m <= i /\ m <= k /\ (m = i \/ m = k)
    BY <2>1, <2>2
  <2>4. \A j \in 1..m - 1 : j \in 1..i - 1 /\ j \in 1..k - 1
    BY <2>3
  <2>5. \A j \in 1..m - 1 : Score(f)[j] = Score(h)[j]
    BY <2>1, <2>2, <2>4
  <2>6. Score(f)[m] <= Score(g)[m] /\ Score(g)[m] <= Score(h)[m]
    BY <1>1, <2>1, <2>2, <2>3
  <2>7. Score(f)[m] < Score(h)[m]
    BY <1>1, <2>1, <2>2, <2>3, <2>6
  <2> QED BY <2>5, <2>7 DEF Better
<1> QED BY <1>2, <1>3

(* What recording a verdict does to the history and to the best.           *)
LEMMA RecordedKeeps ==
  ASSUME TypeOK, Kept, NEW v \in Verdict, Recorded(v)
  PROVE  /\ history' \in Seq(Verdict) /\ history' # <<>>
         /\ history'[Len(history')] = v
         /\ history' = history \/ history' = Append(history, v)
         /\ best' \in Verdict /\ best' \in {v, best}
         /\ Kept'
<1>1. history \in Seq(Verdict) /\ v.problems \in SUBSET Found
  BY DEF TypeOK, Verdict
<1>2. \A w \in Verdict : w # NoVerdict
  BY DEF Verdict, NoVerdict, None
<1>3. CASE history # <<>> /\ history[Len(history)] = v
  BY <1>1, <1>2, <1>3 DEF Recorded, Kept
<1>4. CASE ~(history # <<>> /\ history[Len(history)] = v)
  <2>1. history' = Append(history, v)
    BY <1>4 DEF Recorded
  <2>2. /\ history' \in Seq(Verdict) /\ Len(history') = Len(history) + 1 /\ history' # <<>>
        /\ history'[Len(history')] = v /\ DOMAIN history' = 1..Len(history) + 1
        /\ \A i \in DOMAIN history : history'[i] = history[i]
        /\ \A i \in DOMAIN history' : i \in DOMAIN history \/ history'[i] = v
    BY <1>1, <2>1
  <2>3. CASE best = NoVerdict
    <3>1. best' = v /\ history = <<>>
      BY <1>4, <2>3 DEF Recorded, Kept
    <3>2. \A i \in DOMAIN history' : history'[i] = v
      BY <2>2, <3>1
    <3>3. \A i \in DOMAIN history' : ~Better(history'[i].problems, best'.problems)
      BY <1>1, <3>1, <3>2, BetterIsOrder
    <3> QED BY <1>2, <2>1, <2>2, <3>1, <3>3 DEF Kept
  <2>4. CASE best # NoVerdict /\ Better(v.problems, best.problems)
    <3>1. best' = v /\ best.problems \in SUBSET Found
      BY <1>4, <2>4 DEF Recorded, Kept, Verdict
    <3>2. \A i \in DOMAIN history : history[i].problems \in SUBSET Found
      <4>1. \A i \in DOMAIN history : history[i] \in Verdict
        BY <1>1
      <4>2. \A w \in Verdict : w.problems \in SUBSET Found
        BY DEF Verdict
      <4> QED BY <4>1, <4>2
    <3>3. \A i \in DOMAIN history : ~Better(history[i].problems, v.problems)
      BY <1>1, <2>4, <3>1, <3>2, BetterIsOrder DEF Kept
    <3>4. \A i \in DOMAIN history' : ~Better(history'[i].problems, best'.problems)
      BY <1>1, <2>2, <3>1, <3>3, BetterIsOrder
    <3> QED BY <1>2, <2>1, <2>2, <3>1, <3>4 DEF Kept
  <2>5. CASE best # NoVerdict /\ ~Better(v.problems, best.problems)
    <3>1. best' = best
      BY <1>4, <2>5 DEF Recorded
    <3>2. \A i \in DOMAIN history' : ~Better(history'[i].problems, best'.problems)
      BY <2>2, <2>5, <3>1 DEF Kept
    <3> QED BY <2>1, <2>2, <2>5, <3>1, <3>2 DEF Kept
  <2> QED BY <2>3, <2>4, <2>5
<1> QED BY <1>3, <1>4

(* A verdict is about the text it is asked for.                            *)
LEMMA VerdictOfText ==
  ASSUME TypeOK, text # None, NEW stages, NEW v \in Verdicts(stages)
  PROVE  v \in Verdict /\ v.of = text
<1>1. text \in 1..MaxTexts
  BY ConfigAssumption DEF TypeOK, None
<1>2. PICK found \in SUBSET Problems :
        v = [of |-> text, problems |-> Merged(found, {r \in reports : r.stage \in stages /\ r.of = text})]
  BY DEF Verdicts
<1>3. \A last : Merged(found, last) \in SUBSET Found
  BY DEF Merged, Found
<1> QED BY <1>1, <1>2, <1>3 DEF Verdict

LEMMA JudgedKeeps ==
  ASSUME TypeOK, Kept, text # None, NEW stages, Judged(stages)
  PROVE  /\ validation' \in Verdict /\ validation'.of = text
         /\ history' \in Seq(Verdict) /\ history' # <<>>
         /\ history'[Len(history')] = validation'
         /\ history' = history \/ history' = Append(history, validation')
         /\ best' \in Verdict /\ best' \in {validation', best}
         /\ Kept'
<1>1. PICK v \in Verdicts(stages) : validation' = v /\ Recorded(v)
  BY DEF Judged
<1>2. v \in Verdict /\ v.of = text
  BY VerdictOfText
<1> QED BY <1>1, <1>2, RecordedKeeps

-----------------------------------------------------------------------------
(* Texts, reports and the plan.                                            *)

LEMMA AnswerType ==
  ASSUME TypeOK, NEW t \in 1..MaxTexts, Answer(t)
  PROVE  fresh' \in 0..MaxTexts /\ fresh <= fresh' /\ t <= fresh' /\ t # None /\ t \in 0..fresh'
BY ConfigAssumption DEF TypeOK, Answer, None

LEMMA ReportedType ==
  ASSUME TypeOK, NEW t \in 1..MaxTexts, NEW b \in BOOLEAN,
         NEW stage \in {"merge", "polish", "repair"}, Reported(stage, t, b)
  PROVE  reports' \subseteq Reports
<1>1. [stage |-> stage, of |-> t, blocking |-> b] \in Reports
  BY DEF Reports
<1> QED BY <1>1 DEF TypeOK, Reported

LEMMA PlanStays ==
  ASSUME Planned, plan' = plan, text' = None => text = None
  PROVE  Planned' /\ \A a \in Actions : Pending(a)' <=> Pending(a)
BY DEF Planned, Pending, Before, After, Actions

(* Taking an action off the plan keeps its order.                          *)
LEMMA PlanPopped ==
  ASSUME TypeOK, Planned, plan # <<>>, Done1,
         text' = None => text = None /\ plan[1] # "generate_chapter"
  PROVE  /\ plan' \in Seq(Actions)
         /\ \A a \in Actions : Pending(a)' <=> Pending(a) /\ a # plan[1]
         /\ Planned'
<1>1. plan \in Seq(Actions) /\ plan' = Tail(plan) /\ Len(plan) \in Nat /\ Len(plan) > 0
  BY DEF TypeOK, Done1
<1>2. /\ plan' \in Seq(Actions) /\ DOMAIN plan = 1..Len(plan) /\ DOMAIN plan' = 1..Len(plan) - 1
      /\ \A i \in DOMAIN plan' : plan'[i] = plan[i + 1]
  BY <1>1
<1>3. \A i \in DOMAIN plan' : i + 1 \in DOMAIN plan /\ i + 1 # 1
  BY <1>1, <1>2
<1>4. \A i \in DOMAIN plan : i = 1 \/ (i - 1 \in DOMAIN plan' /\ plan'[i - 1] = plan[i])
  BY <1>1, <1>2
<1>5. 1 \in DOMAIN plan
  BY <1>1, <1>2
<1>6. \A i, j \in DOMAIN plan : plan[i] = plan[j] => i = j
  BY DEF Planned
<1>7. ASSUME NEW a \in Actions PROVE Pending(a)' <=> Pending(a) /\ a # plan[1]
  <2>1. ASSUME Pending(a)' PROVE Pending(a) /\ a # plan[1]
    <3>1. PICK i \in DOMAIN plan' : plan'[i] = a
      BY <2>1 DEF Pending
    <3>2. plan[i + 1] = a /\ i + 1 \in DOMAIN plan /\ i + 1 # 1
      BY <1>2, <1>3, <3>1
    <3> QED BY <1>5, <1>6, <3>2 DEF Pending
  <2>2. ASSUME Pending(a), a # plan[1] PROVE Pending(a)'
    BY <1>4, <2>2 DEF Pending
  <2> QED BY <2>1, <2>2
<1>8. ASSUME NEW a, NEW b, Before(plan, a, b), plan[1] # a
      PROVE  Before(plan', a, b)
  <2> SUFFICES ASSUME NEW i \in DOMAIN plan', plan'[i] = b
               PROVE  \E j \in 1..i - 1 : plan'[j] = a
    BY DEF Before
  <2>1. PICK j \in 1..i + 1 - 1 : plan[j] = a
    BY <1>2, <1>3, <1>8 DEF Before
  <2>2. j # 1 /\ j - 1 \in 1..i - 1 /\ j \in DOMAIN plan
    BY <1>2, <1>8, <2>1
  <2> QED BY <1>4, <2>1, <2>2
<1>9. \A i, j \in DOMAIN plan' : plan'[i] = plan'[j] => i = j
  <2> TAKE i, j \in DOMAIN plan'
  <2>1. plan'[i] = plan[i + 1] /\ plan'[j] = plan[j + 1]
    BY <1>2
  <2>2. plan[i + 1] = plan[j + 1] => i + 1 = j + 1
    BY <1>3, <1>6
  <2> QED BY <1>2, <2>1, <2>2
<1>10. After(plan', {"validate"}, {"generate_chapter", "polish"})
  <2> SUFFICES ASSUME NEW i \in DOMAIN plan', NEW j \in DOMAIN plan',
                      plan'[i] \in {"generate_chapter", "polish"}, plan'[j] \in {"validate"}
               PROVE  i < j
    BY DEF After
  <2>1. i + 1 \in DOMAIN plan /\ j + 1 \in DOMAIN plan /\ plan'[i] = plan[i + 1] /\ plan'[j] = plan[j + 1]
    BY <1>2, <1>3
  <2>2. i + 1 < j + 1
    BY <2>1 DEF Planned, After
  <2> QED BY <1>2, <2>2
<1>11. ASSUME NEW a \in {"generate_chapter", "polish"}, Pending(a)' PROVE Pending("validate")'
  <2>1. PICK i \in DOMAIN plan' : plan'[i] = a
    BY <1>11 DEF Pending
  <2>2. i + 1 \in DOMAIN plan /\ plan[i + 1] = a
    BY <1>2, <1>3, <2>1
  <2>3. Pending("validate")
    BY <2>2 DEF Pending, Planned
  <2>4. plan[1] # "validate"
    BY <1>2, <1>5, <2>2 DEF Planned, After
  <2> QED BY <1>7, <2>3, <2>4 DEF Actions
<1>12. text' = None => \A a \in {"polish"} \cup Late : Before(plan', "generate_chapter", a)
  BY <1>8 DEF Planned
<1>13. Pending("validate")' =>
         \A a \in {"repair_if_needed", "commit_snapshot"} : Before(plan', "validate", a)
  BY <1>7, <1>8 DEF Planned, Actions
<1>14. Planned'
  BY <1>9, <1>10, <1>11, <1>12, <1>13 DEF Planned
<1> QED BY <1>2, <1>7, <1>14

-----------------------------------------------------------------------------
(* Records.                                                                *)

LEMMA NothingRecorded ==
  ASSUME record' = NoRecord
  PROVE  PublishedAsJudged' /\ BestTextKept'
BY DEF PublishedAsJudged, JudgedTogether, NoForgottenFinding, PublishedPassesGate, BestTextKept,
       NoRecord, Judgeable, Publishable

LEMMA FailedRecord ==
  ASSUME NEW reason, NEW t, NEW v, Failed(reason, t, v)
  PROVE  /\ pc' = "done" /\ PublishedAsJudged'
         /\ reason # "not_converging" => BestTextKept'
<1>1. /\ pc' = "done" /\ record'.status \in {"failed", "none"}
      /\ record'.reason = reason
  BY DEF Failed, Leave, NoRecord
<1>2. PublishedAsJudged'
  BY <1>1 DEF PublishedAsJudged, JudgedTogether, NoForgottenFinding, PublishedPassesGate,
              Judgeable, Publishable
<1> QED BY <1>1, <1>2 DEF BestTextKept

-----------------------------------------------------------------------------
(* The steps.                                                              *)

(* A step that only fails leaves everything but the record as it was.      *)
LEMMA FailsKeeps ==
  ASSUME IInv, NEW reason, NEW v, NEW t, reason # "not_converging", Failed(reason, t, v),
         UNCHANGED <<config, plan, budget, fresh, text, validation, attempts, reviews,
                     history, best, reports, review>>
  PROVE  IInv'
<1>1. pc' = "done" /\ PublishedAsJudged' /\ BestTextKept'
  BY FailedRecord
<1>2. TypeOK'
  BY <1>1 DEF IInv, TypeOK
<1>3. Planned'
  BY PlanStays DEF IInv
<1>4. JudgedOK' /\ TextThere' /\ Shrinking' /\ RecordOK'
  BY <1>1 DEF IInv, JudgedOK, TextThere, Shrinking, RecordOK, Working, Over
<1>5. Kept'
  BY DEF IInv, Kept
<1> QED BY <1>1, <1>2, <1>3, <1>4, <1>5 DEF IInv

(* A step that goes on records nothing.                                    *)
LEMMA GoesOn ==
  ASSUME IInv, pc # "done", pc' # "done", record' = record
  PROVE  RecordOK' /\ PublishedAsJudged' /\ BestTextKept'
BY NothingRecorded DEF IInv, RecordOK

(* An accepted workflow has its texts before their validations.            *)
LEMMA DirectKeeps == IInv /\ Direct => IInv'
<1> SUFFICES ASSUME IInv, Direct PROVE IInv'
  OBVIOUS
<1>1. PICK w \in Workflows, b \in 0..MaxRepairs : ValidWorkflow(w) /\ plan' = w /\ budget' = b
  BY DEF Direct
<1>2. /\ pc = "idle" /\ pc' = "workflow"
      /\ UNCHANGED <<config, fresh, text, validation, attempts, reviews, history, best,
                     reports, review, record>>
  BY DEF Direct
<1>3. w \in Seq(Actions)
  BY <1>1, ConfigAssumption DEF ValidWorkflow
<1>4. TypeOK'
  BY <1>1, <1>2, <1>3 DEF IInv, TypeOK, JudgedOK
<1>5. Planned'
  BY <1>1 DEF ValidWorkflow, Planned, Before, After, Pending, Early
<1>6. Pending("validate")' /\ Pending("generate_chapter")'
  BY <1>1 DEF ValidWorkflow, Pending
<1>8. JudgedOK' /\ TextThere' /\ Kept' /\ Shrinking'
  BY <1>2, <1>6 DEF IInv, JudgedOK, TextThere, Kept, Shrinking, Working, Over
<1>9. RecordOK' /\ PublishedAsJudged' /\ BestTextKept'
  BY <1>2, GoesOn
<1> QED BY <1>4, <1>5, <1>8, <1>9 DEF IInv

(* The new text comes with its validation still on the plan.               *)
LEMMA TextReplaced ==
  ASSUME IInv, NEW a \in {"generate_chapter", "polish"}, Next1(a), Done1,
         NEW stage \in {"merge", "polish"}, NEW t \in 1..MaxTexts, NEW b \in BOOLEAN,
         Answer(t), text' = t, Reported(stage, t, b), validation' = NoVerdict,
         UNCHANGED <<pc, config, budget, attempts, reviews, history, best, review, record>>
  PROVE  IInv'
<1>1. TypeOK /\ pc = "workflow" /\ plan # <<>> /\ plan[1] = a /\ Pending(a)
  <2>1. 1 \in DOMAIN plan
    BY DEF IInv, TypeOK, Next1
  <2> QED BY <2>1 DEF IInv, Next1, Pending
<1>2. fresh' \in 0..MaxTexts /\ fresh <= fresh' /\ t # None /\ t \in 0..fresh'
  BY <1>1, AnswerType
<1>3. reports' \subseteq Reports
  BY <1>1, ReportedType
<1>4. /\ plan' \in Seq(Actions) /\ Planned'
      /\ \A x \in Actions : Pending(x)' <=> Pending(x) /\ x # plan[1]
  BY <1>1, <1>2, PlanPopped DEF IInv
<1>5. Pending("validate") /\ Pending("validate")'
  BY <1>1, <1>4 DEF IInv, Planned, Actions
<1>6. TypeOK'
  BY <1>1, <1>2, <1>3, <1>4 DEF TypeOK
<1>7. best.of <= fresh'
  BY <1>1, <1>2, ConfigAssumption DEF IInv, TextThere, TypeOK, Verdict, NoVerdict, None
<1>8. JudgedOK' /\ TextThere' /\ Kept' /\ Shrinking'
  BY <1>1, <1>2, <1>5, <1>7 DEF IInv, JudgedOK, TextThere, Kept, Shrinking, Working, Over
<1>9. RecordOK' /\ PublishedAsJudged' /\ BestTextKept'
  BY <1>1, GoesOn
<1> QED BY <1>4, <1>6, <1>8, <1>9 DEF IInv

LEMMA GenerateKeeps == IInv /\ Generate => IInv'
<1> SUFFICES ASSUME IInv, Generate PROVE IInv'
  OBVIOUS
<1>1. PICK t \in 1..MaxTexts, b \in BOOLEAN : Answer(t) /\ text' = t /\ Reported("merge", t, b)
  BY DEF Generate
<1> QED BY <1>1, TextReplaced DEF Generate

LEMMA PolishKeeps == IInv /\ Polish => IInv'
<1> SUFFICES ASSUME IInv, Polish PROVE IInv'
  OBVIOUS
<1>1. PICK t \in 1..MaxTexts, b \in BOOLEAN : Answer(t) /\ text' = t /\ Reported("polish", t, b)
  BY DEF Polish
<1> QED BY <1>1, TextReplaced DEF Polish

(* A draft that is kept has its validation to come like a new one.         *)
LEMMA DraftKeptKeeps == IInv /\ DraftKept => IInv'
<1> SUFFICES ASSUME IInv, DraftKept PROVE IInv'
  OBVIOUS
<1>1. /\ Next1("generate_chapter") /\ Done1 /\ text # None /\ validation' = NoVerdict
      /\ UNCHANGED <<pc, config, budget, fresh, text, attempts, reviews, history, best,
                     reports, review, record>>
  BY DEF DraftKept
<1>2. TypeOK /\ pc = "workflow" /\ plan # <<>> /\ plan[1] = "generate_chapter" /\ Pending("generate_chapter")
  <2>1. 1 \in DOMAIN plan
    BY <1>1 DEF IInv, TypeOK, Next1
  <2> QED BY <1>1, <2>1 DEF IInv, Next1, Pending
<1>3. /\ plan' \in Seq(Actions) /\ Planned'
      /\ \A x \in Actions : Pending(x)' <=> Pending(x) /\ x # plan[1]
  BY <1>1, <1>2, PlanPopped DEF IInv
<1>4. Pending("validate") /\ Pending("validate")'
  BY <1>2, <1>3 DEF IInv, Planned, Actions
<1>5. TypeOK'
  BY <1>1, <1>2, <1>3 DEF TypeOK
<1>6. JudgedOK' /\ TextThere' /\ Kept' /\ Shrinking'
  BY <1>1, <1>2, <1>4 DEF IInv, JudgedOK, TextThere, Kept, Shrinking, Working, Over
<1>7. RecordOK' /\ PublishedAsJudged' /\ BestTextKept'
  BY <1>1, <1>2, GoesOn
<1> QED BY <1>3, <1>5, <1>6, <1>7 DEF IInv

(* Taking an action off the plan that neither makes nor validates a text.  *)
LEMMA Skipped ==
  ASSUME IInv, NEW a \in Actions \ {"generate_chapter", "validate"}, Next1(a), Done1,
         text' = text, validation' \in {validation, NoVerdict},
         validation' # validation => a = "polish",
         pc' \in {"workflow", "repair"},
         pc' = "repair" => a = "repair_if_needed" /\ ~Ok(validation.problems),
         UNCHANGED <<config, budget, fresh, attempts, reviews, history, best, reports, review, record>>
  PROVE  IInv'
<1>1. TypeOK /\ pc = "workflow" /\ plan # <<>> /\ plan[1] = a /\ Pending(a) /\ 1 \in DOMAIN plan
  <2>1. 1 \in DOMAIN plan
    BY DEF IInv, TypeOK, Next1
  <2> QED BY <2>1 DEF IInv, Next1, Pending
<1>2. /\ plan' \in Seq(Actions) /\ Planned'
      /\ \A x \in Actions : Pending(x)' <=> Pending(x) /\ x # plan[1]
  BY <1>1, PlanPopped DEF IInv
<1>3. Pending("validate")' <=> Pending("validate")
  BY <1>1, <1>2 DEF Actions
<1>4. Pending("generate_chapter")' <=> Pending("generate_chapter")
  BY <1>1, <1>2 DEF Actions
<1>5. a = "polish" => Pending("validate")
  BY <1>1 DEF IInv, Planned
<1>6. ~(\E j \in 1..1 - 1 : TRUE)
  OBVIOUS
<1>7. a = "repair_if_needed" => ~Pending("validate")
  BY <1>1, <1>6 DEF IInv, Planned, Before
<1>8. a \in Late => text # None
  BY <1>1, <1>6 DEF IInv, Planned, Before
<1>9. TypeOK'
  BY <1>1, <1>2 DEF TypeOK
<1>10. JudgedOK'
  BY <1>1, <1>3, <1>5, <1>7 DEF IInv, JudgedOK, Working, Over
<1>11. TextThere' /\ Kept'
  BY <1>1, <1>4, <1>8 DEF IInv, TextThere, Kept, Late
<1>12. Shrinking'
  BY <1>1, <1>3, <1>5 DEF IInv, Shrinking, Working
<1>13. RecordOK' /\ PublishedAsJudged' /\ BestTextKept'
  BY <1>1, GoesOn
<1> QED BY <1>2, <1>9, <1>10, <1>11, <1>12, <1>13 DEF IInv

LEMMA SkippingKeeps == IInv /\ (Mark \/ PolishSkipped \/ RepairSkipped \/ RepairNeeded) => IInv'
<1> SUFFICES ASSUME IInv, Mark \/ PolishSkipped \/ RepairSkipped \/ RepairNeeded PROVE IInv'
  OBVIOUS
<1>1. CASE Mark
  <2>1. PICK a \in {"build_snapshot", "pre_validate_bridge", "commit_snapshot"} : Next1(a)
    BY <1>1 DEF Mark
  <2>2. /\ Done1 /\ a \in Actions \ {"generate_chapter", "validate"} /\ pc' = "workflow"
        /\ UNCHANGED <<config, budget, fresh, text, validation, attempts, reviews, history,
                       best, reports, review, record>>
    BY <1>1, <2>1 DEF Mark, Next1, Actions
  <2> QED BY <2>1, <2>2, Skipped
<1>2. CASE PolishSkipped
  <2>1. /\ Next1("polish") /\ Done1 /\ pc' = "workflow" /\ validation' = NoVerdict
        /\ UNCHANGED <<config, budget, fresh, text, attempts, reviews, history,
                       best, reports, review, record>>
    BY <1>2 DEF PolishSkipped, Next1
  <2> QED BY <2>1, Skipped DEF Actions
<1>3. CASE RepairSkipped
  <2>1. /\ Next1("repair_if_needed") /\ Done1 /\ pc' = "workflow"
        /\ UNCHANGED <<config, budget, fresh, text, validation, attempts, reviews, history,
                       best, reports, review, record>>
    BY <1>3 DEF RepairSkipped, Next1
  <2> QED BY <2>1, Skipped DEF Actions
<1>4. CASE RepairNeeded
  <2>1. /\ Next1("repair_if_needed") /\ Done1 /\ pc' = "repair" /\ ~Ok(validation.problems)
        /\ UNCHANGED <<config, budget, fresh, text, validation, attempts, reviews, history,
                       best, reports, review, record>>
    BY <1>4 DEF RepairNeeded
  <2> QED BY <2>1, Skipped DEF Actions
<1> QED BY <1>1, <1>2, <1>3, <1>4

(* The first verdict of a run starts its history.                          *)
LEMMA ValidateKeeps == IInv /\ Validate => IInv'
<1> SUFFICES ASSUME IInv, Validate PROVE IInv'
  OBVIOUS
<1>1. /\ Next1("validate") /\ Done1 /\ Judged(LastStage)
      /\ UNCHANGED <<pc, config, budget, fresh, text, attempts, reviews, reports, review, record>>
  BY DEF Validate
<1>2. TypeOK /\ Kept /\ pc = "workflow" /\ plan # <<>> /\ plan[1] = "validate" /\ 1 \in DOMAIN plan
  BY <1>1 DEF IInv, TypeOK, Next1
<1>3. text # None
  <2>1. ~(\E j \in 1..1 - 1 : TRUE)
    OBVIOUS
  <2> QED BY <1>2, <2>1 DEF IInv, Planned, Before, Late
<1>4. /\ plan' \in Seq(Actions) /\ Planned'
      /\ \A x \in Actions : Pending(x)' <=> Pending(x) /\ x # plan[1]
  BY <1>1, <1>2, <1>3, PlanPopped DEF IInv
<1>5. ~Pending("validate")' /\ Pending("validate") /\ history = <<>>
  BY <1>2, <1>4 DEF IInv, JudgedOK, Pending, Actions
<1>6. /\ validation' \in Verdict /\ validation'.of = text
      /\ history' \in Seq(Verdict) /\ history' # <<>> /\ history'[Len(history')] = validation'
      /\ history' = history \/ history' = Append(history, validation')
      /\ best' \in Verdict /\ best' \in {validation', best}
      /\ Kept'
  BY <1>1, <1>2, <1>3, JudgedKeeps
<1>7. history' = <<validation'>> /\ DOMAIN history' = {1}
  BY <1>5, <1>6
<1>8. TypeOK'
  BY <1>1, <1>2, <1>4, <1>6 DEF TypeOK
<1>9. JudgedOK'
  BY <1>1, <1>2, <1>5, <1>6 DEF IInv, JudgedOK, Working, Over
<1>10. best'.of <= fresh'
  BY <1>1, <1>2, <1>6, ConfigAssumption DEF IInv, TextThere, TypeOK
<1>11. TextThere'
  BY <1>1, <1>2, <1>3, <1>10 DEF TextThere
<1>12. validation'.problems \in SUBSET Found
  BY <1>6 DEF Verdict
<1>13. Cardinality(validation'.problems) \in Nat
  BY <1>12, Countable
<1>14. Shrinking'
  BY <1>1, <1>2, <1>6, <1>7, <1>13 DEF Shrinking
<1>15. RecordOK' /\ PublishedAsJudged' /\ BestTextKept'
  BY <1>1, <1>2, GoesOn
<1> QED BY <1>4, <1>6, <1>8, <1>9, <1>11, <1>14, <1>15 DEF IInv

LEMMA RepairKeeps == IInv /\ Repair => IInv'
<1> SUFFICES ASSUME IInv, Repair PROVE IInv'
  OBVIOUS
<1>1. PICK t \in 1..MaxTexts, b \in BOOLEAN : Answer(t) /\ text' = t /\ Reported("repair", t, b)
  BY DEF Repair
<1>2. /\ pc = "repair" /\ pc' = "revalidate" /\ attempts < budget /\ attempts' = attempts + 1
      /\ UNCHANGED <<config, plan, budget, reviews, validation, history, best, review, record>>
  BY DEF Repair
<1>3. TypeOK
  BY DEF IInv
<1>4. fresh' \in 0..MaxTexts /\ fresh <= fresh' /\ t # None /\ t \in 0..fresh'
  BY <1>1, <1>3, AnswerType
<1>5. reports' \subseteq Reports
  BY <1>1, <1>3, ReportedType
<1>6. Planned' /\ \A a \in Actions : Pending(a)' <=> Pending(a)
  BY <1>1, <1>2, <1>4, PlanStays DEF IInv
<1>7. Pending("validate")' <=> Pending("validate")
  BY <1>6 DEF Actions
<1>8. TypeOK'
  BY <1>1, <1>2, <1>3, <1>4, <1>5, ConfigAssumption DEF TypeOK
<1>9. JudgedOK'
  BY <1>2, <1>7 DEF IInv, JudgedOK, Working, Over
<1>10. best.of <= fresh'
  BY <1>3, <1>4, ConfigAssumption DEF IInv, TextThere, TypeOK, Verdict, NoVerdict, None
<1>11. TextThere' /\ Kept'
  BY <1>1, <1>2, <1>4, <1>10 DEF IInv, TextThere, Kept
<1>12. Shrinking'
  BY <1>2, <1>7 DEF IInv, Shrinking, Working
<1>13. RecordOK' /\ PublishedAsJudged' /\ BestTextKept'
  BY <1>2, GoesOn
<1> QED BY <1>6, <1>8, <1>9, <1>11, <1>12, <1>13 DEF IInv

(* A repair that does not end the loop leaves fewer problems than any      *)
(* verdict before it, or none that block.                                  *)
LEMMA RevalidateKeeps == IInv /\ Revalidate => IInv'
<1> SUFFICES ASSUME IInv, Revalidate PROVE IInv'
  OBVIOUS
<1>1. /\ pc = "revalidate" /\ Judged({"repair"}) /\ LastConverges(history')
      /\ pc' = IF ~Ok(validation'.problems) /\ attempts < budget THEN "repair" ELSE "workflow"
      /\ UNCHANGED <<config, plan, budget, fresh, text, attempts, reviews, reports, review, record>>
  BY DEF Revalidate
<1>2. TypeOK /\ Kept /\ text # None /\ pc' \in {"repair", "workflow"}
  BY <1>1 DEF IInv, TextThere
<1>3. Planned' /\ \A a \in Actions : Pending(a)' <=> Pending(a)
  BY <1>1, PlanStays DEF IInv
<1>4. ~Pending("validate") /\ ~Pending("validate")' /\ history # <<>>
  BY <1>1, <1>3 DEF IInv, JudgedOK, Actions, Working
<1>5. /\ validation' \in Verdict /\ validation'.of = text
      /\ history' \in Seq(Verdict) /\ history' # <<>> /\ history'[Len(history')] = validation'
      /\ history' = history \/ history' = Append(history, validation')
      /\ best' \in Verdict /\ best' \in {validation', best}
      /\ Kept'
  BY <1>1, <1>2, JudgedKeeps
<1>6. TypeOK'
  BY <1>1, <1>2, <1>5 DEF TypeOK
<1>7. JudgedOK'
  BY <1>1, <1>2, <1>4, <1>5 DEF IInv, JudgedOK, Working, Over
<1>8. best'.of <= fresh'
  BY <1>1, <1>2, <1>5, ConfigAssumption DEF IInv, TextThere, TypeOK
<1>9. TextThere'
  BY <1>1, <1>2, <1>8 DEF TextThere
<1>10. /\ ~Ok(validation.problems) /\ validation = history[Len(history)]
       /\ \A i \in DOMAIN history : Cardinality(validation.problems) <= Cardinality(history[i].problems)
  BY <1>1, <1>4 DEF IInv, Shrinking, Working
<1>11. ASSUME ~Ok(validation'.problems)
       PROVE  \A i \in DOMAIN history' :
                Cardinality(validation'.problems) <= Cardinality(history'[i].problems)
  <2>1. CASE history' = history
    BY <1>5, <1>10, <2>1
  <2>2. CASE history' = Append(history, validation')
    <3>1. history \in Seq(Verdict) /\ Len(history) \in Nat /\ Len(history) > 0
      BY <1>2, <1>4 DEF TypeOK
    <3>2. /\ DOMAIN history' = 1..Len(history) + 1 /\ Len(history') = Len(history) + 1
          /\ \A i \in DOMAIN history : history'[i] = history[i]
          /\ \A i \in DOMAIN history' : i \in DOMAIN history \/ history'[i] = validation'
          /\ Len(history) \in DOMAIN history
      BY <1>5, <2>2, <3>1
    <3>3. Converges(history[Len(history)].problems, validation'.problems)
      BY <1>1, <1>5, <3>1, <3>2 DEF LastConverges
    <3>4. Cardinality(validation'.problems) < Cardinality(validation.problems)
      BY <1>10, <1>11, <3>3 DEF Converges
    <3>5. \A w \in Verdict : Cardinality(w.problems) \in Nat
      <4>1. \A w \in Verdict : w.problems \in SUBSET Found
        BY DEF Verdict
      <4> QED BY <4>1, Countable
    <3>6. \A i \in DOMAIN history : history[i] \in Verdict
      BY <3>1
    <3>7. validation \in Verdict
      BY <1>10, <3>2, <3>6
    <3>8. TAKE i \in DOMAIN history'
    <3>9. CASE i \in DOMAIN history
      BY <1>5, <1>10, <3>2, <3>4, <3>5, <3>6, <3>7, <3>9
    <3>10. CASE history'[i] = validation'
      BY <1>5, <3>5, <3>10
    <3> QED BY <3>2, <3>9, <3>10
  <2> QED BY <1>5, <2>1, <2>2
<1>12. Shrinking'
  <2>1. pc' = "repair" => ~Ok(validation'.problems)
    BY <1>1
  <2> QED BY <1>2, <1>5, <1>11, <2>1 DEF Shrinking
<1>13. RecordOK' /\ PublishedAsJudged' /\ BestTextKept'
  BY <1>1, <1>2, GoesOn
<1> QED BY <1>3, <1>5, <1>6, <1>7, <1>9, <1>12, <1>13 DEF IInv

(* The run fails with the best text it has seen.                           *)
LEMMA NotConvergingKeeps == IInv /\ NotConverging => IInv'
<1> SUFFICES ASSUME IInv, NotConverging PROVE IInv'
  OBVIOUS
<1>1. PICK v \in Verdicts({"repair"}) : Recorded(v)
  BY DEF NotConverging
<1>2. /\ pc = "revalidate" /\ text' = best'.of /\ validation' = best'
      /\ Failed("not_converging", text', validation')
      /\ UNCHANGED <<config, plan, budget, fresh, attempts, reviews, reports, review>>
  BY DEF NotConverging
<1>3. TypeOK /\ Kept /\ text # None
  BY <1>2 DEF IInv, TextThere
<1>4. v \in Verdict /\ v.of = text
  BY <1>1, <1>3, VerdictOfText
<1>5. history' \in Seq(Verdict) /\ best' \in Verdict /\ best' \in {v, best} /\ Kept'
  BY <1>1, <1>3, <1>4, RecordedKeeps
<1>6. best'.of <= fresh' /\ best'.of \in 0..fresh' /\ best'.of # None
  BY <1>2, <1>3, <1>4, <1>5, ConfigAssumption DEF IInv, TextThere, TypeOK, Verdict, None
<1>7. pc' = "done" /\ PublishedAsJudged'
  BY <1>2, FailedRecord
<1>8. BestTextKept'
  <2>1. record'.status = "failed" => record'.validation = best' /\ record'.text = best'.of
    BY <1>2 DEF Failed, Leave, NoRecord
  <2> QED BY <1>5, <2>1 DEF BestTextKept, Kept
<1>9. TypeOK'
  BY <1>2, <1>3, <1>5, <1>6, <1>7 DEF TypeOK
<1>10. Planned'
  BY <1>2, <1>6, PlanStays DEF IInv
<1>11. JudgedOK' /\ TextThere' /\ Shrinking' /\ RecordOK'
  BY <1>2, <1>6, <1>7 DEF IInv, JudgedOK, TextThere, Shrinking, RecordOK, Working, Over
<1> QED BY <1>5, <1>7, <1>8, <1>9, <1>10, <1>11 DEF IInv

LEMMA JudgeKeeps == IInv /\ Judge => IInv'
<1> SUFFICES ASSUME IInv, Judge PROVE IInv'
  OBVIOUS
<1>1. /\ pc = "workflow" /\ plan = <<>>
      /\ UNCHANGED <<config, plan, budget, fresh, text, validation, attempts, reviews,
                     history, best, reports, record>>
  BY DEF Judge
<1>2. \/ pc' = "finish" /\ review' = review
      \/ pc' = "review" /\ \E s \in Statuses : review' = [of |-> text, status |-> s]
  BY DEF Judge
<1>3. Planned' /\ \A a \in Actions : ~Pending(a)
  BY <1>1, PlanStays DEF IInv, Pending
<1>4. text # None /\ validation.of = text /\ review = NoReview
  BY <1>1, <1>3 DEF IInv, JudgedOK, TextThere, Actions, Working
<1>5. review' \in [of: 0..MaxTexts, status: Statuses] /\ (review' = NoReview \/ review'.of = text)
  BY <1>2, <1>4, ConfigAssumption DEF IInv, TypeOK
<1>6. TypeOK'
  BY <1>1, <1>2, <1>5 DEF IInv, TypeOK
<1>7. JudgedOK' /\ TextThere' /\ Kept' /\ Shrinking'
  BY <1>1, <1>2, <1>4, <1>5 DEF IInv, JudgedOK, TextThere, Kept, Shrinking, Working, Over
<1>8. RecordOK' /\ PublishedAsJudged' /\ BestTextKept'
  BY <1>1, <1>2, GoesOn
<1> QED BY <1>3, <1>6, <1>7, <1>8 DEF IInv

(* A repaired text comes with its verdict and its review.                  *)
LEMMA ReviewRepairKeeps == IInv /\ ReviewRepair => IInv'
<1> SUFFICES ASSUME IInv, ReviewRepair PROVE IInv'
  OBVIOUS
<1>1. PICK t \in 1..MaxTexts, found \in SUBSET Problems, s \in Statuses :
        /\ Answer(t) /\ text' = t /\ validation' = [of |-> t, problems |-> found]
        /\ review' = [of |-> t, status |-> s]
  BY DEF ReviewRepair
<1>2. /\ pc = "review" /\ pc' = "review" /\ reviews # config.reviewRepairs /\ reviews' = reviews + 1
      /\ UNCHANGED <<config, plan, budget, attempts, history, best, reports, record>>
  BY DEF ReviewRepair, ReviewSettled
<1>3. TypeOK
  BY DEF IInv
<1>4. fresh' \in 0..MaxTexts /\ fresh <= fresh' /\ t # None /\ t \in 0..fresh'
  BY <1>1, <1>3, AnswerType
<1>5. validation' \in Verdict
  BY <1>1 DEF Verdict, Found
<1>6. reviews' \in 0..config.reviewRepairs
  BY <1>2, <1>3, ConfigAssumption DEF TypeOK, Config
<1>7. review' \in [of: 0..MaxTexts, status: Statuses]
  BY <1>1, ConfigAssumption
<1>8. TypeOK'
  BY <1>1, <1>2, <1>3, <1>4, <1>5, <1>6, <1>7 DEF TypeOK
<1>9. Planned'
  BY <1>1, <1>2, <1>4, PlanStays DEF IInv
<1>10. best.of <= fresh'
  BY <1>3, <1>4, ConfigAssumption DEF IInv, TextThere, TypeOK, Verdict, NoVerdict, None
<1>11. JudgedOK' /\ TextThere' /\ Kept' /\ Shrinking'
  BY <1>1, <1>2, <1>4, <1>10 DEF IInv, JudgedOK, TextThere, Kept, Shrinking, Working, Over
<1>12. RecordOK' /\ PublishedAsJudged' /\ BestTextKept'
  BY <1>2, GoesOn
<1> QED BY <1>8, <1>9, <1>11, <1>12 DEF IInv

LEMMA ReviewEndsKeeps == IInv /\ (ReviewRepairFails \/ ReviewEnds) => IInv'
<1> SUFFICES ASSUME IInv, ReviewRepairFails \/ ReviewEnds PROVE IInv'
  OBVIOUS
<1>1. /\ pc = "review" /\ pc' = "finish"
      /\ UNCHANGED <<config, plan, budget, fresh, text, validation, attempts, reviews,
                     history, best, reports, review, record>>
  BY DEF ReviewRepairFails, ReviewEnds
<1>2. TypeOK'
  BY <1>1 DEF IInv, TypeOK
<1>3. Planned'
  BY <1>1, PlanStays DEF IInv
<1>4. JudgedOK' /\ TextThere' /\ Kept' /\ Shrinking'
  BY <1>1 DEF IInv, JudgedOK, TextThere, Kept, Shrinking, Working, Over
<1>5. RecordOK' /\ PublishedAsJudged' /\ BestTextKept'
  BY <1>1, GoesOn
<1> QED BY <1>2, <1>3, <1>4, <1>5 DEF IInv

(* What is accepted was judged with its review, and no finding about the   *)
(* text or about what canonicalization made of it blocks.                  *)
LEMMA FinishKeeps == IInv /\ Finish => IInv'
<1> SUFFICES ASSUME IInv, Finish PROVE IInv'
  OBVIOUS
<1>1. /\ pc = "finish"
      /\ UNCHANGED <<config, plan, budget, text, validation, attempts, reviews, history, best,
                     reports, review>>
  BY DEF Finish
<1>2. PICK t \in 1..MaxTexts, gate \in BOOLEAN, delta \in SUBSET Problems :
        /\ config.writeback \/ t = text
        /\ Answer(t) /\ t \in {text, fresh + 1}
        /\ LET blocking == gate \/ Carried(text, t)
               found == validation.problems \cup delta
                          \cup (IF blocking THEN {Integrity} ELSE {})
               v == [validation EXCEPT !.problems = found]
               accepted == Accepts(found, review) /\ GateAllows(review)
               rec == [NoRecord EXCEPT !.text = t, !.source = text, !.validation = v,
                                       !.review = review, !.attempts = attempts]
           IN \/ /\ ~accepted
                 /\ Leave(IF config.persist THEN [rec EXCEPT !.status = "rejected"] ELSE rec)
              \/ /\ accepted /\ ~config.persist
                 /\ Leave([rec EXCEPT !.status = "preview"])
              \/ /\ accepted /\ config.persist
                 /\ \E s \in Outcomes :
                      Leave(IF s = "none" THEN [NoRecord EXCEPT !.reason = "persistence_error"]
                            ELSE [rec EXCEPT !.status = s])
              \/ /\ accepted
                 /\ Failed("analysis_error", t, NoVerdict)
  BY Zenon DEF Finish
<1> DEFINE blocking == gate \/ Carried(text, t)
           found == validation.problems \cup delta \cup (IF blocking THEN {Integrity} ELSE {})
           v == [validation EXCEPT !.problems = found]
           accepted == Accepts(found, review) /\ GateAllows(review)
           rec == [NoRecord EXCEPT !.text = t, !.source = text, !.validation = v,
                                   !.review = review, !.attempts = attempts]
<1>3. TypeOK /\ validation.of = text /\ (review = NoReview \/ review.of = text)
  BY <1>1 DEF IInv, JudgedOK, Over
<1>4. fresh' \in 0..MaxTexts /\ fresh <= fresh'
  BY <1>2, <1>3, AnswerType
<1>5. v.of = text
  <2>1. DOMAIN validation = {"of", "problems"}
    BY <1>3 DEF TypeOK, Verdict, NoVerdict
  <2> HIDE DEF found
  <2> QED BY <1>3, <2>1
<1>6. /\ rec.text = t /\ rec.source = text /\ rec.validation = v /\ rec.review = review
      /\ rec.status = "none" /\ rec.reason = "none"
      /\ \A s : /\ [rec EXCEPT !.status = s].text = t /\ [rec EXCEPT !.status = s].source = text
                /\ [rec EXCEPT !.status = s].validation = v /\ [rec EXCEPT !.status = s].review = review
                /\ [rec EXCEPT !.status = s].status = s /\ [rec EXCEPT !.status = s].reason = "none"
  <2> HIDE DEF v
  <2> QED BY DEF NoRecord
<1>7. ASSUME accepted
      PROVE  /\ \A r \in reports : r.of \in {text, t} => ~r.blocking
             /\ config.gate # "off" => /\ review # NoReview
                                       /\ Rank[review.status] < Rank[config.gate]
  <2>1. Ok(found)
    BY <1>7 DEF Accepts
  <2>2. Blocks(Integrity)
    BY ConfigAssumption DEF Blocks
  <2>3. ~blocking
    BY <2>1, <2>2 DEF Ok
  <2>4. ~Suspect(text) /\ ~Suspect(t)
    BY <2>3 DEF Carried
  <2> QED BY <1>7, <2>4 DEF Suspect, GateAllows
<1> HIDE DEF v, rec, accepted
<1>8. /\ pc' = "done"
      /\ \/ /\ record'.text = t /\ record'.source = text /\ record'.validation = v
            /\ record'.review = review /\ record'.reason = "none"
            /\ record'.status \in Publishable => accepted
         \/ record'.status \in {"failed", "none"} /\ record'.reason # "not_converging"
  <2>1. CASE ~accepted /\ Leave(IF config.persist THEN [rec EXCEPT !.status = "rejected"] ELSE rec)
    BY <1>6, <2>1 DEF Leave, Publishable
  <2>2. CASE accepted /\ Leave([rec EXCEPT !.status = "preview"])
    BY <1>6, <2>2 DEF Leave
  <2>3. CASE accepted /\ \E s \in Outcomes :
               Leave(IF s = "none" THEN [NoRecord EXCEPT !.reason = "persistence_error"]
                     ELSE [rec EXCEPT !.status = s])
    BY <1>6, <2>3 DEF Leave, NoRecord
  <2>4. CASE Failed("analysis_error", t, NoVerdict)
    BY <2>4 DEF Failed, Leave, NoRecord
  <2> QED BY <1>2, <2>1, <2>2, <2>3, <2>4 DEF v, rec, accepted
<1>9. JudgedTogether'
  BY <1>3, <1>5, <1>8 DEF JudgedTogether, Judgeable
<1>10. NoForgottenFinding'
  BY <1>1, <1>7, <1>8 DEF NoForgottenFinding, Publishable
<1>11. PublishedPassesGate'
  BY <1>1, <1>3, <1>7, <1>8 DEF PublishedPassesGate, Publishable
<1>12. BestTextKept'
  BY <1>8 DEF BestTextKept
<1>13. TypeOK'
  BY <1>1, <1>3, <1>4, <1>8, ConfigAssumption DEF TypeOK
<1>14. Planned'
  BY <1>1, PlanStays DEF IInv
<1>15. best.of <= fresh'
  BY <1>3, <1>4, ConfigAssumption DEF IInv, TextThere, TypeOK, Verdict, NoVerdict, None
<1>16. JudgedOK' /\ TextThere' /\ Kept' /\ Shrinking' /\ RecordOK'
  BY <1>1, <1>8, <1>15 DEF IInv, JudgedOK, TextThere, Kept, Shrinking, RecordOK, Working, Over
<1> QED BY <1>9, <1>10, <1>11, <1>12, <1>13, <1>14, <1>16 DEF IInv, PublishedAsJudged

-----------------------------------------------------------------------------
(* The invariant and what follows from it.                                 *)

LEMMA Initially == Init => IInv
<1> SUFFICES ASSUME Init PROVE IInv
  OBVIOUS
<1>1. TypeOK
  BY ConfigAssumption DEF Init, TypeOK, None, NoReview, Statuses, Config
<1>2. Planned
  BY DEF Init, Planned, Before, After, Pending
<1>3. JudgedOK /\ TextThere /\ Kept /\ Shrinking /\ RecordOK
  BY DEF Init, JudgedOK, TextThere, Kept, Shrinking, RecordOK, Working, Over, Pending, NoVerdict, None
<1>4. PublishedAsJudged /\ BestTextKept
  BY DEF Init, PublishedAsJudged, JudgedTogether, NoForgottenFinding, PublishedPassesGate,
         BestTextKept, NoRecord, Judgeable, Publishable
<1> QED BY <1>1, <1>2, <1>3, <1>4 DEF IInv

LEMMA FailingKeeps == IInv /\ (DirectFails \/ ActionFails \/ RepairFails) => IInv'
<1> SUFFICES ASSUME IInv, DirectFails \/ ActionFails \/ RepairFails PROVE IInv'
  OBVIOUS
<1>1. UNCHANGED <<config, plan, budget, fresh, text, validation, attempts, reviews,
                  history, best, reports, review>>
  BY DEF DirectFails, ActionFails, RepairFails
<1>2. \/ Failed("director_error", None, NoVerdict) \/ Failed("workflow_error", None, NoVerdict)
      \/ Failed("action_error", text, validation)
  BY DEF DirectFails, ActionFails, RepairFails, Undirected
<1> QED BY <1>1, <1>2, FailsKeeps

LEMMA Inductive == IInv /\ [Next]_vars => IInv'
<1> SUFFICES ASSUME IInv, [Next]_vars PROVE IInv'
  OBVIOUS
<1>1. CASE UNCHANGED vars
  <2>1. Planned'
    BY <1>1, PlanStays DEF IInv, vars
  <2>2. TypeOK' /\ TextThere' /\ Kept' /\ RecordOK' /\ BestTextKept'
    BY <1>1 DEF IInv, TypeOK, TextThere, Kept, RecordOK, BestTextKept, vars, Pending
  <2>3. JudgedOK' /\ Shrinking'
    BY <1>1 DEF IInv, JudgedOK, Shrinking, Pending, Working, Over, vars
  <2>4. PublishedAsJudged'
    BY <1>1 DEF IInv, PublishedAsJudged, JudgedTogether, NoForgottenFinding, PublishedPassesGate, vars
  <2> QED BY <2>1, <2>2, <2>3, <2>4 DEF IInv
<1>2. CASE Direct \/ Generate \/ DraftKept \/ Polish \/ Validate \/ Repair \/ Revalidate \/ NotConverging
  BY <1>2, DirectKeeps, GenerateKeeps, DraftKeptKeeps, PolishKeeps, ValidateKeeps, RepairKeeps, RevalidateKeeps,
     NotConvergingKeeps
<1>3. CASE Mark \/ PolishSkipped \/ RepairSkipped \/ RepairNeeded
  BY <1>3, SkippingKeeps
<1>4. CASE DirectFails \/ ActionFails \/ RepairFails
  BY <1>4, FailingKeeps
<1>5. CASE Judge \/ ReviewRepair \/ ReviewRepairFails \/ ReviewEnds \/ Finish
  BY <1>5, JudgeKeeps, ReviewRepairKeeps, ReviewEndsKeeps, FinishKeeps
<1> QED BY <1>1, <1>2, <1>3, <1>4, <1>5 DEF Next

LEMMA Invariance == Spec => []IInv
BY Initially, Inductive, PTL DEF Spec

(* Every variable keeps its shape, and a run repairs no more often than    *)
(* the Director allowed.                                                   *)
THEOREM TypeCorrect == Spec => []TypeOK
<1>1. IInv => TypeOK
  BY DEF IInv
<1> QED BY <1>1, Invariance, PTL

(* For every workflow the order admits, every configuration and any number *)
(* of repairs and texts: what is published was judged as it is recorded,   *)
(* together with its review, no blocking finding about it or about what it *)
(* was canonicalized from is forgotten, and it passed the review's gate    *)
(* (_run_once_impl).                                                       *)
THEOREM PublishedOnJudgement == Spec => []PublishedAsJudged
<1>1. IInv => PublishedAsJudged
  BY DEF IInv
<1> QED BY <1>1, Invariance, PTL

(* A repair loop that does not converge leaves its best validated text     *)
(* with its verdict, and one that ends otherwise, with problems, the       *)
(* fewest any of its verdicts counted (repair_convergence.py).             *)
THEOREM BestSurvives == Spec => []BestIsKept
<1>1. IInv => BestIsKept
  <2> SUFFICES ASSUME IInv PROVE FewestProblems
    BY DEF IInv, BestIsKept
  <2>1. plan = <<>> => ~Pending("validate")
    BY DEF Pending
  <2> QED BY <2>1 DEF IInv, FewestProblems, Shrinking, Working
<1> QED BY <1>1, Invariance, PTL

-----------------------------------------------------------------------------
(***************************************************************************)
(* A chapter over its runs and recoveries.                                 *)
(***************************************************************************)
IsSeq(s) == \E S : s \in Seq(S)
Elements(s) == {s[i] : i \in DOMAIN s}

\* The calls a run or a marker names.  A draft of the operator names none.
TextRefs(t) == IF t.by = "operator" THEN {} ELSE Elements(t.from)
RunRefs(x) == Elements(x.given) \cup Elements(x.held) \cup TextRefs(x.text)
              \cup (IF x.scene = NoScene THEN {} ELSE {x.scene})
MarkerRefs(m) == Elements(m.scenes) \cup TextRefs(m.draft)

IsRun(x) == /\ {"given", "held", "text", "scene", "base", "status", "calls"} \subseteq DOMAIN x
            /\ x = [f \in DOMAIN x |-> x[f]]
            /\ IsSeq(x.given) /\ IsSeq(x.held) /\ IsSeq(x.calls)

IsReset(z) == z \in DOMAIN markers /\ markers[z].action = "reset"

\* Only the last run may be running, and every marker was written when none was.
Ordered ==
    /\ IsSeq(runs) /\ \A r \in DOMAIN runs : IsRun(runs[r]) /\ (runs[r].status = "running" => r = this)
    /\ IsSeq(markers) /\ \A z \in DOMAIN markers : IsSeq(markers[z].scenes)
    /\ \A z \in DOMAIN markers : markers[z].at \in 0..this /\ (Running => markers[z].at < this)
    /\ \A r \in DOMAIN runs : runs[r].base \in 0..Len(markers)

\* A reset forgets every run there is and every later run knows it.
Forgetting ==
    \A z \in DOMAIN markers : markers[z].action = "reset" =>
        /\ \A r \in 1..markers[z].at : runs[r].status = "killed" \/ r \in Discarded
        /\ \A r \in DOMAIN runs : runs[r].base >= z => r > markers[z].at

\* What comes after a reset names only calls of runs after it.
Afresh ==
    \A z \in DOMAIN markers : markers[z].action = "reset" =>
        /\ \A i \in z + 1..Len(markers) : \A ref \in MarkerRefs(markers[i]) : ref[1] > markers[z].at
        /\ \A r \in DOMAIN runs : r > markers[z].at => \A ref \in RunRefs(runs[r]) : ref[1] > markers[z].at

LInv == Ordered /\ Forgetting /\ Afresh

-----------------------------------------------------------------------------
LEMMA SeqFacts ==
  ASSUME NEW s, IsSeq(s)
  PROVE  /\ Len(s) \in Nat /\ DOMAIN s = 1..Len(s) /\ (s = <<>> <=> Len(s) = 0)
         /\ \A e : /\ IsSeq(Append(s, e)) /\ Len(Append(s, e)) = Len(s) + 1 /\ Append(s, e)[Len(s) + 1] = e
                   /\ \A i \in 1..Len(s) : Append(s, e)[i] = s[i]
                   /\ Elements(Append(s, e)) = Elements(s) \cup {e}
<1>1. PICK S : s \in Seq(S)
  BY DEF IsSeq
<1>2. Len(s) \in Nat /\ DOMAIN s = 1..Len(s) /\ (s = <<>> <=> Len(s) = 0)
  BY <1>1
<1>3. ASSUME NEW e
      PROVE  /\ IsSeq(Append(s, e)) /\ Len(Append(s, e)) = Len(s) + 1 /\ Append(s, e)[Len(s) + 1] = e
             /\ \A i \in 1..Len(s) : Append(s, e)[i] = s[i]
             /\ Elements(Append(s, e)) = Elements(s) \cup {e}
  <2>1. s \in Seq(S \cup {e}) /\ e \in S \cup {e}
    BY <1>1
  <2>2. /\ Append(s, e) \in Seq(S \cup {e}) /\ Len(Append(s, e)) = Len(s) + 1 /\ Append(s, e)[Len(s) + 1] = e
        /\ \A i \in 1..Len(s) : Append(s, e)[i] = s[i]
    BY <2>1
  <2>3. DOMAIN Append(s, e) = 1..Len(s) + 1
    BY <2>2
  <2>4. Elements(Append(s, e)) = Elements(s) \cup {e}
    BY <1>2, <2>2, <2>3 DEF Elements
  <2> QED
    BY <2>2, <2>4 DEF IsSeq
<1> QED
  BY <1>2, <1>3

Replaced(s, i, e) == [s EXCEPT ![i] = e]

LEMMA ExceptFacts ==
  ASSUME NEW s, NEW i, NEW e, IsSeq(s)
  PROVE  /\ IsSeq(Replaced(s, i, e)) /\ Len(Replaced(s, i, e)) = Len(s)
         /\ Elements(Replaced(s, i, e)) \subseteq Elements(s) \cup {e}
         /\ \A j \in 1..Len(s) : Replaced(s, i, e)[j] = IF j = i THEN e ELSE s[j]
<1>0. PICK S : s \in Seq(S)
  BY DEF IsSeq
<1> DEFINE t == [s EXCEPT ![i] = e]
<1>1. s \in [1..Len(s) -> S \cup {e}] /\ s \in Seq(S \cup {e}) /\ e \in S \cup {e}
  BY <1>0
<1>2. i \in 1..Len(s) => t \in Seq(S \cup {e}) /\ Len(t) = Len(s)
  BY <1>1, ExceptSeq
<1>3. i \notin 1..Len(s) => t = s
  BY <1>1
<1>5. t \in Seq(S \cup {e}) /\ Len(t) = Len(s)
  BY <1>1, <1>2, <1>3
<1>4. Elements(t) \subseteq Elements(s) \cup {e}
  BY <1>1 DEF Elements
<1>6. \A j \in 1..Len(s) : t[j] = IF j = i THEN e ELSE s[j]
  BY <1>1
<1> QED
  BY <1>4, <1>5, <1>6 DEF IsSeq, Replaced

LEMMA SubSeqFacts ==
  ASSUME NEW s, IsSeq(s), NEW n \in 0..Len(s)
  PROVE  IsSeq(SubSeq(s, 1, n)) /\ Elements(SubSeq(s, 1, n)) \subseteq Elements(s)
<1>1. PICK S : s \in Seq(S)
  BY DEF IsSeq
<1>2. /\ SubSeq(s, 1, n) \in Seq(S) /\ Len(SubSeq(s, 1, n)) = n
      /\ \A i \in 1..n : SubSeq(s, 1, n)[i] = s[i]
  BY <1>1
<1>3. DOMAIN SubSeq(s, 1, n) = 1..n /\ 1..n \subseteq DOMAIN s
  BY <1>1, <1>2
<1> QED
  BY <1>2, <1>3 DEF IsSeq, Elements

LEMMA Least == ASSUME NEW T \in SUBSET Nat, T # {} PROVE \E c \in T : \A d \in T : c <= d
<1>1. PICK c \in T : \A d \in T : <<d, c>> \notin OpToRel(<, Nat)
  BY WFMin, NatLessThanWellFounded, Zenon
<1>2. \A d \in T : ~(d < c)
  BY <1>1, Zenon DEF OpToRel
<1> QED
  BY <1>2

LEMMA MaxIn ==
  ASSUME NEW n \in Nat, NEW S, S \subseteq 0..n, S # {}
  PROVE  Max(S) \in S
<1> DEFINE above == {m \in Nat : \A x \in S : x <= m}
<1>1. \A x \in S : x \in Nat /\ x <= n
  OBVIOUS
<1>2. above \in SUBSET Nat /\ n \in above
  BY <1>1
<1>3. PICK m \in above : \A d \in above : m <= d
  BY <1>2, Least
<1>4. m \in S
  <2>1. SUFFICES ASSUME m \notin S PROVE FALSE
    OBVIOUS
  <2>2. \A x \in S : x < m /\ x <= m - 1
    BY <1>1, <1>3, <2>1
  <2>3. m \in Nat /\ m > 0
    <3>1. PICK x \in S : x \in Nat
      BY <1>1
    <3>2. x < m
      BY <2>2
    <3> QED
      BY <1>3, <3>1, <3>2
  <2>4. m - 1 \in above
    BY <2>2, <2>3
  <2> QED
    BY <1>3, <2>3, <2>4
<1>5. \A y \in S : m >= y
  BY <1>1, <1>3
<1> QED
  BY <1>4, <1>5 DEF Max

-----------------------------------------------------------------------------
(* What a recovery takes over.                                              *)

\* One call more: the scenes stay what they were, or one of this call is among them.
IsLaid(acc, r, base) ==
    /\ acc = [on |-> acc.on, scenes |-> acc.scenes] /\ acc.on \in BOOLEAN
    /\ IsSeq(acc.scenes) /\ \A ref \in Elements(acc.scenes) : ref \in Elements(base) \/ ref[1] = r

LEMMA LayStep ==
  ASSUME NEW r, NEW base, NEW acc, IsLaid(acc, r, base), NEW k
  PROVE  IsLaid(Lay(r, acc, k), r, base)
<1> DEFINE new == Lay(r, acc, k)
           call == runs[r].calls[k]
           ref == <<r, k>>
<1> SUFFICES IsLaid(new, r, base)
  OBVIOUS
<1>1. acc = [on |-> acc.on, scenes |-> acc.scenes] /\ acc.on \in BOOLEAN /\ IsSeq(acc.scenes)
  BY DEF IsLaid
<1>2. CASE new = acc
  BY <1>2
<1>3. CASE new = [acc EXCEPT !.on = FALSE]
  <2>1. new = [on |-> FALSE, scenes |-> acc.scenes]
    BY <1>1, <1>3
  <2> QED
    BY <2>1 DEF IsLaid
<1>4. CASE new = [acc EXCEPT !.scenes[call.scene] = ref]
  <2> DEFINE s == Replaced(acc.scenes, call.scene, ref)
  <2>1. new = [on |-> acc.on, scenes |-> s]
    BY <1>1, <1>4 DEF Replaced
  <2>2. IsSeq(s) /\ Elements(s) \subseteq Elements(acc.scenes) \cup {ref} /\ ref[1] = r
    BY <1>1, ExceptFacts
  <2> HIDE DEF s, new
  <2>3. new.on = acc.on /\ new.scenes = s
    BY <2>1
  <2>4. \A x \in Elements(s) : x \in Elements(base) \/ x[1] = r
    <3>1. \A x \in Elements(acc.scenes) : x \in Elements(base) \/ x[1] = r
      BY DEF IsLaid
    <3> QED
      BY <2>2, <3>1
  <2>5. new = [on |-> new.on, scenes |-> new.scenes] /\ new.on \in BOOLEAN /\ IsSeq(new.scenes)
    BY <1>1, <2>1, <2>2, <2>3
  <2> QED
    BY <2>3, <2>4, <2>5 DEF IsLaid
<1>5. CASE new = [acc EXCEPT !.scenes = Append(@, ref)]
  <2> DEFINE s == Append(acc.scenes, ref)
  <2>1. new = [on |-> acc.on, scenes |-> s]
    BY <1>1, <1>5
  <2>2. IsSeq(s) /\ Elements(s) = Elements(acc.scenes) \cup {ref} /\ ref[1] = r
    BY <1>1, SeqFacts
  <2> HIDE DEF s, new
  <2>3. new.on = acc.on /\ new.scenes = s
    BY <2>1
  <2>4. \A x \in Elements(s) : x \in Elements(base) \/ x[1] = r
    <3>1. \A x \in Elements(acc.scenes) : x \in Elements(base) \/ x[1] = r
      BY DEF IsLaid
    <3> QED
      BY <2>2, <3>1
  <2>5. new = [on |-> new.on, scenes |-> new.scenes] /\ new.on \in BOOLEAN /\ IsSeq(new.scenes)
    BY <1>1, <2>1, <2>2, <2>3
  <2> QED
    BY <2>3, <2>4, <2>5 DEF IsLaid
<1> QED
  BY <1>2, <1>3, <1>4, <1>5 DEF Lay

\* The recursion over the calls of a run has a solution, by extending one over fewer calls.
Laying(f, r, base, n) ==
    f = [k \in 0..n |-> IF k = 0 THEN [on |-> TRUE, scenes |-> base] ELSE Lay(r, f[k - 1], k)]

LEMMA LayingExists == \A r, base : \A n \in Nat : \E f : Laying(f, r, base, n)
<1> SUFFICES ASSUME NEW r, NEW base, NEW n0 \in Nat, ~\E f : Laying(f, r, base, n0) PROVE FALSE
  OBVIOUS
<1> DEFINE failing == {n \in Nat : ~\E f : Laying(f, r, base, n)}
<1>1. PICK n \in failing : \A m \in failing : n <= m
  <2>1. failing \in SUBSET Nat /\ n0 \in failing
    OBVIOUS
  <2> HIDE DEF failing
  <2> QED
    BY <2>1, Least
<1>2. n \in Nat /\ ~\E f : Laying(f, r, base, n)
  OBVIOUS
<1>3. CASE n = 0
  <2> DEFINE f == [k \in 0..0 |-> [on |-> TRUE, scenes |-> base]]
  <2>1. Laying(f, r, base, 0)
    BY DEF Laying
  <2> QED
    BY <1>2, <1>3, <2>1
<1>4. CASE n > 0
  <2>1. n - 1 \in Nat /\ n - 1 \notin failing
    BY <1>1, <1>4
  <2>2. PICK g : Laying(g, r, base, n - 1)
    BY <2>1
  <2>3. \A k \in 0..n - 1 : g[k] = IF k = 0 THEN [on |-> TRUE, scenes |-> base] ELSE Lay(r, g[k - 1], k)
    BY <2>2 DEF Laying
  <2> DEFINE f == [k \in 0..n |-> IF k = n THEN Lay(r, g[n - 1], n) ELSE g[k]]
             h == [k \in 0..n |-> IF k = 0 THEN [on |-> TRUE, scenes |-> base] ELSE Lay(r, f[k - 1], k)]
  <2>4. ASSUME NEW k \in 0..n PROVE f[k] = h[k]
    <3>1. CASE k = n
      <4>1. f[n - 1] = g[n - 1] /\ k # 0
        BY <1>4, <2>1, <3>1
      <4> QED
        BY <3>1, <4>1
    <3>2. CASE k = 0
      <4>1. 0 \in 0..n - 1 /\ 0 \in 0..n /\ n # 0
        BY <1>4, <2>1
      <4>2. f[0] = g[0] /\ g[0] = [on |-> TRUE, scenes |-> base] /\ h[0] = [on |-> TRUE, scenes |-> base]
        BY <2>3, <4>1
      <4> QED
        BY <3>2, <4>2
    <3>3. CASE k \in 1..n - 1
      <4>1. f[k] = g[k] /\ f[k - 1] = g[k - 1]
        BY <2>1, <3>3
      <4>2. g[k] = Lay(r, g[k - 1], k)
        BY <2>1, <2>3, <3>3
      <4> QED
        BY <2>1, <3>3, <4>1, <4>2
    <3> QED
      BY <2>1, <3>1, <3>2, <3>3
  <2>5. f = h
    BY <2>4
  <2> QED
    BY <1>2, <2>5 DEF Laying
<1> QED
  BY <1>2, <1>3, <1>4

LEMMA LaidIs ==
  ASSUME NEW r, NEW base, IsSeq(base), IsSeq(runs[r].calls)
  PROVE  IsSeq(Laid(r, base)) /\ \A ref \in Elements(Laid(r, base)) : ref \in Elements(base) \/ ref[1] = r
<1> DEFINE n == Len(runs[r].calls)
<1>1. n \in Nat
  BY SeqFacts
<1>2. PICK f : Laying(f, r, base, n) /\ Laid(r, base) = f[n].scenes
  <2> DEFINE F == CHOOSE f : Laying(f, r, base, n)
  <2>1. Laying(F, r, base, n)
    BY <1>1, LayingExists
  <2>2. Laid(r, base) = F[n].scenes
    BY DEF Laid, Laying
  <2> QED
    BY <2>1, <2>2
<1> HIDE DEF n
<1>3. \A k \in 0..n : f[k] = IF k = 0 THEN [on |-> TRUE, scenes |-> base] ELSE Lay(r, f[k - 1], k)
  BY <1>2 DEF Laying
<1> DEFINE wrong == {k \in 0..n : ~IsLaid(f[k], r, base)}
<1>4. wrong = {}
  <2>1. SUFFICES ASSUME wrong # {} PROVE FALSE
    OBVIOUS
  <2>2. PICK k \in wrong : \A m \in wrong : k <= m
    <3>1. wrong \in SUBSET Nat
      BY <1>1
    <3> HIDE DEF wrong
    <3> QED
      BY <2>1, <3>1, Least
  <2>3. k \in 0..n /\ ~IsLaid(f[k], r, base)
    OBVIOUS
  <2>4. CASE k = 0
    <3>1. f[k] = [on |-> TRUE, scenes |-> base]
      BY <1>1, <1>3, <2>4
    <3>2. IsLaid(f[k], r, base)
      BY <3>1 DEF IsLaid
    <3> QED
      BY <2>3, <3>2
  <2>5. CASE k # 0
    <3>1. k - 1 \in 0..n /\ k - 1 \notin wrong
      BY <1>1, <2>2, <2>3, <2>5
    <3>2. IsLaid(f[k - 1], r, base) /\ f[k] = Lay(r, f[k - 1], k)
      BY <1>3, <2>3, <2>5, <3>1
    <3> QED
      BY <2>3, <3>2, LayStep
  <2> QED
    BY <2>4, <2>5
<1>5. IsLaid(f[n], r, base)
  BY <1>1, <1>4
<1> QED
  BY <1>2, <1>5 DEF IsLaid

-----------------------------------------------------------------------------
(* A run.                                                                   *)

LEMMA CheckpointIs ==
  ASSUME LInv
  PROVE  /\ IsSeq(Checkpoint.scenes)
         /\ \A z \in DOMAIN markers : markers[z].action = "reset" =>
              \A ref \in MarkerRefs(Checkpoint) : ref[1] > markers[z].at
<1>1. CASE markers = <<>> \/ Last(markers).action = "reset"
  <2>1. Checkpoint.scenes = <<>> /\ Checkpoint.draft.by = "nothing" /\ Checkpoint.draft.from = <<>>
    BY <1>1 DEF Checkpoint, NoMarker, NoText
  <2>2. IsSeq(<<>>) /\ Elements(<<>>) = {}
    BY DEF IsSeq, Elements
  <2> QED
    BY <2>1, <2>2 DEF MarkerRefs, TextRefs
<1>2. CASE ~(markers = <<>> \/ Last(markers).action = "reset")
  <2>1. /\ Len(markers) \in Nat /\ DOMAIN markers = 1..Len(markers) /\ Len(markers) # 0
        /\ Checkpoint = markers[Len(markers)] /\ markers[Len(markers)].action # "reset"
    BY <1>2, SeqFacts DEF LInv, Ordered, Checkpoint, Last
  <2>2. IsSeq(Checkpoint.scenes)
    BY <2>1 DEF LInv, Ordered
  <2>3. ASSUME NEW z \in DOMAIN markers, markers[z].action = "reset", NEW ref \in MarkerRefs(Checkpoint)
        PROVE  ref[1] > markers[z].at
    <3>1. Len(markers) \in z + 1..Len(markers)
      BY <2>1, <2>3
    <3> QED
      BY <2>1, <2>3, <3>1 DEF LInv, Afresh
  <2> QED
    BY <2>2, <2>3
<1> QED
  BY <1>1, <1>2

LEMMA PrefixIs ==
  ASSUME LInv
  PROVE  IsSeq(Prefix) /\ Elements(Prefix) \subseteq Elements(Checkpoint.scenes)
<1> DEFINE s == Checkpoint.scenes
           good == {n \in 0..Len(s) : \A i \in 1..n : Fits(s[i], i)}
<1>1. IsSeq(s) /\ Len(s) \in Nat
  BY CheckpointIs, SeqFacts
<1>2. Max(good) \in 0..Len(s)
  <2>1. good \subseteq 0..Len(s) /\ 0 \in good
    BY <1>1
  <2> HIDE DEF good
  <2> QED
    BY <1>1, <2>1, MaxIn
<1>3. Prefix = SubSeq(s, 1, Max(good))
  BY DEF Prefix
<1> HIDE DEF s, good
<1> QED
  BY <1>1, <1>2, <1>3, SubSeqFacts DEF s

\* The run that is running goes on, fails or commits: it names what it named, and its own calls.
LEMMA RunStep ==
  ASSUME LInv, Running, NEW new, IsRun(new), new.base = run.base, Update(new), UNCHANGED markers,
         \A ref \in RunRefs(new) : ref \in RunRefs(run) \/ ref[1] = this
  PROVE  LInv'
<1>1. /\ Len(runs) \in Nat /\ DOMAIN runs = 1..Len(runs) /\ this \in 1..Len(runs) /\ this = Len(runs)
      /\ run = runs[this]
  BY SeqFacts DEF LInv, Ordered, Running, this, run
<1>2. /\ IsSeq(runs') /\ Len(runs') = Len(runs) /\ DOMAIN runs' = DOMAIN runs /\ runs'[this] = new
      /\ \A r \in DOMAIN runs : r # this => runs'[r] = runs[r]
  <2>1. IsSeq(runs) /\ runs' = Replaced(runs, this, new)
    BY DEF LInv, Ordered, Update, Replaced
  <2>2. /\ IsSeq(runs') /\ Len(runs') = Len(runs)
        /\ \A j \in 1..Len(runs) : runs'[j] = IF j = this THEN new ELSE runs[j]
    BY <2>1, ExceptFacts
  <2>3. DOMAIN runs' = 1..Len(runs)
    BY <2>2, SeqFacts
  <2> QED
    BY <1>1, <2>2, <2>3
<1>3. \A z \in DOMAIN markers : markers[z].at \in 0..Len(runs) /\ markers[z].at < Len(runs)
  BY <1>1 DEF LInv, Ordered
<1>4. this' = this /\ Discarded' = Discarded
  BY <1>1, <1>2 DEF this, Discarded
<1>5. Ordered'
  <2>1. \A r \in DOMAIN runs' : IsRun(runs'[r]) /\ (runs'[r].status = "running" => r = this')
    BY <1>1, <1>2, <1>4 DEF LInv, Ordered
  <2>2. \A z \in DOMAIN markers : markers[z].at \in 0..this' /\ markers[z].at < this'
    BY <1>1, <1>3, <1>4
  <2>3. \A r \in DOMAIN runs' : runs'[r].base \in 0..Len(markers)
    BY <1>1, <1>2 DEF LInv, Ordered
  <2> QED
    BY <1>2, <2>1, <2>2, <2>3 DEF LInv, Ordered, IsSeq
<1>6. Forgetting'
  <2> SUFFICES ASSUME NEW z \in DOMAIN markers, markers[z].action = "reset"
               PROVE  /\ \A r \in 1..markers[z].at : runs'[r].status = "killed" \/ r \in Discarded
                      /\ \A r \in DOMAIN runs : runs'[r].base >= z => r > markers[z].at
    BY <1>2, <1>4 DEF Forgetting
  <2>1. \A r \in 1..markers[z].at : r \in DOMAIN runs /\ r # this
    <3> DEFINE a == markers[z].at
               n == Len(runs)
    <3>1. n \in Nat /\ a \in 0..n /\ a < n /\ this = n /\ DOMAIN runs = 1..n
      BY <1>1, <1>3
    <3> HIDE DEF a, n
    <3>2. \A r \in 1..a : r \in 1..n /\ r # n
      BY <3>1
    <3> QED
      BY <3>1, <3>2 DEF a
  <2>2. \A r \in DOMAIN runs : runs'[r].base = runs[r].base
    BY <1>1, <1>2
  <2> QED
    BY <1>2, <2>1, <2>2 DEF LInv, Forgetting
<1>7. Afresh'
  <2> SUFFICES ASSUME NEW z \in DOMAIN markers, markers[z].action = "reset"
               PROVE  \A r \in DOMAIN runs : r > markers[z].at => \A ref \in RunRefs(runs'[r]) : ref[1] > markers[z].at
    BY <1>2 DEF LInv, Afresh
  <2>1. this > markers[z].at /\ \A ref \in RunRefs(run) : ref[1] > markers[z].at
    BY <1>1, <1>3 DEF LInv, Afresh
  <2>2. \A ref \in RunRefs(new) : ref[1] > markers[z].at
    BY <2>1
  <2> QED
    BY <1>2, <2>2 DEF LInv, Afresh
<1> QED
  BY <1>5, <1>6, <1>7 DEF LInv

LEMMA ThisRun ==
  ASSUME LInv, Running
  PROVE  IsRun(run) /\ this \in Nat
BY SeqFacts DEF LInv, Ordered, Running, run, this

\* The scene in hand and the text are all that is replaced by most steps.
LEMMA ScenesSteps ==
  ASSUME LInv, TakeRecovered \/ RequestScene \/ Boundary \/ Merge
  PROVE  LInv'
<1>1. Running /\ UNCHANGED markers
  BY DEF TakeRecovered, RequestScene, Boundary, Merge, Drafting, Rest
<1>2. IsRun(run) /\ this \in Nat
  BY <1>1, ThisRun
<1>3. IsSeq(<<>>) /\ \A e : IsSeq(Append(run.calls, e))
  <2>1. IsSeq(<<>>)
    BY DEF IsSeq
  <2>2. IsSeq(run.calls)
    BY <1>2 DEF IsRun
  <2> QED
    BY <2>1, <2>2, SeqFacts
<1>4. CASE TakeRecovered
  <2> DEFINE new == [run EXCEPT !.scene = run.given[NextScene]]
  <2>1. /\ {"given", "held", "text", "scene", "base", "status", "calls"} \subseteq DOMAIN new
        /\ new = [f \in DOMAIN new |-> new[f]] /\ new.given = run.given /\ new.held = run.held
        /\ new.base = run.base /\ new.calls = run.calls /\ new.text = run.text
        /\ new.scene = run.given[NextScene]
    BY <1>2 DEF IsRun
  <2>2. run.given[NextScene] \in Elements(run.given)
    BY <1>2, <1>4, SeqFacts DEF IsRun, TakeRecovered, NextScene, Elements
  <2>3. Update(new)
    BY <1>4 DEF TakeRecovered
  <2> HIDE DEF new
  <2>4. IsRun(new) /\ RunRefs(new) \subseteq RunRefs(run)
    BY <1>2, <2>1, <2>2 DEF IsRun, RunRefs
  <2> QED
    BY <1>1, <2>1, <2>3, <2>4, RunStep
<1>5. CASE RequestScene
  <2> DEFINE new == NewCall("scene", NextScene, FALSE)
  <2>1. /\ {"given", "held", "text", "scene", "base", "status", "calls"} \subseteq DOMAIN new
        /\ new = [f \in DOMAIN new |-> new[f]] /\ new.given = run.given /\ new.held = run.held
        /\ new.base = run.base /\ IsSeq(new.calls) /\ new.text = run.text /\ new.scene = run.scene
    BY <1>2, <1>3 DEF IsRun, NewCall
  <2>3. Update(new)
    BY <1>5 DEF RequestScene
  <2> HIDE DEF new
  <2>4. IsRun(new) /\ RunRefs(new) \subseteq RunRefs(run)
    BY <1>2, <2>1 DEF IsRun, RunRefs
  <2> QED
    BY <1>1, <2>1, <2>3, <2>4, RunStep
<1>6. CASE Boundary
  <2>1. PICK new : /\ Update(new)
                   /\ \/ new = [run EXCEPT !.held = Append(@, run.scene), !.scene = NoScene, !.retried = FALSE]
                      \/ new = [NewCall("scene", NextScene, TRUE) EXCEPT !.retried = TRUE]
                      \/ new = FailedRun(run)
    BY <1>6 DEF Boundary
  <2>2. /\ {"given", "held", "text", "scene", "base", "status", "calls"} \subseteq DOMAIN new
        /\ new = [f \in DOMAIN new |-> new[f]] /\ new.given = run.given
        /\ new.base = run.base /\ IsSeq(new.calls) /\ new.text = run.text
        /\ \/ new.held = Append(run.held, run.scene) /\ new.scene = NoScene
           \/ new.held = run.held /\ new.scene = run.scene
    <3>1. CASE new = [run EXCEPT !.held = Append(@, run.scene), !.scene = NoScene, !.retried = FALSE]
      BY <1>2, <3>1 DEF IsRun
    <3>2. CASE new = [NewCall("scene", NextScene, TRUE) EXCEPT !.retried = TRUE]
      BY <1>2, <1>3, <3>2 DEF IsRun, NewCall
    <3>3. CASE new = FailedRun(run)
      BY <1>2, <3>3 DEF IsRun, FailedRun
    <3> QED
      BY <2>1, <3>1, <3>2, <3>3
  <2>3. run.scene # NoScene /\ IsSeq(Append(run.held, run.scene))
        /\ Elements(Append(run.held, run.scene)) = Elements(run.held) \cup {run.scene}
    BY <1>2, <1>6, SeqFacts DEF IsRun, Boundary
  <2>4. IsRun(new) /\ RunRefs(new) \subseteq RunRefs(run)
    BY <1>2, <2>2, <2>3 DEF IsRun, RunRefs
  <2> QED
    BY <1>1, <2>1, <2>2, <2>4, RunStep
<1>7. CASE Merge
  <2> DEFINE new == [run EXCEPT !.text = [by |-> "merge", from |-> run.held], !.stage = "merge", !.merged = TRUE]
  <2>1. /\ {"given", "held", "text", "scene", "base", "status", "calls"} \subseteq DOMAIN new
        /\ new = [f \in DOMAIN new |-> new[f]] /\ new.given = run.given /\ new.held = run.held
        /\ new.base = run.base /\ new.calls = run.calls /\ new.scene = run.scene
        /\ new.text = [by |-> "merge", from |-> run.held]
    BY <1>2 DEF IsRun
  <2>3. Update(new)
    BY <1>7 DEF Merge
  <2> HIDE DEF new
  <2>4. IsRun(new) /\ RunRefs(new) \subseteq RunRefs(run)
    BY <1>2, <2>1 DEF IsRun, RunRefs, TextRefs
  <2> QED
    BY <1>1, <2>1, <2>3, <2>4, RunStep
<1> QED
  BY <1>4, <1>5, <1>6, <1>7

\* An answer is filed with the call that waits for it.
LEMMA ReceiveIs ==
  ASSUME LInv, Running, NEW state, NEW fits
  PROVE  /\ {"given", "held", "text", "scene", "base", "status", "calls"} \subseteq DOMAIN Receive(state, fits)
         /\ Receive(state, fits) = [f \in DOMAIN Receive(state, fits) |-> Receive(state, fits)[f]]
         /\ Receive(state, fits).given = run.given /\ Receive(state, fits).held = run.held
         /\ Receive(state, fits).base = run.base /\ Receive(state, fits).text = run.text
         /\ Receive(state, fits).scene = run.scene /\ IsSeq(Receive(state, fits).calls)
<1> DEFINE new == Receive(state, fits)
           n == Len(run.calls)
           c == Replaced(run.calls, n, [run.calls[n] EXCEPT !.state = state])
<1>1. IsRun(run)
  BY ThisRun
<1>2. /\ {"given", "held", "text", "scene", "base", "status", "calls"} \subseteq DOMAIN new
      /\ DOMAIN new = DOMAIN run /\ new = [f \in DOMAIN new |-> new[f]] /\ new.given = run.given /\ new.held = run.held
      /\ new.base = run.base /\ new.text = run.text /\ new.scene = run.scene
  BY <1>1 DEF IsRun, Receive
<1>3. new.calls = Replaced(c, n, [c[n] EXCEPT !.fits = fits])
  BY <1>1 DEF IsRun, Receive, Replaced
<1>4. IsSeq(new.calls)
  <2>1. IsSeq(run.calls)
    BY <1>1 DEF IsRun
  <2>2. IsSeq(c)
    BY <2>1, ExceptFacts
  <2> HIDE DEF c
  <2> QED
    BY <1>3, <2>2, ExceptFacts
<1> HIDE DEF new
<1> QED
  BY <1>2, <1>4 DEF new

LEMMA TextSteps ==
  ASSUME LInv, PolishText \/ Commit \/ RepairText \/ Interrupt \/ Kill
  PROVE  LInv'
<1>1. Running /\ UNCHANGED markers
  BY DEF PolishText, Commit, RepairText, Interrupt, Kill, Validated, Rest
<1>2. IsRun(run) /\ this \in Nat /\ \A e : IsSeq(Append(run.calls, e))
  BY <1>1, ThisRun, SeqFacts DEF IsRun
<1>3. PICK new : /\ Update(new)
                 /\ \/ new = NewCall("claude_polish", 0, FALSE)
                    \/ new = [run EXCEPT !.status = "committed"]
                    \/ new = [NewCall("scene_repair", 0, FALSE) EXCEPT !.repairs = @ + 1]
                    \/ new = FailedRun(run)
                    \/ new = [run EXCEPT !.status = "killed"]
  BY DEF PolishText, Commit, RepairText, Interrupt, Kill
<1>4. /\ {"given", "held", "text", "scene", "base", "status", "calls"} \subseteq DOMAIN new
      /\ new = [f \in DOMAIN new |-> new[f]] /\ new.given = run.given /\ new.held = run.held
      /\ new.base = run.base /\ IsSeq(new.calls) /\ new.text = run.text /\ new.scene = run.scene
  <2>1. CASE new = NewCall("claude_polish", 0, FALSE)
    BY <1>2, <2>1 DEF IsRun, NewCall
  <2>2. CASE new = [run EXCEPT !.status = "committed"] \/ new = FailedRun(run) \/ new = [run EXCEPT !.status = "killed"]
    BY <1>2, <2>2 DEF IsRun, FailedRun
  <2>3. CASE new = [NewCall("scene_repair", 0, FALSE) EXCEPT !.repairs = @ + 1]
    BY <1>2, <2>3 DEF IsRun, NewCall
  <2> QED
    BY <1>3, <2>1, <2>2, <2>3
<1>5. IsRun(new) /\ RunRefs(new) \subseteq RunRefs(run)
  BY <1>2, <1>4 DEF IsRun, RunRefs
<1> QED
  BY <1>1, <1>3, <1>4, <1>5, RunStep

\* What an answer to a polish or a repair makes of the run.
Revised(got, kind) == [got EXCEPT !.text = [by |-> kind, from |-> <<Newest>>], !.stage = kind]

LEMMA AnswerSteps ==
  ASSUME LInv, AnswerCall \/ Refuse \/ AnswerUnused
  PROVE  LInv'
<1>1. Running /\ UNCHANGED markers
  BY DEF AnswerCall, Refuse, AnswerUnused, Rest
<1>2. IsRun(run) /\ this \in Nat
  BY <1>1, ThisRun
<1>3. PICK new, got, fits, state, kind :
        /\ Update(new) /\ got = Receive(state, fits)
        /\ \/ new = [got EXCEPT !.scene = Newest]
           \/ new = Revised(got, kind)
           \/ new = FailedRun(got)
           \/ new = [FailedRun(got) EXCEPT !.scene = Newest]
  <2>1. CASE AnswerCall
    <3>1. CASE Last(run.calls).kind = "scene"
      BY <2>1, <3>1 DEF AnswerCall
    <3>2. CASE Last(run.calls).kind # "scene"
      <4>1. Update(Revised(Receive("answered", "fits"), Last(run.calls).kind))
        BY <2>1, <3>2 DEF AnswerCall, Revised
      <4> QED
        BY <4>1
    <3> QED
      BY <3>1, <3>2
  <2>2. CASE Refuse
    BY <2>2 DEF Refuse
  <2>3. CASE AnswerUnused
    BY <2>3 DEF AnswerUnused
  <2> QED
    BY <2>1, <2>2, <2>3
<1>4. /\ {"given", "held", "text", "scene", "base", "status", "calls"} \subseteq DOMAIN got
      /\ got = [f \in DOMAIN got |-> got[f]] /\ got.given = run.given /\ got.held = run.held
      /\ got.base = run.base /\ IsSeq(got.calls) /\ got.text = run.text /\ got.scene = run.scene
  BY <1>1, <1>3, ReceiveIs
<1>5. Newest[1] = this /\ Elements(<<Newest>>) = {Newest}
  BY DEF Newest, Elements
<1>6. /\ {"given", "held", "text", "scene", "base", "status", "calls"} \subseteq DOMAIN new
      /\ new = [f \in DOMAIN new |-> new[f]] /\ new.given = run.given /\ new.held = run.held
      /\ new.base = run.base /\ IsSeq(new.calls)
      /\ new.scene \in {run.scene, Newest} /\ new.text \in {run.text, [by |-> kind, from |-> <<Newest>>]}
  <2>1. CASE new = [got EXCEPT !.scene = Newest]
    BY <1>4, <2>1
  <2>2. CASE new = Revised(got, kind)
    BY <1>4, <2>2 DEF Revised
  <2>3. CASE new = FailedRun(got) \/ new = [FailedRun(got) EXCEPT !.scene = Newest]
    BY <1>4, <2>3 DEF FailedRun
  <2> QED
    BY <1>3, <2>1, <2>2, <2>3
<1>7. IsRun(new) /\ \A ref \in RunRefs(new) : ref \in RunRefs(run) \/ ref[1] = this
  <2>1. IsRun(new)
    BY <1>2, <1>6 DEF IsRun
  <2>2. TextRefs(new.text) \subseteq TextRefs(run.text) \cup {Newest}
    BY <1>5, <1>6 DEF TextRefs
  <2>3. RunRefs(new) \subseteq RunRefs(run) \cup {Newest}
    BY <1>6, <2>2 DEF RunRefs
  <2> QED
    BY <1>5, <2>1, <2>3
<1> QED
  BY <1>1, <1>3, <1>6, <1>7, RunStep

\* A new run names what the checkpoint hands it.
LEMMA StartStep ==
  ASSUME LInv, Start
  PROVE  LInv'
<1> DEFINE new == [plan |-> outline, calls |-> <<>>, given |-> Prefix, base |-> Len(markers),
                   held |-> <<>>, scene |-> NoScene, retried |-> FALSE,
                   text |-> Checkpoint.draft, stage |-> Checkpoint.stage, repairs |-> 0,
                   merged |-> FALSE, status |-> "running"]
<1>1. /\ runs' = Append(runs, new) /\ UNCHANGED markers /\ ~Running
      /\ IsSeq(runs) /\ IsSeq(markers) /\ Len(runs) \in Nat /\ Len(markers) \in Nat
      /\ DOMAIN runs = 1..Len(runs) /\ DOMAIN markers = 1..Len(markers)
  BY SeqFacts DEF Start, LInv, Ordered
<1>2. /\ IsSeq(runs') /\ Len(runs') = Len(runs) + 1 /\ DOMAIN runs' = 1..Len(runs) + 1
      /\ runs'[Len(runs) + 1] = new /\ \A r \in DOMAIN runs : runs'[r] = runs[r]
  BY <1>1, SeqFacts
<1>3. IsSeq(<<>>) /\ Elements(<<>>) = {}
  BY DEF IsSeq, Elements
<1>4. IsRun(new) /\ new.base = Len(markers) /\ RunRefs(new) \subseteq MarkerRefs(Checkpoint)
  BY <1>3, PrefixIs DEF IsRun, RunRefs, MarkerRefs, NoScene
<1> HIDE DEF new
<1>5. this = Len(runs) /\ this' = Len(runs) + 1 /\ Discarded' = Discarded
  BY <1>1, <1>2 DEF this, Discarded
<1>6. \A z \in DOMAIN markers : markers[z].at \in 0..Len(runs)
  BY <1>5 DEF LInv, Ordered
<1>7. Ordered'
  <2>1. \A r \in DOMAIN runs' : IsRun(runs'[r]) /\ (runs'[r].status = "running" => r = this')
    <3>1. \A r \in DOMAIN runs : runs[r].status # "running"
      BY <1>1, <1>5 DEF LInv, Ordered, Running, run
    <3>2. \A r \in DOMAIN runs : IsRun(runs[r])
      BY DEF LInv, Ordered
    <3> QED
      BY <1>1, <1>2, <1>4, <1>5, <3>1, <3>2
  <2>2. \A z \in DOMAIN markers : markers[z].at \in 0..this' /\ markers[z].at < this'
    BY <1>1, <1>5, <1>6
  <2>3. \A r \in DOMAIN runs' : runs'[r].base \in 0..Len(markers)
    BY <1>1, <1>2, <1>4 DEF LInv, Ordered
  <2> QED
    BY <1>1, <1>2, <2>1, <2>2, <2>3 DEF LInv, Ordered, IsSeq
<1>8. Forgetting'
  <2> SUFFICES ASSUME NEW z \in DOMAIN markers, markers[z].action = "reset"
               PROVE  /\ \A r \in 1..markers[z].at : runs'[r].status = "killed" \/ r \in Discarded
                      /\ \A r \in DOMAIN runs' : runs'[r].base >= z => r > markers[z].at
    BY <1>1, <1>5 DEF Forgetting
  <2>1. \A r \in 1..markers[z].at : r \in DOMAIN runs
    BY <1>1, <1>6
  <2>2. Len(runs) + 1 > markers[z].at
    BY <1>1, <1>6
  <2>3. \A r \in DOMAIN runs : runs[r].base >= z => r > markers[z].at
    BY DEF LInv, Forgetting
  <2> QED
    BY <1>1, <1>2, <2>1, <2>2, <2>3 DEF LInv, Forgetting
<1>9. Afresh'
  <2> SUFFICES ASSUME NEW z \in DOMAIN markers, markers[z].action = "reset"
               PROVE  \A r \in DOMAIN runs' : r > markers[z].at => \A ref \in RunRefs(runs'[r]) : ref[1] > markers[z].at
    BY <1>1 DEF LInv, Afresh
  <2>1. \A ref \in RunRefs(new) : ref[1] > markers[z].at
    BY <1>4, CheckpointIs
  <2> QED
    BY <1>1, <1>2, <2>1 DEF LInv, Afresh
<1> QED
  BY <1>7, <1>8, <1>9 DEF LInv

-----------------------------------------------------------------------------
(* A recovery.                                                              *)

\* The source of a recovery has a record, and no reset has forgotten it.
LEMMA SourceIs ==
  ASSUME LInv, NEW mode, NEW r \in Sources(mode)
  PROVE  /\ r \in DOMAIN runs /\ IsRun(runs[r])
         /\ \A z \in DOMAIN markers : markers[z].action = "reset" => r > markers[z].at
<1>1. Len(runs) \in Nat /\ DOMAIN runs = 1..Len(runs) /\ this = Len(runs)
  BY SeqFacts DEF LInv, Ordered, this
<1>2. \A S : S \subseteq DOMAIN runs /\ S # {} => Max(S) \in S
  <2> SUFFICES ASSUME NEW S, S \subseteq DOMAIN runs, S # {} PROVE Max(S) \in S
    OBVIOUS
  <2>1. S \subseteq 0..Len(runs)
    BY <1>1
  <2> QED
    BY <1>1, <2>1, MaxIn
<1>3. r \in OnRecord
  <2>1. CASE Unresolved # {}
    <3>1. Unresolved \subseteq OnRecord /\ r = Max(Unresolved) /\ Unresolved \subseteq DOMAIN runs
      BY <2>1 DEF Sources, Unresolved
    <3> QED
      BY <1>2, <2>1, <3>1
  <2>2. CASE Unresolved = {} /\ mode = "reset" /\ Checkpoint # NoMarker
    BY <2>2 DEF Sources
  <2>3. CASE Unresolved = {} /\ ~(mode = "reset" /\ Checkpoint # NoMarker)
    <3>1. Terminal # {} /\ r = Max(Terminal) /\ Terminal \subseteq OnRecord /\ OnRecord \subseteq DOMAIN runs
      BY <2>3 DEF Sources, Terminal, OnRecord
    <3> QED
      BY <1>2, <3>1
  <2> QED
    BY <2>1, <2>2, <2>3
<1>4. r \in DOMAIN runs /\ runs[r].status # "killed" /\ r \notin Discarded
  BY <1>3 DEF OnRecord
<1>5. ASSUME NEW z \in DOMAIN markers, markers[z].action = "reset" PROVE r > markers[z].at
  <2>1. markers[z].at \in Nat /\ r \in Nat /\ r > 0
    BY <1>1, <1>4 DEF LInv, Ordered
  <2>2. r \notin 1..markers[z].at
    BY <1>4, <1>5 DEF LInv, Forgetting
  <2> QED
    BY <2>1, <2>2
<1> QED
  BY <1>4, <1>5 DEF LInv, Ordered

\* What a recovery takes over comes from its source and from the checkpoint it knows.
LEMMA TakenOver ==
  ASSUME LInv, NEW r \in DOMAIN runs
  PROVE  /\ IsSeq(Persisted(r)) /\ IsSeq(Recovered(r))
         /\ Elements(Persisted(r)) \subseteq RunRefs(runs[r])
         /\ \A ref \in Elements(Recovered(r)) : ref \in MarkerRefs(Checkpoint) \/ ref[1] = r
         /\ \A ref \in TextRefs(DraftOf(r)) : ref \in RunRefs(runs[r]) \/ ref[1] = r
<1>1. IsRun(runs[r]) /\ IsSeq(Checkpoint.scenes)
  BY CheckpointIs DEF LInv, Ordered
<1>2. IsSeq(<<>>) /\ Elements(<<>>) = {}
  BY DEF IsSeq, Elements
<1>3. IsSeq(Persisted(r)) /\ Elements(Persisted(r)) \subseteq RunRefs(runs[r])
  BY <1>1, <1>2 DEF Persisted, IsRun, RunRefs
<1>4. /\ IsSeq(Recovered(r))
      /\ \A ref \in Elements(Recovered(r)) : ref \in MarkerRefs(Checkpoint) \/ ref[1] = r
  BY <1>1, LaidIs DEF Recovered, IsRun, MarkerRefs
<1>5. \A ref \in TextRefs(Transformed(r)) : ref[1] = r
  <2>1. PICK k, t : Transformed(r) = NoText \/ Transformed(r) = [by |-> t, from |-> <<<<r, k>>>>]
    BY DEF Transformed
  <2>2. CASE Transformed(r) = NoText
    BY <1>2, <2>2 DEF NoText, TextRefs
  <2>3. CASE Transformed(r) = [by |-> t, from |-> <<<<r, k>>>>]
    <3>1. Elements(<<<<r, k>>>>) = {<<r, k>>}
      BY DEF Elements
    <3> QED
      BY <2>3, <3>1 DEF TextRefs
  <2> QED
    BY <2>1, <2>2, <2>3
<1>6. TextRefs(NoText) = {} /\ TextRefs(runs[r].text) \subseteq RunRefs(runs[r])
  BY <1>2 DEF NoText, TextRefs, RunRefs
<1> QED
  BY <1>3, <1>4, <1>5, <1>6 DEF DraftOf

LEMMA WriteStep ==
  ASSUME LInv, NEW mode, NEW r \in Sources(mode), Write(mode, r), ~Running, ~Committed, UNCHANGED runs
  PROVE  LInv'
<1> DEFINE scenes == IF Persisted(r) # <<>> THEN Persisted(r) ELSE Recovered(r)
           last == Len(markers) + 1
<1>1. /\ IsSeq(runs) /\ IsSeq(markers) /\ Len(runs) \in Nat /\ Len(markers) \in Nat /\ this = Len(runs)
      /\ DOMAIN runs = 1..Len(runs) /\ DOMAIN markers = 1..Len(markers)
  BY SeqFacts DEF LInv, Ordered, this
<1>2. PICK m :
        /\ markers' = Append(markers, m) /\ m.at = this
        /\ m.action = "reset" => m.discarded = Forgotten
        /\ m.scenes \in {<<>>, scenes} /\ (m.draft \in {NoText, DraftOf(r)} \/ m.draft.by = "operator")
  BY DEF Write, Manual
<1>3. /\ IsSeq(markers') /\ Len(markers') = last /\ DOMAIN markers' = 1..last
      /\ markers'[last] = m /\ \A z \in DOMAIN markers : markers'[z] = markers[z]
  BY <1>1, <1>2, SeqFacts
<1>4. IsSeq(<<>>) /\ Elements(<<>>) = {} /\ TextRefs(NoText) = {}
  BY DEF IsSeq, Elements, TextRefs, NoText
<1>5. IsSeq(m.scenes)
  BY <1>2, <1>4, SourceIs, TakenOver
<1>6. \A ref \in MarkerRefs(m) : ref \in RunRefs(runs[r]) \/ ref[1] = r \/ ref \in MarkerRefs(Checkpoint)
  <2>1. \A ref \in Elements(m.scenes) : ref \in RunRefs(runs[r]) \/ ref[1] = r \/ ref \in MarkerRefs(Checkpoint)
    BY <1>2, <1>4, SourceIs, TakenOver
  <2>2. \A ref \in TextRefs(m.draft) : ref \in RunRefs(runs[r]) \/ ref[1] = r
    <3>1. CASE m.draft.by = "operator"
      BY <3>1 DEF TextRefs
    <3>2. CASE m.draft \in {NoText, DraftOf(r)}
      BY <1>4, <3>2, SourceIs, TakenOver
    <3> QED
      BY <1>2, <3>1, <3>2
  <2> QED
    BY <2>1, <2>2 DEF MarkerRefs
<1> HIDE DEF scenes
<1>7. Ordered'
  <2>1. this' = this /\ ~Running'
    BY DEF this, run, Running
  <2>2. \A z \in DOMAIN markers' : IsSeq(markers'[z].scenes) /\ markers'[z].at \in 0..this
    BY <1>1, <1>2, <1>3, <1>5 DEF LInv, Ordered
  <2>3. \A x \in DOMAIN runs : runs[x].base \in 0..last
    BY <1>1 DEF LInv, Ordered
  <2>4. \A x \in DOMAIN runs : IsRun(runs[x]) /\ (runs[x].status = "running" => x = this)
    BY DEF LInv, Ordered
  <2> QED
    BY <1>1, <1>3, <2>1, <2>2, <2>3, <2>4 DEF Ordered, IsSeq, IsRun
<1>8. Discarded \subseteq Discarded' /\ (m.action = "reset" => Forgotten \subseteq Discarded')
  BY <1>1, <1>2, <1>3 DEF Discarded, ToSet
<1>9. Forgetting'
  <2> SUFFICES ASSUME NEW z \in DOMAIN markers', markers'[z].action = "reset"
               PROVE  /\ \A x \in 1..markers'[z].at : runs[x].status = "killed" \/ x \in Discarded'
                      /\ \A x \in DOMAIN runs : runs[x].base >= z => x > markers'[z].at
    BY DEF Forgetting
  <2>1. CASE z \in DOMAIN markers
    BY <1>3, <1>8, <2>1 DEF LInv, Forgetting
  <2>2. CASE z = last
    <3>1. markers'[z] = m /\ m.action = "reset"
      BY <1>3, <2>2
    <3>2. ASSUME NEW x \in DOMAIN runs PROVE runs[x].status = "killed" \/ x \in Discarded'
      <4>1. runs[x].status \notin {"running", "committed"}
        BY <1>1 DEF LInv, Ordered, Running, Committed, run
      <4>2. CASE x \in Discarded
        BY <1>8, <4>2
      <4>3. CASE x \notin Discarded /\ runs[x].status # "killed"
        BY <1>8, <3>1, <4>1, <4>3 DEF Forgotten, OnRecord
      <4> QED
        BY <4>2, <4>3
    <3>3. \A x \in DOMAIN runs : runs[x].base \in 0..Len(markers)
      BY DEF LInv, Ordered
    <3> QED
      BY <1>1, <1>2, <2>2, <3>1, <3>2, <3>3
  <2> QED
    BY <1>1, <1>3, <2>1, <2>2
<1>10. Afresh'
  <2> SUFFICES ASSUME NEW z \in DOMAIN markers', markers'[z].action = "reset"
               PROVE  /\ \A i \in z + 1..last : \A ref \in MarkerRefs(markers'[i]) : ref[1] > markers'[z].at
                      /\ \A x \in DOMAIN runs : x > markers'[z].at => \A ref \in RunRefs(runs[x]) : ref[1] > markers'[z].at
    BY <1>3 DEF Afresh, RunRefs, TextRefs, Elements, MarkerRefs
  <2>1. CASE z = last
    <3>1. \A x \in DOMAIN runs : ~(x > markers'[z].at)
      BY <1>1, <1>2, <1>3, <2>1
    <3> QED
      BY <1>1, <2>1, <3>1
  <2>2. CASE z \in DOMAIN markers
    <3>1. markers'[z] = markers[z] /\ markers[z].action = "reset"
      BY <1>3, <2>2
    <3>2. \A ref \in RunRefs(runs[r]) : ref[1] > markers[z].at
      BY <2>2, <3>1, SourceIs DEF LInv, Afresh
    <3>3. \A ref \in MarkerRefs(m) : ref[1] > markers[z].at
      BY <1>6, <2>2, <3>1, <3>2, SourceIs, CheckpointIs
    <3>4. \A i \in z + 1..Len(markers) : \A ref \in MarkerRefs(markers'[i]) : ref[1] > markers[z].at
      BY <1>1, <1>3, <2>2, <3>1 DEF LInv, Afresh
    <3>5. \A i \in z + 1..last : i = last \/ i \in z + 1..Len(markers)
      BY <1>1, <2>2
    <3>6. \A i \in z + 1..last : \A ref \in MarkerRefs(markers'[i]) : ref[1] > markers[z].at
      BY <1>3, <3>3, <3>4, <3>5
    <3>7. \A x \in DOMAIN runs : x > markers[z].at => \A ref \in RunRefs(runs[x]) : ref[1] > markers[z].at
      BY <2>2, <3>1 DEF LInv, Afresh
    <3> QED
      BY <3>1, <3>6, <3>7
  <2> QED
    BY <1>1, <1>3, <2>1, <2>2
<1> QED
  BY <1>7, <1>9, <1>10 DEF LInv

LEMMA LockedNextInv ==
  ASSUME LInv, [LockedNext]_lockedVars
  PROVE  LInv'
<1>1. CASE UNCHANGED <<runs, markers>>
  BY <1>1 DEF LInv, Ordered, Forgetting, Afresh, Discarded, this, run, Running, IsSeq, IsRun, RunRefs, TextRefs, Elements,
     MarkerRefs
<1>2. CASE ChangePlan \/ UNCHANGED lockedVars
  BY <1>1, <1>2 DEF ChangePlan, lockedVars
<1>3. CASE Start
  BY <1>3, StartStep
<1>4. CASE TakeRecovered \/ RequestScene \/ Boundary \/ Merge
  BY <1>4, ScenesSteps
<1>5. CASE PolishText \/ Commit \/ RepairText \/ Interrupt \/ Kill
  BY <1>5, TextSteps
<1>6. CASE AnswerCall \/ Refuse \/ AnswerUnused
  BY <1>6, AnswerSteps
<1>7. ASSUME NEW mode \in {"plain", "reset", "manual"}, Recover(mode)
      PROVE  LInv'
  <2>1. \/ \E r \in Sources(mode) : Write(mode, r)
        \/ UNCHANGED markers
    BY <1>7 DEF Recover
  <2>2. ~Running /\ ~Committed /\ UNCHANGED runs
    BY <1>7 DEF Recover
  <2> QED
    BY <1>1, <2>1, <2>2, WriteStep
<1> QED
  BY <1>2, <1>3, <1>4, <1>5, <1>6, <1>7 DEF LockedNext

\* Nothing that was generated before a reset comes back: no checkpoint written after it names a call
\* of a run from before, and no run that knows the reset is handed one.
THEOREM ResetsForget == LockedSpec => []NeverResurrected
<1>1. LockedInit => LInv
  <2> SUFFICES ASSUME LockedInit PROVE LInv
    OBVIOUS
  <2>1. runs = <<>> /\ markers = <<>> /\ IsSeq(<<>>) /\ ~Running
    BY DEF LockedInit, IsSeq, Running, this
  <2> QED
    BY <2>1 DEF LInv, Ordered, Forgetting, Afresh
<1>2. LInv /\ [LockedNext]_lockedVars => LInv'
  BY LockedNextInv
<1>3. LInv => NeverResurrected
  <2> SUFFICES ASSUME LInv, NEW z \in DOMAIN markers, markers[z].action = "reset"
               PROVE  /\ \A i \in z + 1..Len(markers) : \A r \in Sourced(markers[i]) : r > markers[z].at
                      /\ \A r \in DOMAIN runs : runs[r].base >= z =>
                           \A i \in DOMAIN runs[r].given : runs[r].given[i][1] > markers[z].at
    BY DEF NeverResurrected
  <2>1. \A i \in z + 1..Len(markers) : \A r \in Sourced(markers[i]) : \E ref \in MarkerRefs(markers[i]) : r = ref[1]
    BY DEF Sourced, MarkerRefs, TextRefs, Elements
  <2>2. \A r \in DOMAIN runs : \A i \in DOMAIN runs[r].given : runs[r].given[i] \in RunRefs(runs[r])
    BY DEF RunRefs, Elements
  <2>3. \A i \in z + 1..Len(markers) : \A ref \in MarkerRefs(markers[i]) : ref[1] > markers[z].at
    BY DEF LInv, Afresh
  <2>4. \A r \in DOMAIN runs : runs[r].base >= z => r > markers[z].at
    BY DEF LInv, Forgetting
  <2>5. \A r \in DOMAIN runs : r > markers[z].at => \A ref \in RunRefs(runs[r]) : ref[1] > markers[z].at
    BY DEF LInv, Afresh
  <2> QED
    BY <2>1, <2>2, <2>3, <2>4, <2>5
<1> QED
  BY <1>1, <1>2, <1>3, PTL DEF LockedSpec
=============================================================================
