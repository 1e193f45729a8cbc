----------------------------- MODULE ChapterRun -----------------------------
(***************************************************************************)
(* One execution of a chapter: NovelAgentExecutor._run_once_impl, with the *)
(* workflow the Director chose, the repair loop, the runtime review and    *)
(* its own repair loop, the final integrity gate, the quality decision and *)
(* the record the run leaves.                                              *)
(*                                                                         *)
(* A text is a number: every call of a model may return a new one or one   *)
(* seen before.  A verdict on a text is the set of problems a validator    *)
(* reported, chosen afresh by every call; an integrity report is the text  *)
(* it was made for and whether it found something blocking.  What is kept  *)
(* is which verdict, review and report the run carries next to which text. *)
(***************************************************************************)
EXTENDS Naturals, Sequences, FiniteSets

CONSTANTS
  Problems,         \* what validators report
  Advisory,         \* the problems that do not block
  Severity,         \* Problems -> 1..4, 4 is critical
  Workflows,        \* the action lists a Director answers with
  Configs,          \* configurations of the executor, see Config
  MaxRepairs,       \* largest repair budget a Director grants
  MaxTexts          \* bound: texts the models return

None == 0
Integrity == "integrity"     \* the problem a blocking integrity report adds
Found == Problems \cup {Integrity}

Statuses == {"pass", "warning", "needs_revision", "blocked", "error"}
Rank == [s \in Statuses |->
           CASE s = "pass" -> 0 [] s = "warning" -> 1 [] s = "needs_revision" -> 2
             [] s = "blocked" -> 3 [] s = "error" -> 4]

(* review: the review runs; gate: its threshold; reviewRepairs: attempts of *)
(* the review's repair loop, 0 when it is off; lenient: the policy blocks   *)
(* on blocking findings only; writeback: the prose is canonicalized;        *)
(* persist: the run may commit.                                             *)
Config == [review: BOOLEAN, gate: {"off", "needs_revision", "blocked"},
           reviewRepairs: Nat, lenient: BOOLEAN, writeback: BOOLEAN, persist: BOOLEAN]

ASSUME ConfigAssumption ==
  /\ IsFiniteSet(Problems) /\ Integrity \notin Problems
  /\ Workflows \subseteq Seq(STRING)
  /\ Configs \subseteq Config
  /\ \A c \in Configs : c.gate # "off" \/ c.reviewRepairs > 0 => c.review
  /\ Advisory \subseteq Problems
  /\ Severity \in [Problems -> 1..4]
  /\ MaxRepairs \in Nat /\ MaxTexts \in Nat

VARIABLES
  pc,           \* "idle", "workflow", "repair", "revalidate", "review", "finish", "done"
  config,       \* the executor's configuration
  plan,         \* actions of the workflow still to run
  budget,       \* decision["max_repair_attempts"]
  fresh,        \* texts returned so far
  text,         \* state["chapter"]
  validation,   \* state["validation"]: the text it judged and the problems
  attempts,     \* state["repair_attempts"]
  reviews,      \* attempts of the review's repair loop
  history,      \* state["repair_validation_history"]
  best,         \* the best validated text and its verdict
  reports,      \* integrity reports by stage
  review,       \* the review of the text, or no review
  record        \* the record the run left

vars == <<pc, config, plan, budget, fresh, text, validation, attempts,
          reviews, history, best, reports, review, record>>

Verdict == [of: 1..MaxTexts, problems: SUBSET Found]
NoVerdict == [of |-> None, problems |-> {}]
NoReview == [of |-> None, status |-> "pass"]
Reports == [stage: {"merge", "polish", "repair"}, of: 1..MaxTexts, blocking: BOOLEAN]
NoRecord == [status |-> "none", reason |-> "none", text |-> None, source |-> None,
             validation |-> NoVerdict, review |-> NoReview, attempts |-> 0]

-----------------------------------------------------------------------------
(* workflow.py: the plan a decision is turned into *)

Before(w, a, b) == \A i \in DOMAIN w : w[i] = b => \E j \in 1..i - 1 : w[j] = a
After(w, late, early) ==
  \A i, j \in DOMAIN w : w[i] \in early /\ w[j] \in late => i < j

Actions == {"build_snapshot", "pre_validate_bridge", "generate_chapter", "polish",
            "validate", "repair_if_needed", "commit_snapshot"}
Early == {"build_snapshot", "pre_validate_bridge"}
Late == {"validate", "repair_if_needed", "commit_snapshot"}

ValidWorkflow(w) ==
  /\ \A i \in DOMAIN w : w[i] \in Actions
  /\ \A i, j \in DOMAIN w : w[i] = w[j] => i = j
  /\ {"generate_chapter", "validate"} \subseteq {w[i] : i \in DOMAIN w}
  /\ Before(w, "build_snapshot", "pre_validate_bridge")
  /\ \A a \in {"polish"} \cup Late : Before(w, "generate_chapter", a)
  /\ \A a \in {"repair_if_needed", "commit_snapshot"} : Before(w, "validate", a)
  /\ After(w, {"generate_chapter"}, Early)
  /\ After(w, {"validate"}, Early \cup {"generate_chapter", "polish"})

-----------------------------------------------------------------------------
(* repair_convergence.py *)

SeverityOf(p) == IF p = Integrity THEN 4 ELSE Severity[p]
Blocks(p) == p \notin Advisory
Ok(found) == \A p \in found : ~Blocks(p)
Worst(found) == CHOOSE s \in 0..4 : /\ \A p \in found : SeverityOf(p) <= s
                                    /\ s = 0 \/ \E p \in found : SeverityOf(p) = s

(* compare_validation_checkpoints *)
Converges(before, after) ==
  \/ Ok(after)
  \/ /\ Cardinality(after) < Cardinality(before)
     /\ \A p \in after \ before : SeverityOf(p) < 4 /\ SeverityOf(p) <= Worst(before)

CountOf(found, s) == Cardinality({p \in found : SeverityOf(p) = s})

(* validation_quality_score: smaller is better *)
Score(found) ==
  <<IF Ok(found) THEN 0 ELSE 1, CountOf(found, 4), CountOf(found, 3), CountOf(found, 2),
    Cardinality({p \in found : Blocks(p)}), Cardinality(found)>>
Better(f, g) ==
  \E i \in 1..6 : /\ Score(f)[i] < Score(g)[i]
                  /\ \A j \in 1..i - 1 : Score(f)[j] = Score(g)[j]

(* _record_repair_validation: the verdict joins the history unless it is   *)
(* the last one again, and the best is kept.                               *)
Recorded(v) ==
  IF history # <<>> /\ history[Len(history)] = v
  THEN UNCHANGED <<history, best>>
  ELSE /\ history' = Append(history, v)
       /\ best' = IF best = NoVerdict \/ Better(v.problems, best.problems) THEN v ELSE best

LastConverges(h) ==
  \A i \in 2..Len(h) : i = Len(h) => Converges(h[i - 1].problems, h[i].problems)

-----------------------------------------------------------------------------
(* texts and reports *)

(* A model's answer: a text seen before or the next new one. *)
Answer(t) == t \in 1..fresh + 1 /\ t <= MaxTexts /\ fresh' = IF t > fresh THEN t ELSE fresh

(* _record_integrity_transition: one report per stage, the last one. *)
Reported(stage, t, blocking) ==
  reports' = {r \in reports : r.stage # stage}
               \cup {[stage |-> stage, of |-> t, blocking |-> blocking]}

(* The report of the last transformation, which validation merges. *)
Active(stage) == {r \in reports : r.stage = stage}

(* FinalArtifactIntegrityGate.evaluate: a report is about the text it was  *)
(* made for, and a blocking one condemns that text.                        *)
Suspect(t) == \E r \in reports : r.of = t /\ r.blocking

Leave(rec) == pc' = "done" /\ record' = rec

(* build_failed_run_record: what a failing step leaves when the run persists. *)
Failed(reason, t, v) ==
  Leave(IF config.persist
        THEN [NoRecord EXCEPT !.status = "failed", !.reason = reason, !.text = t,
                              !.source = t, !.validation = v, !.attempts = attempts]
        ELSE [NoRecord EXCEPT !.reason = reason])

(* The records of a run that got no workflow hold no chapter and no verdict. *)
Undirected(reason) == Failed(reason, None, NoVerdict)

Next1(a) == pc = "workflow" /\ plan # <<>> /\ plan[1] = a
Done1 == plan' = Tail(plan)

-----------------------------------------------------------------------------
(* the Director and the plan *)

Direct ==
  /\ pc = "idle"
  /\ \E w \in Workflows, b \in 0..MaxRepairs :
       /\ ValidWorkflow(w)
       /\ plan' = w /\ budget' = b
  /\ pc' = "workflow"
  /\ UNCHANGED <<config, fresh, text, validation, attempts, reviews, history, best,
                 reports, review, record>>

(* The Director raised, or its actions make no workflow. *)
DirectFails ==
  /\ pc = "idle"
  /\ \/ Undirected("director_error")
     \/ /\ \E w \in Workflows : ~ValidWorkflow(w)
        /\ Undirected("workflow_error")
  /\ UNCHANGED <<config, plan, budget, fresh, text, validation, attempts, reviews,
                 history, best, reports, review>>

-----------------------------------------------------------------------------
(* the workflow's actions *)

(* build_snapshot, commit_snapshot, and a bridge that holds *)
Mark ==
  /\ \E a \in {"build_snapshot", "pre_validate_bridge", "commit_snapshot"} : Next1(a)
  /\ plan[1] = "commit_snapshot" => validation # NoVerdict
  /\ Done1
  /\ UNCHANGED <<pc, config, budget, fresh, text, validation, attempts, reviews, history,
                 best, reports, review, record>>

(* An action of the workflow raises: the run is recorded with the chapter  *)
(* and the validation it holds.                                            *)
ActionFails ==
  /\ pc = "workflow" /\ plan # <<>>
  /\ plan[1] \in {"pre_validate_bridge", "generate_chapter", "polish", "validate"}
  /\ plan[1] = "generate_chapter" => text = None
  /\ Failed("action_error", text, validation)
  /\ UNCHANGED <<config, plan, budget, fresh, text, validation, attempts, reviews,
                 history, best, reports, review>>

Generate ==
  /\ Next1("generate_chapter") /\ Done1
  /\ text = None
  /\ \E t \in 1..MaxTexts, b \in BOOLEAN :
       Answer(t) /\ text' = t /\ Reported("merge", t, b)
  /\ validation' = NoVerdict
  /\ UNCHANGED <<pc, config, budget, attempts, reviews, history, best, review, record>>

(* A complete draft a recovery handed in is taken as it is, and so is its  *)
(* polish, see PolishSkipped.                                              *)
DraftKept ==
  /\ Next1("generate_chapter") /\ Done1
  /\ text # None
  /\ validation' = NoVerdict
  /\ UNCHANGED <<pc, config, budget, fresh, text, attempts, reviews, history, best,
                 reports, review, record>>

Polish ==
  /\ Next1("polish") /\ Done1
  /\ \E t \in 1..MaxTexts, b \in BOOLEAN :
       Answer(t) /\ text' = t /\ Reported("polish", t, b)
  /\ validation' = NoVerdict
  /\ UNCHANGED <<pc, config, budget, attempts, reviews, history, best, review, record>>

(* The polishing model failed, or a recovered draft was polished before:   *)
(* the run goes on with the text as it was.                                *)
PolishSkipped ==
  /\ Next1("polish") /\ Done1
  /\ text # None
  /\ validation' = NoVerdict
  /\ UNCHANGED <<pc, config, budget, fresh, text, attempts, reviews, history, best,
                 reports, review, record>>

(* merge_integrity_report_into_validation: what blocks in a report is one  *)
(* problem more among the validator's.                                     *)
Merged(found, report) == found \cup {Integrity : r \in {s \in report : s.blocking}}

(* _handle_validate: the validator's problems, with the integrity of the   *)
(* text when the last report is about this very text.                      *)
Verdicts(stages) ==
  LET last == {r \in reports : r.stage \in stages /\ r.of = text}
  IN {[of |-> text, problems |-> Merged(found, last)] : found \in SUBSET Problems}

Judged(stages) == \E v \in Verdicts(stages) : validation' = v /\ Recorded(v)

LastStage == IF Active("polish") = {} THEN {"merge"} ELSE {"polish"}

Validate ==
  /\ Next1("validate") /\ Done1
  /\ Judged(LastStage)
  /\ UNCHANGED <<pc, config, budget, fresh, text, attempts, reviews, reports, review, record>>

(* repair_if_needed with nothing to do: a good text or no budget. *)
RepairSkipped ==
  /\ Next1("repair_if_needed") /\ Done1
  /\ Ok(validation.problems) \/ budget = 0
  /\ UNCHANGED <<pc, config, budget, fresh, text, validation, attempts, reviews, history,
                 best, reports, review, record>>

RepairNeeded ==
  /\ Next1("repair_if_needed") /\ Done1
  /\ ~Ok(validation.problems) /\ budget > 0
  /\ pc' = "repair"
  /\ UNCHANGED <<config, budget, fresh, text, validation, attempts, reviews, history,
                 best, reports, review, record>>

Repair ==
  /\ pc = "repair"
  /\ ~Ok(validation.problems) /\ attempts < budget
  /\ LastConverges(history)
  /\ \E t \in 1..MaxTexts, b \in BOOLEAN :
       Answer(t) /\ text' = t /\ Reported("repair", t, b)
  /\ attempts' = attempts + 1
  /\ pc' = "revalidate"
  /\ UNCHANGED <<config, plan, budget, reviews, validation, history, best, review, record>>

RepairFails ==
  /\ pc \in {"repair", "revalidate"}
  /\ Failed("action_error", text, validation)
  /\ UNCHANGED <<config, plan, budget, fresh, text, validation, attempts, reviews,
                 history, best, reports, review>>

Revalidate ==
  /\ pc = "revalidate"
  /\ Judged({"repair"})
  /\ LastConverges(history')
  /\ pc' = IF ~Ok(validation'.problems) /\ attempts < budget THEN "repair" ELSE "workflow"
  /\ UNCHANGED <<config, plan, budget, fresh, text, attempts, reviews, reports, review, record>>

(* _raise_if_repair_not_converging: the best text comes back with its      *)
(* verdict, and the run fails.                                             *)
NotConvergingKeepsLast ==
  /\ pc = "revalidate"
  /\ Judged({"repair"})
  /\ ~LastConverges(history')
  /\ Failed("not_converging", text, validation')
  /\ UNCHANGED <<config, plan, budget, fresh, text, attempts, reviews, reports, review>>

NotConverging ==
  /\ pc = "revalidate"
  /\ \E v \in Verdicts({"repair"}) : Recorded(v)
  /\ ~LastConverges(history')
  /\ text' = best'.of /\ validation' = best'
  /\ Failed("not_converging", text', validation')
  /\ UNCHANGED <<config, plan, budget, fresh, attempts, reviews, reports, review>>

-----------------------------------------------------------------------------
(* quality decision, review and its repair *)

GateAllows(r) ==
  config.gate # "off" => r # NoReview /\ Rank[r.status] < Rank[config.gate]

(* build_quality_decision: blocking problems, and the review when the      *)
(* policy includes it; an erroneous review is a missing producer.          *)
Accepts(found, r) ==
  /\ Ok(found)
  /\ config.review =>
       /\ r # NoReview
       /\ Rank[r.status] < (IF config.lenient THEN Rank["blocked"] ELSE Rank["needs_revision"])

(* The workflow is over: a text the validators reject is not reviewed. *)
Judge ==
  /\ pc = "workflow" /\ plan = <<>>
  /\ \/ /\ ~Ok(validation.problems) \/ ~config.review
        /\ pc' = "finish" /\ UNCHANGED review
     \/ /\ Ok(validation.problems) /\ config.review
        /\ \E s \in Statuses : review' = [of |-> text, status |-> s]
        /\ pc' = "review"
  /\ UNCHANGED <<config, plan, budget, fresh, text, validation, attempts, reviews,
                 history, best, reports, record>>

ReviewSettled ==
  \/ reviews = config.reviewRepairs
  \/ review.status = "error"
  \/ Accepts(validation.problems, review) /\ GateAllows(review)

(* One attempt of run_review_repair_loop.  The                               *)
(* repaired text, its verdict and its review are taken over together.      *)
ReviewRepairOldVerdict ==
  /\ pc = "review" /\ ~ReviewSettled
  /\ \E t \in 1..MaxTexts, s \in Statuses :
       /\ Answer(t)
       /\ text' = t
       /\ review' = [of |-> t, status |-> s]
  /\ reviews' = reviews + 1
  /\ UNCHANGED <<pc, config, plan, budget, validation, attempts, history, best, reports, record>>

ReviewRepair ==
  /\ pc = "review" /\ ~ReviewSettled
  /\ \E t \in 1..MaxTexts, found \in SUBSET Problems, s \in Statuses :
       /\ Answer(t)
       /\ text' = t
       /\ validation' = [of |-> t, problems |-> found]
       /\ review' = [of |-> t, status |-> s]
  /\ reviews' = reviews + 1
  /\ UNCHANGED <<pc, config, plan, budget, attempts, history, best, reports, record>>

(* The attempt raised, or its text failed the integrity gate: the loop     *)
(* ends with what it had.                                                  *)
ReviewRepairFails ==
  /\ pc = "review" /\ ~ReviewSettled
  /\ pc' = "finish"
  /\ UNCHANGED <<config, plan, budget, fresh, text, validation, attempts, reviews,
                 history, best, reports, review, record>>

ReviewEnds ==
  /\ pc = "review" /\ ReviewSettled
  /\ pc' = "finish"
  /\ UNCHANGED <<config, plan, budget, fresh, text, validation, attempts, reviews,
                 history, best, reports, review, record>>

-----------------------------------------------------------------------------
(* canonicalization, the final gates and the record *)

Carried(source, t) == Suspect(source) \/ Suspect(t)

(* What persisting an accepted chapter ends with: a dry-run writeback       *)
(* leaves a preview, a blocked plan or a failed preparation a failed        *)
(* record, and event authority raises without a record.                     *)
Outcomes == {"committed", "prepare_failed", "none"}
              \cup (IF config.writeback THEN {"preview"} ELSE {})

Finish ==
  /\ pc = "finish"
  /\ \E t \in 1..MaxTexts, gate \in BOOLEAN, delta \in SUBSET Problems :
       /\ config.writeback \/ t = text
       /\ Answer(t) /\ t \in {text, fresh + 1}
       /\ LET blocking == gate \/ Carried(text, t)
              found == validation.problems \cup delta
                         \cup (IF blocking THEN {Integrity} ELSE {})
              v == [validation EXCEPT !.problems = found]
              accepted == Accepts(found, review) /\ GateAllows(review)
              rec == [NoRecord EXCEPT !.text = t, !.source = text, !.validation = v,
                                      !.review = review, !.attempts = attempts]
          IN \/ /\ ~accepted
                /\ Leave(IF config.persist THEN [rec EXCEPT !.status = "rejected"] ELSE rec)
             \/ /\ accepted /\ ~config.persist
                /\ Leave([rec EXCEPT !.status = "preview"])
             \/ /\ accepted /\ config.persist
                /\ \E s \in Outcomes :
                     Leave(IF s = "none" THEN [NoRecord EXCEPT !.reason = "persistence_error"]
                           ELSE [rec EXCEPT !.status = s])
             \/ /\ accepted
                /\ Failed("analysis_error", t, NoVerdict)
  /\ UNCHANGED <<config, plan, budget, text, validation, attempts, reviews, history, best,
                 reports, review>>

-----------------------------------------------------------------------------
(* A run starts with no text, or with the draft of its checkpoint. *)
Init ==
  /\ pc = "idle" /\ config \in Configs
  /\ plan = <<>> /\ budget = 0 /\ text \in {None, 1} \cap 0..MaxTexts /\ fresh = text
  /\ validation = NoVerdict /\ attempts = 0 /\ reviews = 0 /\ history = <<>> /\ best = NoVerdict
  /\ reports = {} /\ review = NoReview /\ record = NoRecord

Next ==
  \/ Direct \/ DirectFails \/ Mark \/ ActionFails
  \/ Generate \/ DraftKept \/ Polish \/ PolishSkipped \/ Validate
  \/ RepairSkipped \/ RepairNeeded \/ Repair \/ RepairFails \/ Revalidate \/ NotConverging
  \/ Judge \/ ReviewRepair \/ ReviewRepairFails \/ ReviewEnds
  \/ Finish

Spec == Init /\ [][Next]_vars

-----------------------------------------------------------------------------
(* Properties *)

(* Every variable keeps its shape and a run repairs no more often than the *)
(* Director allowed.                                                       *)
TypeOK ==
  /\ pc \in {"idle", "workflow", "repair", "revalidate", "review", "finish", "done"}
  /\ config \in Configs
  /\ plan \in Seq(Actions) /\ budget \in 0..MaxRepairs
  /\ fresh \in 0..MaxTexts /\ text \in 0..fresh
  /\ validation \in Verdict \cup {NoVerdict} /\ best \in Verdict \cup {NoVerdict}
  /\ attempts \in 0..budget /\ reviews \in 0..config.reviewRepairs
  /\ history \in Seq(Verdict) /\ reports \subseteq Reports
  /\ review \in [of: 0..MaxTexts, status: Statuses]

Judgeable == {"committed", "prepare_failed", "preview", "rejected"}
Publishable == {"committed", "prepare_failed", "preview"}

(* The verdict and the review a record carries were made for its text, the *)
(* one before canonicalization: polishing, repairs and review repairs each *)
(* replace the three together, however the calls between them fail.        *)
JudgedTogether ==
  record.status \in Judgeable =>
    /\ record.validation.of = record.source
    /\ record.review = NoReview \/ record.review.of = record.source

(* A blocking finding about the step that made a text (a polish or repair  *)
(* that lost prose, say) cannot be seen in the text alone: it follows the  *)
(* text through canonicalization, and such a text is never accepted.       *)
NoForgottenFinding ==
  record.status \in Publishable =>
    \A r \in reports : r.of \in {record.source, record.text} => ~r.blocking

(* With a review gate, what is accepted was reviewed and its status is     *)
(* below the threshold, whatever the aggregate quality policy tolerates.   *)
PublishedPassesGate ==
  record.status \in Publishable /\ config.gate # "off" =>
    /\ record.review.of = record.source
    /\ Rank[record.review.status] < Rank[config.gate]

(* "The failed run preserves the best validated draft seen in the current  *)
(* repair loop": no verdict of the run scores better than the record's,    *)
(* and that verdict is about the text recorded.                            *)
BestTextKept ==
  record.reason = "not_converging" /\ record.status = "failed" =>
    /\ record.validation.of = record.text
    /\ \A i \in DOMAIN history :
         ~Better(history[i].problems, record.validation.problems)

(* A workflow that ends with problems ends with the fewest any verdict     *)
(* counted: a repair that made things worse is never what is judged.       *)
FewestProblems ==
  pc = "workflow" /\ plan = <<>> /\ ~Ok(validation.problems) =>
    \A i \in DOMAIN history :
      Cardinality(validation.problems) <= Cardinality(history[i].problems)

(* "If a repair leaves the problem count unchanged ... the run stops ...   *)
(* instead of spending another model call."                                *)
StopsWhenStuck ==
  [][pc = "revalidate" /\ pc' = "repair" =>
       Cardinality(validation'.problems) < Cardinality(validation.problems)]_vars

(* What is published was judged together with its review, carries no       *)
(* forgotten finding and passes the gate.                                  *)
PublishedAsJudged == JudgedTogether /\ NoForgottenFinding /\ PublishedPassesGate

(* A run that ends keeps its best text, and with the fewest problems any   *)
(* verdict counted.                                                        *)
BestIsKept == BestTextKept /\ FewestProblems
=============================================================================
