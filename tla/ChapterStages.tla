---------------------------- MODULE ChapterStages ----------------------------
(***************************************************************************)
(* The stages of the chapters of one autonomous session, over runs that    *)
(* stop anywhere: the outline checkpoint of a chapter                      *)
(* (core/autonomy/outline.py), the receipts and outputs of its stages      *)
(* (receipts.py, runtime.py, core/stage_control.py), its publication and   *)
(* completion (runner.py), and the targets of the arc, into which what a   *)
(* chapter left open is carried (arc.py).  The lease and the session's     *)
(* commands are those of AutonomySession: here one runner works.           *)
(*                                                                         *)
(* A write that later loads roll forward (a marked receipt, a marked       *)
(* checkpoint, a revision ahead of its head) is done when its marker is:   *)
(* nothing reads the store before the roll forward.  What lies unmarked    *)
(* beside a receipt is never read again, its name holds a time; the        *)
(* unmarked checkpoint has a name without one, and is kept.                *)
(*                                                                         *)
(* A hash is what it is of.  A target is how often a result was carried    *)
(* into it, and a text of the author's or the arc's is [by, n].            *)
(***************************************************************************)
EXTENDS Integers, Sequences, SequencesExt

CONSTANTS
    ChapterCount, \* requested_chapter_count
    Versions,     \* what the author may write
    ModelTexts,   \* what a model may answer
    Flawed,       \* <<before, text>>: the texts the integrity gate blocks, 0 before a draft
    MaxRepairs,   \* max_repair_attempts
    MaxRuns,      \* bound on runs of the session
    MaxEdits      \* bound on edits by the author

StagesAssumption ==
    /\ ChapterCount \in Nat \ {0} /\ MaxRepairs \in Nat /\ MaxRuns \in Nat /\ MaxEdits \in Nat
    /\ Versions \subseteq Nat \ {0} /\ ModelTexts \subseteq Nat \ {0}

VARIABLES
    folder,     \* the outlines and the other files of the StoryProject
    edits,      \* edits so far
    targets,    \* arc_plans: [carried, fulfilled] of every chapter
    staged,     \* outline_checkpoints/<chapter>/staged: checkpoints by what they are made from
    marked,     \* the checkpoints with a commit marker, the latest last
    chain,      \* stage_receipts/<chapter>
    outputs,    \* stage_outputs/<chapter>
    published,  \* publication receipts with their evidence
    completions,\* completion receipts
    run,        \* what the runner is doing
    runs        \* runs so far

stageVars == <<folder, edits, targets, staged, marked, chain, outputs, published, completions, run, runs>>

Book == 1 .. ChapterCount
Missing == [by |-> "nobody", n |-> 0]
Outlines == {Missing} \union {[by |-> "author", n |-> v] : v \in Versions}

\* What a stage is given, with the verdict a repair is asked to answer; what it answers, where a
\* patch is the text it makes of the one it was given; and its receipt.
Input(ground, text, verdict) == [ground |-> ground, text |-> text, verdict |-> verdict]
Answer(text, ok) == [text |-> text, ok |-> ok]
Receipt(stage, input, output, succeeded) ==
    [stage |-> stage, input |-> input, output |-> output, succeeded |-> succeeded]

\* _capture_source_snapshot_from_args: every Markdown file, and the authority's head.
Snapshot == [files |-> folder, head |-> Len(published)]
NoSnapshot == [files |-> [outlines |-> [c \in Book |-> Missing], notes |-> 0], head |-> 0]

NoCheckpoint == [scope |-> [target |-> 0, base |-> NoSnapshot, before |-> Missing], text |-> Missing, at |-> 0]
NoGround == [outline |-> Missing, notes |-> 0, head |-> 0]
\* The validation a repair is given, and the attempt its plan is made for
Verdict(ok, sound, attempt) == [ok |-> ok, sound |-> sound, attempt |-> attempt]
NoVerdict == Verdict(FALSE, FALSE, 0)

\* A target of build_run_arc_plan
Open == [carried |-> 0, fulfilled |-> "open"]

Resting == [at |-> "idle", chapter |-> 0, base |-> NoSnapshot, checkpoint |-> NoCheckpoint, ground |-> NoGround,
         cursor |-> 0, stage |-> "outline", text |-> 0, from |-> 0, verdict |-> NoVerdict, repairs |-> 0]

StagesInit ==
    /\ folder \in [outlines : [Book -> Outlines], notes : Versions] /\ edits = 0
    /\ targets = [c \in Book |-> Open]
    /\ staged = [c \in Book |-> {}] /\ marked = [c \in Book |-> <<>>]
    /\ chain = [c \in Book |-> <<>>] /\ outputs = [c \in Book |-> {}]
    /\ published = <<>> /\ completions = <<[target |-> 0, after |-> Snapshot]>>
    /\ run = Resting /\ runs = 0

-----------------------------------------------------------------------------
(* The author edits, and a run ends: at an exception, or with its process. *)

AuthorEdits ==
    /\ edits < MaxEdits /\ edits' = edits + 1
    /\ \/ \E v \in Versions \ {folder.notes} : folder' = [folder EXCEPT !.notes = v]
       \/ \E c \in Len(published) + 1 .. ChapterCount, o \in Outlines :
             o # folder.outlines[c] /\ folder' = [folder EXCEPT !.outlines[c] = o]
    /\ UNCHANGED <<targets, staged, marked, chain, outputs, published, completions, run, runs>>

Stop ==
    /\ run.at # "idle" /\ run' = Resting
    /\ UNCHANGED <<folder, edits, targets, staged, marked, chain, outputs, published, completions, runs>>

-----------------------------------------------------------------------------
(* Between chapters (runner.py).                                           *)

\* The completions of the ledger; its first entry is the plan's snapshot.
Done == Len(completions) - 1
CompleteWith(publication) == completions' = Append(completions, [target |-> publication.target, after |-> Snapshot])

\* _recover_committed_boundary: a chapter the last run published and did not record.  The command
\* then waits for a fence it holds itself, and raises (AutonomySession.Boundary).
Resume ==
    /\ run.at = "idle" /\ runs < MaxRuns /\ runs' = runs + 1
    /\ IF Done < Len(published) THEN CompleteWith(Last(published)) /\ UNCHANGED run
       ELSE run' = [run EXCEPT !.at = "fulfil"] /\ UNCHANGED completions
    /\ UNCHANGED <<folder, edits, targets, staged, marked, chain, outputs, published>>

\* record_fulfillment is replayed for every completion; the recorded ones match.
Owing(c) == c <= Done /\ targets[c].fulfilled = "open"
\* What a chapter leaves open goes into the next target only.
Carried(c) ==
    IF c > 1 /\ Owing(c - 1) /\ published[c - 1].gap
    THEN targets[c].carried + 1 ELSE targets[c].carried

\* _reconcile_arc_fulfillment, _record_arc_fulfillment
Fulfil ==
    /\ run.at = "fulfil"
    /\ \A c \in 1 .. Done : completions[c + 1].target = targets[c].carried
    /\ targets' = [c \in Book |->
         [carried |-> Carried(c),
          fulfilled |-> IF Owing(c) THEN IF published[c].gap THEN "gap" ELSE "met"
                        ELSE targets[c].fulfilled]]
    /\ run' = [run EXCEPT !.at = "check"]
    /\ UNCHANGED <<folder, edits, staged, marked, chain, outputs, published, completions, runs>>

\* _drive: the sources must be those the last completion left.
Check ==
    /\ run.at = "check"
    /\ IF Done = ChapterCount THEN run' = Resting
       ELSE /\ Snapshot = Last(completions).after
            /\ run' = [run EXCEPT !.at = "outline", !.chapter = Done + 1, !.base = Snapshot]
    /\ UNCHANGED <<folder, edits, targets, staged, marked, chain, outputs, published, completions, runs>>

-----------------------------------------------------------------------------
(* The outline of a chapter (runner.py:_prepare_outline, outline.py).      *)

Chapter == run.chapter
\* What the checkpoint is made from; the file is read now.
Scope == [target |-> targets[Chapter].carried, base |-> run.base, before |-> folder.outlines[Chapter]]
\* render_arc_outline when the author has none
OutlineText(scope) == IF scope.before = Missing THEN [by |-> "arc", n |-> scope.target] ELSE scope.before
Checkpoint(scope) == [scope |-> scope, text |-> OutlineText(scope), at |-> runs]

\* derive_outline_readiness; the target must be open.
OutlineReady ==
    /\ run.at = "outline" /\ targets[Chapter].fulfilled = "open"
    /\ run.base.head = Len(published) /\ run.base = Last(completions).after

\* The checkpoint a load finds once it has rolled the markers forward
LatestOutline == Last(marked[Chapter])
Reusable == marked[Chapter] # <<>> /\ LatestOutline.scope = Scope

ReuseOutline ==
    /\ OutlineReady /\ Reusable
    /\ run' = [run EXCEPT !.at = "record", !.checkpoint = LatestOutline]
    /\ UNCHANGED <<folder, edits, targets, staged, marked, chain, outputs, published, completions, runs>>

\* OutlineCheckpointStore.create: one checkpoint of every scope, staged and then marked.
StageOutline ==
    /\ OutlineReady /\ ~Reusable
    /\ \A k \in staged[Chapter] : k.scope # Scope
    /\ staged' = [staged EXCEPT ![Chapter] = @ \union {Checkpoint(Scope)}]
    /\ run' = [run EXCEPT !.at = "mark", !.checkpoint = Checkpoint(Scope)]
    /\ UNCHANGED <<folder, edits, targets, marked, chain, outputs, published, completions, runs>>

MarkOutline ==
    /\ run.at = "mark"
    /\ marked' = [marked EXCEPT ![Chapter] = Append(@, run.checkpoint)]
    /\ run' = [run EXCEPT !.at = "record"]
    /\ UNCHANGED <<folder, edits, targets, staged, chain, outputs, published, completions, runs>>

\* _validate_autonomy_stage_chain: what may come after a stage, if it succeeded
After == [outline |-> "scene_plan", scene_plan |-> "draft", draft |-> "polish", polish |-> "validator",
          validator |-> "repair", repair |-> "validator"]
Extends(r) ==
    IF chain[Chapter] = <<>> THEN r.stage = "outline"
    ELSE Last(chain[Chapter]).succeeded /\ r.stage = After[Last(chain[Chapter]).stage]
\* StageReceiptStore.append
Appended(r) == Extends(r) /\ chain' = [chain EXCEPT ![Chapter] = Append(@, r)]

OutlineReceipt ==
    Receipt("outline", Input(run.checkpoint.scope, 0, NoVerdict), Answer(run.checkpoint.text, TRUE), TRUE)

\* record_outline_stage: the receipt there is must be this checkpoint's.
RecordOutline ==
    /\ run.at = "record"
    /\ IF chain[Chapter] = <<>> THEN Appended(OutlineReceipt)
       ELSE Head(chain[Chapter]) = OutlineReceipt /\ UNCHANGED chain
    /\ run' = [run EXCEPT !.at = "load", !.cursor = 1]
    /\ UNCHANGED <<folder, edits, targets, staged, marked, outputs, published, completions, runs>>

-----------------------------------------------------------------------------
(* The stages of a chapter (runtime.py, executor.py).                      *)

\* derive_draft_readiness
DraftReady == Head(chain[Chapter]) = OutlineReceipt

\* The context of the run, with the checkpoint's outline in the place of the file.
Load ==
    /\ run.at = "load" /\ DraftReady
    /\ run' = [run EXCEPT !.at = "stage", !.stage = "scene_plan",
                          !.ground = [outline |-> run.checkpoint.text, notes |-> folder.notes, head |-> Len(published)]]
    /\ UNCHANGED <<folder, edits, targets, staged, marked, chain, outputs, published, completions, runs>>

\* decide_next_step, of the snapshot and the memory
Decision(ground) == [NoGround EXCEPT !.notes = ground.notes, !.head = ground.head]

Asked ==
    CASE run.stage \in {"scene_plan", "draft"} -> Input(run.ground, 0, NoVerdict)
      [] run.stage = "polish" -> Input(NoGround, run.text, NoVerdict)
      [] run.stage = "validator" -> Input(Decision(run.ground), run.text, NoVerdict)
      [] OTHER -> Input(NoGround, run.text, run.verdict)

\* ensure_scene_plan, ensure_polish: a polish is the text it is given, a plan is no text.
Deterministic == Answer(IF run.stage = "polish" THEN run.text ELSE 0, TRUE)

\* What the stage may answer
Answers ==
    CASE run.stage \in {"scene_plan", "polish"} -> {Deterministic}
      [] run.stage = "validator" -> {Answer(0, ok) : ok \in BOOLEAN}
      [] OTHER -> {Answer(t, TRUE) : t \in ModelTexts}

Replayed == run.cursor < Len(chain[Chapter])

\* A mutant: the operation key of a stage leaves out what the stage is given.
FoundByStage == {o \in outputs[Chapter] : o.after = run.cursor /\ o.stage = run.stage}

\* _load_stage_output, by the operation key
Found == {o \in outputs[Chapter] : o.after = run.cursor /\ o.stage = run.stage /\ o.input = Asked}

\* The integrity report of a text, which is of what the text was made from as well
Sound(from, text) == <<from, text>> \notin Flawed

\* A stage succeeded with this answer: what the executor does next.  The report of the text goes
\* into the validation after the validator is receipted.
Follow(a) ==
    LET verdict == Verdict(a.ok, Sound(run.from, run.text), run.repairs + 1)
        on == [run EXCEPT !.cursor = @ + 1]
    IN  run' = CASE run.stage = "scene_plan" -> [on EXCEPT !.stage = "draft"]
                 [] run.stage = "draft" -> [on EXCEPT !.stage = "polish", !.text = a.text, !.from = 0]
                 [] run.stage = "polish" -> [on EXCEPT !.stage = "validator", !.text = a.text]
                 [] run.stage = "repair" ->
                      [on EXCEPT !.stage = "validator", !.text = a.text, !.from = run.text, !.repairs = @ + 1]
                 [] OTHER -> IF verdict.ok /\ verdict.sound THEN [on EXCEPT !.at = "gate"]
                             ELSE IF run.repairs < MaxRepairs
                             THEN [on EXCEPT !.stage = "repair", !.verdict = verdict]
                             ELSE Resting

\* assert_stage_authorized, by the authorization of the receipt
Authorized(r) == r.stage = run.stage /\ r.input = Asked

\* before_stage finds a receipt: it must be of this stage, for this input, with its output.
Replay ==
    /\ run.at = "stage" /\ Replayed
    /\ LET r == chain[Chapter][run.cursor + 1]
       IN  /\ Authorized(r)
           /\ \E o \in Found : o.output = r.output
           /\ Follow(r.output)
    /\ UNCHANGED <<folder, edits, targets, staged, marked, chain, outputs, published, completions, runs>>

\* The stage is executed, and its answer is kept before it is receipted.
Execute ==
    /\ run.at = "stage" /\ ~Replayed /\ Found = {}
    /\ \E a \in Answers :
         outputs' = [outputs EXCEPT ![Chapter] =
                       @ \union {[after |-> run.cursor, stage |-> run.stage, input |-> Asked, output |-> a]}]
    /\ UNCHANGED <<folder, edits, targets, staged, marked, chain, published, completions, run, runs>>

\* after_stage: the receipt of the answer there is.
Succeed ==
    /\ run.at = "stage" /\ ~Replayed
    /\ \E o \in Found : Appended(Receipt(run.stage, Asked, o.output, TRUE)) /\ Follow(o.output)
    /\ UNCHANGED <<folder, edits, targets, staged, marked, outputs, published, completions, runs>>

\* failed_stage: a call whose fate is unknown, or one the budget refuses, ends the chain.
Fail ==
    /\ run.at = "stage" /\ run.stage \in {"draft", "validator", "repair"} /\ ~Replayed /\ Found = {}
    /\ Appended(Receipt(run.stage, Asked, Answer(0, FALSE), FALSE)) /\ run' = Resting
    /\ UNCHANGED <<folder, edits, targets, staged, marked, outputs, published, completions, runs>>

-----------------------------------------------------------------------------
(* The chapter is published with the evidence of its stages, and recorded. *)

\* After the workflow the chapter is reviewed, made canonical, and its final artifact, its state
\* and its quality are judged: a chapter that is not accepted ends the run.
Gate ==
    /\ run.at = "gate"
    /\ \E accepted \in BOOLEAN : run' = IF accepted THEN [run EXCEPT !.at = "publish"] ELSE Resting
    /\ UNCHANGED <<folder, edits, targets, staged, marked, chain, outputs, published, completions, runs>>

\* The text with a newline in the place of whatever white space it ends with: no stage is given it.
Canonical(text) == [canonical |-> text]

\* final_stage_receipt
Final ==
    LET r == Last(chain[Chapter]) IN r.stage = "validator" /\ r.succeeded

\* derive_arc_fulfillment_assessment: whether the body leaves something of its target open
Gaps == BOOLEAN

\* publication_artifacts, and the chapter they are published with
Evidence(gap) ==
    [target |-> run.checkpoint.scope.target, outline |-> run.checkpoint.text, body |-> Canonical(run.text),
     notes |-> folder.notes, chain |-> chain[Chapter], gap |-> gap]

\* The outline the author had is untouched, or the one the arc rendered is written with the
\* chapter; the files the run read are as it read them.
PublishChapter ==
    /\ run.at = "publish" /\ Final
    /\ folder.outlines[Chapter] = run.checkpoint.scope.before
    /\ folder.notes = run.ground.notes /\ Len(published) = run.ground.head
    /\ \E gap \in Gaps : published' = Append(published, Evidence(gap))
    /\ folder' = [folder EXCEPT !.outlines[Chapter] = run.checkpoint.text]
    /\ run' = [run EXCEPT !.at = "complete"]
    /\ UNCHANGED <<edits, targets, staged, marked, chain, outputs, completions, runs>>

\* CompletionLedger.append by _drive
RecordCompletion ==
    /\ run.at = "complete" /\ Len(published) = Chapter
    /\ CompleteWith(Last(published)) /\ run' = [Resting EXCEPT !.at = "fulfil"]
    /\ UNCHANGED <<folder, edits, targets, staged, marked, chain, outputs, published, runs>>

StagesNext ==
    \/ AuthorEdits \/ Stop \/ Resume \/ Fulfil \/ Check \/ ReuseOutline \/ StageOutline \/ MarkOutline
    \/ RecordOutline \/ Load \/ Replay \/ Execute \/ Succeed \/ Fail \/ Gate \/ PublishChapter \/ RecordCompletion

StagesSpec == StagesInit /\ [][StagesNext]_stageVars

-----------------------------------------------------------------------------
(* Properties.                                                             *)

\* What the integrity gate found of the text that a validator was given, and whether both accept
Intact(r, i) == Sound(IF r[i - 1].stage = "repair" THEN r[i - 1].input.text ELSE 0, r[i].input.text)
Passed(r, i) == r[i].output.ok /\ Intact(r, i)

\* The receipts of a published chapter tell how its body came about: in order, every stage was
\* given what the stages before it made of one outline and of the files the chapter was
\* committed on, every validator but the last refused its text or had it refused by the integrity
\* gate, the repair after it was given that verdict, and the body is the canonical form of the
\* text both accepted last, whichever runs they were made in.
Told(p) ==
    LET r == p.chain
        text(i) == IF r[i - 1].stage = "validator" THEN r[i - 1].input.text ELSE r[i - 1].output.text
    IN  /\ r[1].stage = "outline" /\ r[1].output.text = p.outline /\ r[1].input.ground.target = p.target
        /\ \A i \in 2 .. Len(r) : r[i].stage = After[r[i - 1].stage]
        /\ \A i \in 2 .. 3 : r[i].input.ground.outline = p.outline /\ r[i].input.ground.notes = p.notes
        /\ \A i \in 4 .. Len(r) :
             /\ r[i].input.text = text(i)
             /\ r[i].stage = "validator" => r[i].input.ground.notes = p.notes
             /\ r[i].stage = "repair" =>
                  /\ ~Passed(r, i - 1)
                  /\ r[i].input.verdict.ok = r[i - 1].output.ok /\ r[i].input.verdict.sound = Intact(r, i - 1)
        /\ Last(r).stage = "validator" /\ Passed(r, Len(r)) /\ p.body = Canonical(Last(r).input.text)

\* A receipt's answer is the one kept for what the stage was given, and no stage follows one
\* that failed.
Accounted(c) ==
    \A i \in 2 .. Len(chain[c]) :
        /\ chain[c][i - 1].succeeded
        /\ chain[c][i].succeeded =>
             \E o \in outputs[c] : /\ o.after = i - 1 /\ o.stage = chain[c][i].stage
                                   /\ o.input = chain[c][i].input /\ o.output = chain[c][i].output

\* What is recorded of a chapter is of the target it was written to, and what it left open is
\* carried into the next target exactly once.
Fulfilled ==
    \A c \in Book :
        /\ c <= Done => completions[c + 1].target = targets[c].carried
        /\ targets[c].fulfilled # "open" => c <= Done
        /\ c > 1 => targets[c].carried = IF targets[c - 1].fulfilled = "gap" THEN 1 ELSE 0

\* The evidence of an autonomous chapter holds, and what is durable stays as it is: a receipt,
\* the answer kept for a stage, a publication, a completion, a fulfilled target, and the target
\* of a chapter that has an outline (runtime.py, receipts.py, arc.py).
StagesStep ==
    /\ \A i \in DOMAIN published' : Told(published'[i])
    /\ (\A c \in Book : Accounted(c))' /\ Fulfilled'
    /\ \A c \in Book :
         /\ IsPrefix(chain[c], chain'[c]) /\ outputs[c] \subseteq outputs'[c]
         /\ \A o, q \in outputs'[c] :
              o.after = q.after /\ o.stage = q.stage /\ o.input = q.input => o = q
         /\ targets[c].fulfilled # "open" => targets'[c] = targets[c]
         /\ marked[c] # <<>> => targets'[c].carried = targets[c].carried
    /\ IsPrefix(published, published') /\ IsPrefix(completions, completions')
StagesHold == [][StagesStep]_stageVars
=============================================================================
