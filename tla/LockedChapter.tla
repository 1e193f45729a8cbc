---------------------------- MODULE LockedChapter ----------------------------
(***************************************************************************)
(* One chapter of a book that is generated again and again until it is     *)
(* committed.  A run generates its scenes one call at a time               *)
(* (modules/chapter_generator/pipeline.py), merges, polishes, validates    *)
(* and repairs them.  A call whose answer is unknown locks the chapter;    *)
(* recover_locked_chapter (core/engine/locked_chapter.py) then classifies  *)
(* what the runs have left and writes a marker, an append-only checkpoint  *)
(* from which the next run starts (core/engine/locked_chapter_state.py).   *)
(* Both hold the lock of the run directory.                                *)
(*                                                                         *)
(* A call is named by its run and its place in it, a scene by the call     *)
(* that answered it (scene_source_provenance.py), a text by what made it.  *)
(***************************************************************************)
EXTENDS Integers, Sequences, SequencesExt, FiniteSets, FiniteSetsExt

CONSTANTS Plans,        \* the outlines the operator tries
          Scope,        \* of a plan: the events of each of its scenes
          Misfits,      \* what a scene's answer may have wrong
          MaxRewrites,  \* repairs of a chapter in one run
          MaxRuns, MaxMarkers, MaxKills, MaxDrafts   \* bounds

LockedAssumption ==
    /\ Scope \in [Plans -> Seq(Nat)] /\ Misfits \subseteq {"events", "deltas"}
    /\ {MaxRewrites, MaxRuns, MaxMarkers, MaxKills, MaxDrafts} \subseteq Nat

VARIABLES outline,  \* the current outline
          runs,     \* the runs of the chapter, the last one may be running
          markers,  \* the recovery markers
          kills, drafts

lockedVars == <<outline, runs, markers, kills, drafts>>

Transforms == {"claude_polish", "scene_repair"}
NoText == [by |-> "nothing", from |-> <<>>]
NoScene == <<>>
LockedInit == outline \in Plans /\ runs = <<>> /\ markers = <<>> /\ kills = 0 /\ drafts = 0

this == Len(runs)
run == runs[this]
Running == this > 0 /\ run.status = "running"
Committed == \E r \in DOMAIN runs : runs[r].status = "committed"
CallAt(ref) == runs[ref[1]].calls[ref[2]]
Count(r) == Len(Scope[runs[r].plan])

-----------------------------------------------------------------------------
(* What is on disk.                                                         *)

Resolved == UNION {m.resolved : m \in ToSet(markers)}
Discarded == UNION {m.discarded : m \in ToSet(markers)}
Open(r) == \E k \in DOMAIN runs[r].calls : runs[r].calls[k].state = "open"
Unresolved == {r \in DOMAIN runs : Open(r) /\ r \notin Resolved}
\* Runs that have a record: a process that is killed writes none.
OnRecord == {r \in DOMAIN runs : runs[r].status \notin {"running", "killed"}} \ Discarded

NoMarker == [action |-> "reset", reason |-> "none", source |-> 0, resolved |-> {}, discarded |-> {}, count |-> 0,
             scenes |-> <<>>, draft |-> NoText, stage |-> "none", at |-> 0]

\* Mutant: a reset leaves the marker before it in force.
CheckpointPast ==
    LET kept == SelectSeq(markers, LAMBDA m : m.action # "reset")
    IN IF kept = <<>> THEN NoMarker ELSE Last(kept)

Checkpoint == IF markers = <<>> \/ Last(markers).action = "reset" THEN NoMarker ELSE Last(markers)

-----------------------------------------------------------------------------
(* A run.                                                                   *)

\* The scenes of the checkpoint that the current outline still has.
Fits(ref, i) ==
    /\ i <= Len(Scope[outline]) /\ Scope[outline][i] = Scope[runs[ref[1]].plan][i]
    /\ CallAt(ref).fits # "events"
Prefix == LET scenes == Checkpoint.scenes
              good == {n \in 0..Len(scenes) : \A i \in 1..n : Fits(scenes[i], i)}
          IN SubSeq(scenes, 1, Max(good))

Start ==
    /\ ~Running /\ ~Committed /\ this < MaxRuns /\ Unresolved = {}
    /\ runs' = Append(runs, [plan |-> outline, calls |-> <<>>, given |-> Prefix, base |-> Len(markers),
                             held |-> <<>>, scene |-> NoScene, retried |-> FALSE,
                             text |-> Checkpoint.draft, stage |-> Checkpoint.stage, repairs |-> 0,
                             merged |-> FALSE, status |-> "running"])
    /\ UNCHANGED <<outline, markers, kills, drafts>>

Update(new) == runs' = [runs EXCEPT ![this] = new]
Rest == UNCHANGED <<outline, markers, kills, drafts>>
FailedRun(r) == [r EXCEPT !.status = "failed"]
Waiting == run.calls # <<>> /\ Last(run.calls).state = "open"
NewCall(kind, i, retry) ==
    [run EXCEPT !.calls = Append(@, [kind |-> kind, scene |-> i, retry |-> retry,
                                     state |-> "open", fits |-> "unknown"])]
\* The place of the call that has just been answered.
Newest == <<this, Len(run.calls)>>

NextScene == Len(run.held) + 1
Drafting == Running /\ ~Waiting /\ run.text = NoText

TakeRecovered ==
    /\ Drafting /\ run.scene = NoScene /\ NextScene <= Len(run.given)
    /\ Update([run EXCEPT !.scene = run.given[NextScene]]) /\ Rest

RequestScene ==
    /\ Drafting /\ run.scene = NoScene
    /\ NextScene > Len(run.given) /\ NextScene <= Count(this)
    /\ Update(NewCall("scene", NextScene, FALSE)) /\ Rest

\* validate_scene_transition: a scene that is rejected is generated once more.
Boundary ==
    /\ Drafting /\ run.scene # NoScene
    /\ LET fits == CallAt(run.scene).fits IN
       \/ /\ fits = "fits"
          /\ Update([run EXCEPT !.held = Append(@, run.scene), !.scene = NoScene, !.retried = FALSE])
       \/ fits # "fits" /\ ~run.retried /\ Update([NewCall("scene", NextScene, TRUE) EXCEPT !.retried = TRUE])
       \/ fits # "fits" /\ run.retried /\ Update(FailedRun(run))
    /\ Rest

Merge ==
    /\ Drafting /\ run.scene = NoScene /\ Len(run.held) = Count(this)
    /\ Update([run EXCEPT !.text = [by |-> "merge", from |-> run.held], !.stage = "merge",
                          !.merged = TRUE])
    /\ Rest

\* The draft of a checkpoint that was polished or repaired is not polished again.
PolishText ==
    /\ Running /\ ~Waiting /\ run.text # NoText /\ run.stage \in {"chapter", "merge"}
    /\ Update(NewCall("claude_polish", 0, FALSE)) /\ Rest

Validated == Running /\ ~Waiting /\ run.text # NoText /\ run.stage \in Transforms
Commit == Validated /\ Update([run EXCEPT !.status = "committed"]) /\ Rest
RepairText ==
    /\ Validated
    /\ IF run.repairs < MaxRewrites
       THEN Update([NewCall("scene_repair", 0, FALSE) EXCEPT !.repairs = @ + 1])
       ELSE Update(FailedRun(run))
    /\ Rest

-----------------------------------------------------------------------------
(* What becomes of a call.                                                  *)

Receive(state, fits) ==
    [run EXCEPT !.calls[Len(run.calls)].state = state, !.calls[Len(run.calls)].fits = fits]

\* Every answer has its receipt and its response before the run looks at it.
AnswerCall ==
    /\ Running /\ Waiting
    /\ LET call == Last(run.calls) IN
       IF call.kind = "scene"
       THEN \E fits \in {"fits"} \cup Misfits :
              Update([Receive("answered", fits) EXCEPT !.scene = Newest])
       ELSE Update([Receive("answered", "fits") EXCEPT
                      !.text = [by |-> call.kind, from |-> <<Newest>>], !.stage = call.kind])
    /\ Rest

\* The answer cannot be parsed, or the provider refused the call.
Refuse ==
    /\ Running /\ Waiting
    /\ \E state \in {"garbled", "refused"} : Update(FailedRun(Receive(state, "unknown")))
    /\ Rest

\* The connection is lost before the answer: nobody knows whether the call was taken.
Interrupt == Running /\ Waiting /\ Update(FailedRun(run)) /\ Rest

\* The call is answered and recorded, but the run fails on it, over its budget for one.
AnswerUnused ==
    /\ Running /\ Waiting
    /\ LET received == FailedRun(Receive("answered", "fits")) IN
       Update(IF Last(run.calls).kind = "scene" THEN [received EXCEPT !.scene = Newest] ELSE received)
    /\ Rest

Kill ==
    /\ Running /\ kills < MaxKills
    /\ kills' = kills + 1
    /\ Update([run EXCEPT !.status = "killed"])
    /\ UNCHANGED <<outline, markers, drafts>>

-----------------------------------------------------------------------------
(* recover_locked_chapter.                                                  *)

\* The answered scenes of a run, in order, laid over the scenes of the checkpoint: a first
\* answer extends the prefix by one scene, a second one replaces its scene.
Lay(r, acc, k) ==
    LET call == runs[r].calls[k]
        on == /\ call.state # "garbled" /\ call.scene <= Count(r)
              /\ IF call.retry THEN call.scene <= Len(acc.scenes)
                               ELSE call.scene = Len(acc.scenes) + 1
    IN IF ~acc.on \/ call.kind # "scene" \/ call.state \in {"open", "refused"} THEN acc
       ELSE IF ~on THEN [acc EXCEPT !.on = FALSE]
       ELSE IF call.retry THEN [acc EXCEPT !.scenes[call.scene] = <<r, k>>]
       ELSE [acc EXCEPT !.scenes = Append(@, <<r, k>>)]
Laid(r, base) ==
    LET laid[k \in 0..Len(runs[r].calls)] ==
          IF k = 0 THEN [on |-> TRUE, scenes |-> base] ELSE Lay(r, laid[k - 1], k)
    IN laid[Len(runs[r].calls)].scenes

\* The answered scene calls of a run that pass a test, behind the scenes of the checkpoint.
Appended(r, Test(_)) ==
    Checkpoint.scenes \o SelectSeq([k \in DOMAIN runs[r].calls |-> <<r, k>>],
        LAMBDA ref : CallAt(ref).kind = "scene" /\ CallAt(ref).state = "answered" /\ Test(CallAt(ref)))

\* Mutant: second answers are not looked at.
RecoveredFirst(r) == Appended(r, LAMBDA call : ~call.retry)

Recovered(r) == Laid(r, Checkpoint.scenes)

\* _recover_persisted_scene_sequence: the chapter of the record is the merge of its scenes.
Persisted(r) == IF runs[r].merged /\ runs[r].text.by = "merge" THEN runs[r].held ELSE <<>>

\* _latest_usable_complete_transform: the newest polish or repair with a receipt.
Transformed(r) ==
    LET done == {k \in DOMAIN runs[r].calls : /\ runs[r].calls[k].kind \in Transforms
                                              /\ runs[r].calls[k].state = "answered"}
    IN IF done = {} THEN NoText
       ELSE [by |-> runs[r].calls[Max(done)].kind, from |-> <<<<r, Max(done)>>>>]

\* The stage a draft is known to have reached: _inherit_active_draft_provenance.
StageOf(r) == IF Transformed(r) # NoText THEN Transformed(r).by
              ELSE IF Checkpoint.draft = runs[r].text /\ Checkpoint.stage \in Transforms THEN Checkpoint.stage
              ELSE "chapter"
DraftOf(r) == IF Persisted(r) # <<>> THEN NoText
              ELSE IF Transformed(r) # NoText THEN Transformed(r) ELSE runs[r].text

\* _newer_recoverable_terminal_run: the newest failed run the checkpoint does not know of.
Newer(r) == r # Checkpoint.source /\ r > Checkpoint.at
Terminal == {r \in OnRecord : /\ runs[r].status = "failed" /\ Newer(r)
                              /\ \/ Persisted(r) # <<>> \/ runs[r].text # NoText
                                 \/ Recovered(r) # <<>>}

\* A reset forgets every uncommitted run of the chapter.
Forgotten == {r \in OnRecord : runs[r].status # "committed"}

Sources(mode) ==
    IF Unresolved # {}
    THEN IF Unresolved \subseteq OnRecord THEN {Max(Unresolved)} ELSE {}
    ELSE IF mode = "reset" /\ Checkpoint # NoMarker THEN {Checkpoint.source} \cap OnRecord
    ELSE IF Terminal = {} THEN {} ELSE {Max(Terminal)}

Manual == [by |-> "operator", from |-> <<<<drafts + 1, 0>>>>]

Write(mode, r) ==
    LET scenes == IF Persisted(r) # <<>> THEN Persisted(r) ELSE Recovered(r)
        kind == IF mode = "reset" THEN "reset"
                ELSE IF mode = "manual" \/ DraftOf(r) # NoText THEN "repair_draft"
                ELSE IF scenes # <<>> THEN "resume_scenes" ELSE "reset"
    IN markers' = Append(markers,
         [action |-> kind, reason |-> mode, source |-> r, resolved |-> Unresolved, at |-> this, count |-> Count(r),
          discarded |-> IF kind = "reset" THEN Forgotten ELSE {},
          scenes |-> IF kind = "resume_scenes" THEN scenes ELSE <<>>,
          draft |-> IF kind # "repair_draft" THEN NoText
                    ELSE IF mode = "manual" THEN Manual ELSE DraftOf(r),
          stage |-> IF kind # "repair_draft" THEN "none"
                    ELSE IF mode = "manual" THEN "scene_repair" ELSE StageOf(r)])

\* With no source the command ends and changes nothing: not locked, recovered already, or refused.
Recover(mode) ==
    /\ ~Running /\ ~Committed /\ (mode = "plain" \/ Len(markers) < MaxMarkers)
    /\ mode = "manual" => drafts < MaxDrafts
    /\ drafts' = IF mode = "manual" THEN drafts + 1 ELSE drafts
    /\ IF \E r \in Sources(mode) : mode = "reset" \/ Checkpoint = NoMarker \/ Checkpoint.count = Count(r)
       THEN \E r \in Sources(mode) : Write(mode, r)
       ELSE mode = "manual" /\ UNCHANGED markers
    /\ UNCHANGED <<outline, runs, kills>>

ChangePlan ==
    /\ ~Running /\ ~Committed /\ this < MaxRuns
    /\ \E p \in Plans \ {outline} : outline' = p
    /\ UNCHANGED <<runs, markers, kills, drafts>>

LockedNext ==
        \/ Start \/ TakeRecovered \/ RequestScene \/ Boundary \/ Merge \/ PolishText \/ Commit
        \/ RepairText \/ AnswerCall \/ Refuse \/ Interrupt \/ AnswerUnused \/ Kill \/ ChangePlan
        \/ \E mode \in {"plain", "reset", "manual"} : Recover(mode)
LockedSpec == LockedInit /\ [][LockedNext]_lockedVars
\* An operator whose chapter is locked calls the recovery.
FairSpec ==
    /\ LockedSpec /\ WF_lockedVars(Recover("plain"))
    /\ WF_lockedVars(\/ Boundary \/ AnswerCall \/ TakeRecovered \/ RequestScene \/ Merge
                     \/ PolishText \/ RepairText)

-----------------------------------------------------------------------------
(* Properties.                                                             *)

Resolutions == {"resume_scenes", "repair_draft", "reset"}
Made(ref) == ref[1] \in DOMAIN runs /\ ref[2] \in DOMAIN runs[ref[1]].calls

\* Type invariant.
LockedTyped ==
    /\ outline \in Plans
    /\ \A r \in DOMAIN runs :
         /\ runs[r].status \in {"running", "failed", "killed", "committed"}
         /\ runs[r].status = "running" => r = this
         /\ \A i \in DOMAIN runs[r].given : Made(runs[r].given[i])
         /\ Len(runs[r].held) <= Count(r)
    /\ \A m \in ToSet(markers) :
         /\ m.action \in Resolutions /\ m.source \in DOMAIN runs
         /\ m.action = "reset" <=> m.scenes = <<>> /\ m.draft = NoText
         /\ \A i \in DOMAIN m.scenes : CallAt(m.scenes[i]).scene = i

\* What a run held in memory when it ended: the scenes it took, and of the checkpoint the rest.
Progress(r) ==
    LET taken == runs[r].held \o (IF runs[r].scene = NoScene THEN <<>> ELSE <<runs[r].scene>>)
        given == runs[r].given
    IN taken \o SubSeq(given, Len(taken) + 1, Len(given))

\* A recovery keeps exactly the scenes its source run had when it failed: none of them is
\* generated, and paid for, again, and none comes from a call the run had replaced
\* (_recover_scene_prefix, _recover_persisted_scene_sequence against generate_scenes).
KeepsProgress ==
    \A m \in ToSet(markers) :
        m.reason = "plain" /\ m.draft = NoText => m.scenes = Progress(m.source)

\* What the last run accepted is reused (_recovered_scene_prefix, _recover_scene_prefix): the
\* recovery keeps every scene its source run held.
KeepsHeld ==
    \A m \in ToSet(markers) :
        m.reason = "plain" /\ m.draft = NoText => IsPrefix(runs[m.source].held, m.scenes)

Sourced(m) == {m.scenes[i][1] : i \in DOMAIN m.scenes}
              \cup (IF m.draft.by = "operator" THEN {} ELSE {m.draft.from[i][1] : i \in DOMAIN m.draft.from})

\* What was before a reset is never used again, by no later checkpoint and no later run
\* (discarded_run_ids, active_locked_chapter_checkpoint).
NeverResurrected ==
    \A z \in DOMAIN markers : markers[z].action = "reset" =>
        /\ \A i \in z + 1 .. Len(markers) : \A r \in Sourced(markers[i]) : r > markers[z].at
        /\ \A r \in DOMAIN runs : runs[r].base >= z =>
             \A i \in DOMAIN runs[r].given : runs[r].given[i][1] > markers[z].at

\* A locked chapter is unlocked by the recovery command.
Unlocks == Unresolved # {} ~> Unresolved = {}

\* A polished or repaired response that has its receipt is preferred by the recovery.
PrefersTransform ==
    \A m \in ToSet(markers) :
        m.reason = "plain" /\ Transformed(m.source) # NoText => m.draft.by \in Transforms

\* A draft the operator hands to the recovery of a chapter that has a checkpoint is what the
\* next run starts from.
ManualStaged == [][drafts' > drafts /\ Checkpoint # NoMarker => Checkpoint'.draft.by = "operator"]_lockedVars
=============================================================================
