------------------------------ MODULE MCSessions ------------------------------
(***************************************************************************)
(* Autonomous sessions (AutonomySession), for TLC: two sessions that take  *)
(* the lease from each other while a chapter goes through its stages, one  *)
(* session over its two chapters, and every command with a crash, where    *)
(* one process at a time works on the book; the stages of a chapter over   *)
(* its runs (ChapterStages); and the evidence of its scenes through them   *)
(* (SceneEvidence).  A behaviour exercises one of the parts.               *)
(***************************************************************************)
EXTENDS AutonomySession, ChapterStages

CONSTANT Parts

VARIABLES part,
          given, text, pipe, stage, found, asked, changes, repairs

sceneVars == <<given, text, pipe, stage, found, asked, changes, repairs>>

\* The parts of AutonomySession differ in its commands, stages and bounds, on which its state
\* properties do not depend; "chapters" is that of Sessions.cfg.
Takeover == INSTANCE AutonomySession WITH
    Stages <- 2, MaxGen <- 6, MaxOps <- 3, MaxBook <- 1, MaxFaults <- 0, Commands <- {"execute"}
Commanded == INSTANCE AutonomySession WITH
    MaxGen <- 3, MaxOps <- 2, MaxBook <- 2, Commands <- AllCommands

ASSUME AutonomyAssumption

\* A draft of the second text is one the integrity gate blocks, and so is the first made of it.
\* One chapter, with more that the author and the models may do in it; two chapters and what the
\* first one carries into the second are those of Sessions.cfg.
MCFlawed == {<<0, 2>>, <<2, 1>>}
Replays == INSTANCE ChapterStages WITH
    Versions <- {1, 2}, ModelTexts <- {1, 2}, MaxRepairs <- 1, MaxRuns <- 2, MaxEdits <- 2
OneChapter == folder.outlines[2] = Missing /\ run.chapter # 2

ASSUME StagesAssumption /\ Replays!StagesAssumption

Asks(code, action, blocking) == [code |-> code, action |-> action, blocking |-> blocking, sound |-> TRUE]
MCReports ==
    LET mark == Asks("missing_conflict_marker", "none", TRUE)
    IN {<<>>, <<Asks("missing_opening_bridge", "insert_opening_bridge", TRUE), mark, mark>>,
        <<Asks("other", "manual_review", FALSE), mark>>, <<Asks("other", "rewrite", TRUE)>>}

Merged(parts, piped, explicit, dry, injected, review, writeback) ==
    [drafts |-> parts, piped |-> piped, explicit |-> explicit, dry |-> dry, injected |-> injected,
     review |-> review, writeback |-> writeback]
OneScene == <<<<"a", "b">>>>
TwoScenes == <<<<"a">>, <<"a", "b">>>>
MCStarts ==
    {Merged(OneScene, TRUE, TRUE, FALSE, FALSE, FALSE, TRUE), Merged(TwoScenes, TRUE, TRUE, FALSE, FALSE, FALSE, TRUE),
     Merged(TwoScenes, TRUE, FALSE, FALSE, TRUE, TRUE, TRUE), Merged(TwoScenes, TRUE, FALSE, TRUE, FALSE, FALSE, FALSE),
     Merged(OneScene, FALSE, FALSE, FALSE, FALSE, FALSE, TRUE), Merged(OneScene, FALSE, FALSE, TRUE, FALSE, FALSE, FALSE)}

\* An answer deletes, replaces, or adds a paragraph.
Rewriting == INSTANCE SceneEvidence WITH
    Starts <- MCStarts, Words <- {<<>>, <<"b">>, <<"n", "n", "a">>}, Reports <- MCReports,
    MaxChanges <- 2, MaxRepairs <- 2

ASSUME Rewriting!EvidenceAssumption

SceneInit == Rewriting!Init /\ (part = "scenes" \/ given = Merged(OneScene, FALSE, FALSE, TRUE, FALSE, FALSE, FALSE))

\* A part that is not of ChapterStages starts its variables anyhow.
StageInit ==
    IF part = "replays" THEN Replays!StagesInit /\ OneChapter
    ELSE StagesInit /\ (part = "carrying" \/ folder.outlines = [c \in Book |-> Missing])

MCInit == part \in Parts /\ Init /\ StageInit /\ SceneInit

\* In "commands" an edit comes before the chapters, if at all.
MCNext ==
    \/ /\ \/ part = "takeover" /\ Takeover!Next /\ proc'["p"].s # "b" /\ proc'["q"].s # "a"
          \/ part = "chapters" /\ Next /\ proc'["p"].s # "b" /\ proc'["q"] = Idle /\ plan'["b"] = NoPlan
          \/ part = "commands" /\ Commanded!Next /\ proc'["q"] = Idle
             /\ (Len(book') = 2 => book'[2] # "edit")
       /\ UNCHANGED <<part, stageVars, sceneVars>>
    \/ part = "replays" /\ Replays!StagesNext /\ OneChapter' /\ UNCHANGED <<part, vars, sceneVars>>
    \/ part = "carrying" /\ StagesNext /\ UNCHANGED <<part, vars, sceneVars>>
    \/ part = "scenes" /\ Rewriting!Next /\ UNCHANGED <<part, vars, stageVars>>

\* The fairness of AutonomySession, for the part that has every command.
MCFairness ==
    /\ WF_vars(part = "commands" /\ \E s \in Sessions : Commanded!Command("p", "open", s))
    /\ WF_vars(part = "commands" /\ Commanded!FencedStep("p"))

MCSpec == MCInit /\ [][MCNext]_<<part, vars, stageVars, sceneVars>> /\ MCFairness

\* Whatever operation a crashed or refused command leaves behind, opening the store again
\* settles it: see AutonomySession (session.py:_reconcile_orphans_fenced).
SessionsRecover == part = "commands" => Commanded!RecoverySettles

\* Whatever rewrites a chapter after its scenes are merged, its evidence is that of the text, and a
\* repair asks for what was found of that text: see SceneEvidence (scene_evidence.py, envelope.py).
EvidenceHolds == part = "scenes" => Rewriting!EvidenceHolds
=============================================================================
