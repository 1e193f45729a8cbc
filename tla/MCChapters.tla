------------------------------ MODULE MCChapters ------------------------------
(***************************************************************************)
(* One run of a chapter (ChapterRun), and a chapter over its failed runs,  *)
(* their checkpoints and recoveries (LockedChapter), the drafts of its     *)
(* scenes (SceneDrafting), and what is read of the author's files before   *)
(* it (StorySources), for TLC.                                             *)
(* A behaviour exercises one of the parts.                                 *)
(***************************************************************************)
EXTENDS ChapterRun, LockedChapter

CONSTANTS Parts, crit, med, warn, ann, bob, home, away, nowhere, w1, w2, none

VARIABLES part,
          start, scene, state, scenes, saved, attempt, progress, tries,
          rows, retired, blocks, chapters, facts, changed

MCProblems == {crit, med, warn}
MCSeverity == [p \in MCProblems |-> CASE p = crit -> 4 [] p = med -> 2 [] p = warn -> 1]

(* The rule Director's workflow, the shortest one, one with every mark, and *)
(* three a Director may answer with that are no workflow.                   *)
MCWorkflows ==
  {<<"generate_chapter", "polish", "validate", "repair_if_needed">>,
   <<"generate_chapter", "validate">>,
   <<"build_snapshot", "pre_validate_bridge", "generate_chapter", "validate",
     "commit_snapshot", "repair_if_needed">>,
   <<"generate_chapter", "validate", "polish">>,
   <<"validate", "generate_chapter">>,
   <<"generate_chapter", "review", "validate">>}

Plain == [review |-> FALSE, gate |-> "off", reviewRepairs |-> 0, lenient |-> TRUE,
          writeback |-> FALSE, persist |-> TRUE]
MCConfigs == {Plain}

(* The same run with reviews, their gates and their repairs, and two       *)
(* problems.                                                               *)
Reviewed == INSTANCE ChapterRun WITH
  Problems <- {med, warn}, Severity <- [p \in {med, warn} |-> MCSeverity[p]], MaxRepairs <- 1,
  Configs <- {[review |-> TRUE, gate |-> g, reviewRepairs |-> n, lenient |-> TRUE,
               writeback |-> TRUE, persist |-> TRUE] :
                g \in {"off", "needs_revision", "blocked"}, n \in {0, 1}}

(* The scopes of two outlines of two scenes: the second groups the events  *)
(* of its last scene otherwise.                                            *)
MCScope == [p \in {"p1", "p2"} |-> IF p = "p1" THEN <<1, 2>> ELSE <<1, 3>>]

(* Recoveries with resets over three runs; one recovery of answers that    *)
(* do not fit; and two of runs that may be killed, where the operator may  *)
(* change the outline or hand in a draft.                                  *)
Resets == INSTANCE LockedChapter WITH
  Plans <- {"p1"}, Scope <- [p \in {"p1"} |-> MCScope[p]], Misfits <- {}, MaxRewrites <- 0, MaxRuns <- 3,
  MaxMarkers <- 2, MaxKills <- 0, MaxDrafts <- 0
Misfit == INSTANCE LockedChapter WITH
  Plans <- {"p1"}, Scope <- [p \in {"p1"} |-> MCScope[p]], Misfits <- {"deltas"}, MaxRewrites <- 1, MaxRuns <- 2,
  MaxMarkers <- 1, MaxKills <- 0, MaxDrafts <- 0

(* Answers whose events are not those of the outline.                      *)
Events == INSTANCE LockedChapter WITH
  Plans <- {"p1"}, Scope <- [p \in {"p1"} |-> MCScope[p]], Misfits <- {"events"}, MaxRewrites <- 0, MaxRuns <- 2,
  MaxMarkers <- 2, MaxKills <- 0, MaxDrafts <- 0

ASSUME /\ Resets!LockedAssumption /\ Misfit!LockedAssumption
       /\ LockedAssumption /\ Events!LockedAssumption

draftVars == <<start, scene, state, scenes, saved, attempt, progress, tries>>

(* Ledgers: a person whose place is only reported and not where the older  *)
(* fields have them; one the ledger has no place of, beside an event the   *)
(* last chapter left open; one that is new; and one that has told the      *)
(* first beat already.                                                     *)
At(x, y) == [w \in {ann, bob} |-> IF w = ann THEN x ELSE y]
Event(id, kind, at, open) == [id |-> id, kind |-> kind, who |-> {ann}, at |-> at, open |-> open]
Ledger(people, place, unsure, legacy, past) ==
  [people |-> people, place |-> place, unsure |-> unsure, legacy |-> legacy, past |-> past]
Rumoured == Ledger({ann, bob}, At(home, away), {bob}, At(away, home), {})
Older == Ledger({ann, bob}, At(home, nowhere), {}, At(nowhere, away), {Event(91, 1, home, TRUE)})
Alone == Ledger({ann}, At(away, nowhere), {}, At(nowhere, nowhere), {Event(92, 70, away, FALSE)})
Told == Ledger({ann, bob}, At(home, away), {}, At(home, away), {Event(1, 1, home, FALSE)})

ReadSet(people, events, new, at, who) ==
  [chapter |-> 2, chars |-> people, places |-> people, events |-> events, fresh |-> new,
   last |-> [at |-> at, who |-> who]]
Meets(id) == [id |-> id, kind |-> 70, who |-> {ann}, at |-> away]
Begin(ledger, reads, beats, raw, limit, dry) ==
  [chapter |-> 2, ledger |-> ledger, reads |-> reads, source |-> [beats |-> beats, raw |-> raw],
   limit |-> limit, dry |-> dry]

(* Outlines of two and three beats, a plan of a model, and one that gives  *)
(* two scenes the same event; a read set of nobody's ledger, and one of    *)
(* another chapter.                                                        *)
MCStarts ==
  {Begin(Rumoured, ReadSet({ann, bob}, {}, {}, home, {ann}), 2, <<>>, 0, FALSE),
   Begin(Older, ReadSet({ann, bob}, {91}, {}, away, {bob}), 2, <<>>, 0, FALSE),
   Begin(Alone, ReadSet({ann}, {92}, {bob}, nowhere, {}), 0, <<<<Meets(31)>>, <<Meets(32)>>>>, 0, FALSE),
   Begin(Rumoured, ReadSet({ann}, {}, {}, nowhere, {}), 0, <<<<Meets(31)>>, <<Meets(31)>>>>, 0, FALSE),
   Begin(Told, ReadSet({ann}, {1}, {}, nowhere, {}), 2, <<>>, 0, FALSE),
   Begin(Rumoured, ReadSet({ann}, {}, {}, nowhere, {}), 3, <<>>, 0, TRUE),
   Begin(Rumoured, ReadSet({bob}, {}, {}, nowhere, {}), 3, <<>>, 1, TRUE),
   Begin(Alone, ReadSet({ann}, {}, {}, nowhere, {}), 0, <<<<Meets(31), Meets(31)>>, <<>>>>, 1, TRUE),
   Begin(Alone, ReadSet({bob}, {}, {}, nowhere, {}), 2, <<>>, 0, FALSE)}
  \union {[Begin(Rumoured, ReadSet({ann}, {}, {}, nowhere, {}), 2, <<>>, 0, FALSE) EXCEPT !.chapter = 3]}

Drafts == INSTANCE SceneDrafting WITH
  People <- {ann, bob}, Places <- {home, away}, Leads <- {ann}, Casts <- {{ann}, {bob}}, Starts <- MCStarts,
  OpeningBeats <- 1, MaxMoves <- 1, MaxRuns <- 2, MaxRetries <- 1, MaxScenes <- 2,
  drafts <- scenes, status <- progress, runs <- tries

(* Two moves in every scene.                                               *)
Moving == INSTANCE SceneDrafting WITH
  People <- {ann, bob}, Places <- {home, away}, Leads <- {ann}, Casts <- {{ann}, {ann, bob}},
  Starts <- {s \in MCStarts : s.source.beats = 2 /\ s.ledger = Older},
  OpeningBeats <- 1, MaxMoves <- 2, MaxRuns <- 1, MaxRetries <- 0, MaxScenes <- 2,
  drafts <- scenes, status <- progress, runs <- tries

ASSUME Drafts!DraftingAssumption /\ Moving!DraftingAssumption

sourceVars == <<rows, retired, blocks, chapters, facts, changed>>

Decided(people, threads, owners) == [people |-> people, threads |-> threads, owners |-> owners]
Someone(name, place) == [name |-> name, place |-> place]
Thread(id, status) == [id |-> id, status |-> status]

Files == INSTANCE StorySources WITH
    Texts <- {w1, w2}, MaxRows <- 3, MaxEdits <- 2, MaxRuns <- 2, run <- chapters, baseline <- facts, edits <- changed,
    Decisions <- {Decided([x \in {"a", "b"} |-> Someone("ann", "isle")], <<Thread("t", "seeded")>>, {"a", "c"}),
                  Decided([x \in {"a", "b"} |-> Someone("ann", IF x = "a" THEN "isle" ELSE "port")], <<>>, {}),
                  Decided([x \in {"a"} |-> Someone("ann", none)], <<Thread("t", "seeded"), Thread("t", "seeded")>>, {"a"}),
                  Decided([x \in {"b"} |-> Someone("ann", "port")], <<Thread("t", "resolved")>>, {"a"}),
                  Decided([x \in {"b"} |-> Someone("ann", "port")], <<Thread("t", "ripe")>>, {"a"})}

(* Bounds: an author writes in one tracking file or in the setting files,  *)
(* and there are chapters and tombstones only in the first case; a         *)
(* migration comes before the chapters or the edits.                       *)
Busy == {f \in DOMAIN rows : rows[f] # <<>>}
SourcesNext ==
    /\ Files!Next
    /\ Busy' \subseteq Files!Settings \/ \E f \in Files!Tracking : Busy' \subseteq {f}
    /\ Busy' \cap Files!Settings # {} => chapters' = 0 /\ retired' = retired
    /\ facts' # <<>> => chapters' = 0 \/ changed' = 0

MCInit == part \in Parts /\ Files!Init /\ (part # "sources" => rows = Files!Blank)
          /\ (IF part = "reviewed" THEN Reviewed!Init ELSE Init) /\ LockedInit
          /\ (IF part = "moving" THEN Moving!Init ELSE Drafts!Init)
          /\ (part \notin {"drafting", "moving"} => start = CHOOSE s \in MCStarts : Drafts!Usable(s))
          /\ (part # "outlines" => outline = "p1")

MCNext ==
  \/ part = "run" /\ Next /\ UNCHANGED <<part, lockedVars, draftVars, sourceVars>>
  \/ part = "reviewed" /\ Reviewed!Next /\ UNCHANGED <<part, lockedVars, draftVars, sourceVars>>
  \/ part = "resets" /\ Resets!LockedNext /\ UNCHANGED <<part, vars, draftVars, sourceVars>>
  \/ part = "misfits" /\ Misfit!LockedNext /\ UNCHANGED <<part, vars, draftVars, sourceVars>>
  \/ part = "outlines" /\ LockedNext /\ UNCHANGED <<part, vars, draftVars, sourceVars>>
  \/ part = "events" /\ Events!LockedNext /\ UNCHANGED <<part, vars, draftVars, sourceVars>>
  \/ part = "drafting" /\ Drafts!Next /\ UNCHANGED <<part, vars, lockedVars, sourceVars>>
  \/ part = "moving" /\ Moving!Next /\ UNCHANGED <<part, vars, lockedVars, sourceVars>>
  \/ part = "sources" /\ SourcesNext /\ UNCHANGED <<part, vars, lockedVars, draftVars>>

MCSpec == MCInit /\ [][MCNext]_<<part, vars, lockedVars, draftVars, sourceVars>>

(* A recovery keeps exactly the scenes its source run had when it failed,  *)
(* which a killed run does not say: see LockedChapter (locked_chapter.py). *)
RecoveriesKeep == part \in {"resets", "misfits"} => KeepsProgress

(* A drafted chapter is one the ledger can follow, and every rejection is  *)
(* one the prompt could have prevented: see SceneDrafting.                 *)
DraftsHold ==
  /\ part = "drafting" => Drafts!DraftsHold
  /\ part = "moving" => Moving!DraftsHold

(* What the author says is what is read, a contradiction stops the         *)
(* chapter, what was retired stays retired, and the baseline of a          *)
(* migration is true to the files: see StorySources (semantic_parser.py,   *)
(* managed_block.py, writer.py, migration_execution.py).                   *)
SourcesHold == [][part = "sources" => Files!SourcesStep]_sourceVars
=============================================================================
