---------------------------- MODULE SceneDrafting ----------------------------
(***************************************************************************)
(* The drafting of one chapter, scene by scene                             *)
(* (chapter_generator/pipeline.py, story_project/coverage.py,              *)
(* scene_continuity.py).  A plan fixes which events each scene must        *)
(* declare.  The model is shown a part of the state, answers with events   *)
(* and with moves of people, and the answer is judged against the whole    *)
(* state; a rejected scene is asked for once more, with the values it      *)
(* missed, and then the run is refused.  A later run may start from the    *)
(* scenes of the one before, another plan and another ledger.              *)
(*                                                                         *)
(* Of the six kinds of deltas the moves stand for all: a character's, a    *)
(* relation's, a roster's, an inventory's and a counter's starting value   *)
(* is checked, and replaced, alike (AuthoritativeState has them all).      *)
(***************************************************************************)
EXTENDS GenerationView

CONSTANTS Starts,       \* ledger, reads and source of the plan a run may start with
          OpeningBeats, \* the beats of the opening scene of a plan without an outline
          Casts,        \* the sets of people an answer may name where the plan names none
          MaxMoves, MaxRuns, MaxRetries, MaxScenes

VARIABLES start, scene, state, drafts, saved, attempt, status, runs

vars == <<start, scene, state, drafts, saved, attempt, status, runs>>

DraftingAssumption ==
  /\ {OpeningBeats, MaxScenes} \subseteq Nat \ {0} /\ {MaxMoves, MaxRuns, MaxRetries} \subseteq Nat
  /\ nowhere \notin Places /\ Leads \subseteq People

-----------------------------------------------------------------------------
(* The plan.                                                               *)

(* The beats of an outline in at most MaxScenes scenes, or in as many as   *)
(* the run is limited to, the longer first.                                *)
(* The kind of a beat's event is only its number: the same in every        *)
(* chapter, and no sign that something happens twice.                      *)
Bookkeeping(kind) == kind < 10

GroupStart(beats, scenes, i) ==
  (i - 1) * (beats \div scenes) + (IF i - 1 < beats % scenes THEN i - 1 ELSE beats % scenes)

BlueprintPlan(beats, limit) ==
  LET scenes == CHOOSE n \in {beats, MaxScenes, limit} :
                  n # 0 /\ \A m \in {beats, MaxScenes, limit} \ {0} : n <= m
  IN  [i \in 1..scenes |->
        [k \in 1..(GroupStart(beats, scenes, i + 1) - GroupStart(beats, scenes, i)) |->
           LET beat == GroupStart(beats, scenes, i) + k
           IN  [id |-> beat, kind |-> beat, who |-> {}, at |-> nowhere]]]

(* The events of a scene a model has planned: one for each beat, with an   *)
(* id of their own where it gave none or gave one twice.                   *)
DefaultEvent(i, k) == [id |-> 10 * i + k, kind |-> 10 * i + k, who |-> {}, at |-> nowhere]

PlannedEvents(raw, i, beats) ==
  [k \in 1..beats |->
     CASE k > Len(raw) -> DefaultEvent(i, k)
       [] \E j \in 1..(k - 1) : raw[j].id = raw[k].id -> [raw[k] EXCEPT !.id = 10 * i + k]
       [] OTHER -> raw[k]]

ModelPlan(raw) ==
  [i \in 1..Len(raw) |->
     PlannedEvents(raw[i], i, IF i = 1 THEN OpeningBeats ELSE IF raw[i] = <<>> THEN 1 ELSE Len(raw[i]))]

(* source is the number of beats of an outline, or what a model answered,  *)
(* of which a limit keeps the first scenes.                                *)
ThePlan(s) ==
  LET all == ModelPlan(s.source.raw)
  IN  IF s.source.beats > 0 THEN BlueprintPlan(s.source.beats, s.limit)
      ELSE SubSeq(all, 1, IF s.limit \in 1..Len(all) THEN s.limit ELSE Len(all))
plan == ThePlan(start)
view == View(start.ledger, start.reads)

IdsOf(events) == [k \in 1..Len(events) |-> events[k].id]
PlanIds == UNION {ToSet(IdsOf(plan[i])) : i \in 1..Len(plan)}
Barred(i) == UNION {ToSet(IdsOf(plan[j])) : j \in 1..(i - 1)}

-----------------------------------------------------------------------------
(* The judgement of one answer: events in order, and moves in order.       *)

Signature(e) == [kind |-> e.kind, who |-> e.who, at |-> e.at]
Anchored(e) == e.who # {} \/ e.at # nowhere

(* Where everyone is after the first k moves.                              *)
MovedTo(from, moves) ==
  LET to[k \in 0..Len(moves)] ==
        IF k = 0 THEN from ELSE [to[k - 1] EXCEPT ![moves[k].who] = moves[k].after]
  IN  to

(* A variation for the checks: every move is compared with where its       *)
(* person was when the scene began.                                        *)
MovesFitOnce(from, moves) ==
  \A k \in 1..Len(moves) : from[moves[k].who] \in {nowhere, moves[k].before}

MovesFit(from, moves) ==
  \A k \in 1..Len(moves) :
    LET now == MovedTo(from, moves)[k - 1][moves[k].who]
    IN  now = nowhere \/ moves[k].before = now

LastMove(moves, p) == {k \in 1..Len(moves) : moves[k].who = p /\ \A j \in (k + 1)..Len(moves) : moves[j].who # p}

(* Whoever an event names is there, is nowhere the state knows of, or is   *)
(* brought there by the last move of theirs.                               *)
Located(from, e, moves) ==
  e.at # nowhere =>
    \A p \in e.who :
      \/ from[p] \in {nowhere, e.at}
      \/ \E k \in LastMove(moves, p) : moves[k].before = from[p] /\ moves[k].after = e.at

AsPlanned(e, planned) ==
  \E q \in ToSet(planned) :
    /\ q.id = e.id /\ q.kind = e.kind
    /\ q.who \in {{}, e.who} /\ q.at \in {nowhere, e.at}

Repeats(st, e) ==
  /\ e.status = "completed" /\ ~Bookkeeping(e.kind) /\ Anchored(e)
  /\ Signature(e) \in st.done

Restarts(st, e) ==
  /\ e.status = "started" /\ Anchored(e)
  /\ \E o \in st.open : o.id # e.id /\ Signature(o) = Signature(e)

EventFits(st, i, answer, k) ==
  LET e == answer.events[k] IN
  /\ Located(st.place, e, answer.moves)
  /\ \A j \in 1..(k - 1) :
       /\ answer.events[j].id # e.id
       /\ e.status = "completed" /\ Anchored(e) =>
            <<answer.events[j].status, Signature(answer.events[j])>> # <<"completed", Signature(e)>>
  /\ AsPlanned(e, plan[i])
  /\ e.id \notin Barred(i) \union st.closed
  /\ ~Repeats(st, e) /\ ~Restarts(st, e)

Accepts(st, i, answer) ==
  /\ ToSet(IdsOf(plan[i])) \subseteq ToSet(IdsOf(answer.events))
  /\ \A k \in 1..Len(answer.events) : EventFits(st, i, answer, k)
  /\ MovesFit(st.place, answer.moves)

(* An event that is over closes its action, whatever id that had.          *)
EventAfter(st, e) ==
  IF e.status = "started"
  THEN [st EXCEPT !.open = {o \in @ : o.id # e.id}
                             \union {[id |-> e.id, kind |-> e.kind, who |-> e.who, at |-> e.at]}]
  ELSE [st EXCEPT !.open = {o \in @ : o.id # e.id /\ Signature(o) # Signature(e)},
                  !.closed = @ \union {e.id},
                  !.done = @ \union {Signature(e)}]

After(st, answer) ==
  LET moved == [st EXCEPT !.place = MovedTo(st.place, answer.moves)[Len(answer.moves)]]
      told[k \in 0..Len(answer.events)] ==
        IF k = 0 THEN moved ELSE EventAfter(told[k - 1], answer.events[k])
      spots == SelectSeq(answer.events, LAMBDA e : e.at # nowhere)
  IN  [told[Len(answer.events)] EXCEPT !.here = IF spots = <<>> THEN @ ELSE spots[Len(spots)].at]

-----------------------------------------------------------------------------
(* What a model may answer: the planned events or all but the last of      *)
(* them, each somewhere, over or begun, and a few moves.                   *)

EventChoices(planned, k) ==
  {[id |-> planned[k].id, kind |-> planned[k].kind, who |-> w, at |-> a, status |-> s] :
     w \in (IF planned[k].who # {} THEN {planned[k].who} ELSE Casts),
     a \in (IF planned[k].at # nowhere THEN {planned[k].at} ELSE Somewhere),
     s \in {"completed", "started"}}

Moves == {m \in [who : People, before : Somewhere, after : Places] : m.before # m.after}

Answers(planned) ==
  {[events |-> events, moves |-> moves] :
     events \in UNION {{f \in [1..n -> UNION {EventChoices(planned, k) : k \in 1..n}] :
                          \A k \in 1..n : f[k] \in EventChoices(planned, k)} :
                         n \in {Len(planned) - 1, Len(planned)}},
     moves \in UNION {[1..n -> Moves] : n \in 0..MaxMoves}}

(* A draft that is only tried out declares the events as planned.          *)
DryAnswer(planned) ==
  [events |-> [k \in 1..Len(planned) |->
                 [id |-> planned[k].id, kind |-> planned[k].kind, who |-> planned[k].who,
                  at |-> planned[k].at, status |-> "completed"]],
   moves |-> <<>>]

-----------------------------------------------------------------------------

(* The scenes of the run before that can be used again: the first ones,    *)
(* as long as they are whole and declare the events of the plan.           *)
Reusable(old, new) ==
  LET fits(k) == k <= Len(new) /\ old[k].whole /\ IdsOf(old[k].events) = IdsOf(new[k])
      n == CHOOSE k \in 0..Len(old) :
             (\A j \in 1..k : fits(j)) /\ (k = Len(old) \/ ~fits(k + 1))
  IN  SubSeq(old, 1, n)

(* The executor refuses to generate from a read set it cannot serve.       *)
Usable(s) == WrittenFor(s.reads, s.chapter) /\ Admits(s.ledger, s.reads)

BeginWith(s, old) ==
  /\ start' = s
  /\ scene' = 1 /\ attempt' = 0 /\ drafts' = <<>>
  /\ state' = FirstState(s.ledger, s.reads.last)
  /\ IF Usable(s)
     THEN status' = "drafting" /\ saved' = Reusable(old, ThePlan(s))
     ELSE status' = "refused" /\ saved' = <<>>

Init ==
  /\ start \in {s \in Starts : Usable(s)}
  /\ scene = 1 /\ attempt = 0 /\ drafts = <<>> /\ saved = <<>>
  /\ state = FirstState(start.ledger, start.reads.last)
  /\ status = "drafting" /\ runs = 1

Accept(answer) ==
  /\ Accepts(state, scene, answer)
  /\ drafts' = Append(drafts, [events |-> answer.events, moves |-> answer.moves, whole |-> TRUE])
  /\ state' = After(state, answer)
  /\ attempt' = 0
  /\ scene' = scene + 1
  /\ status' = IF scene = Len(plan) THEN "merged" ELSE "drafting"
  /\ UNCHANGED <<start, saved, runs>>

(* One more try, with what was wrong; then the run is over.                *)
Reject(answer) ==
  /\ ~Accepts(state, scene, answer)
  /\ IF start.dry \/ attempt >= MaxRetries
     THEN status' = "refused" /\ UNCHANGED attempt
     ELSE attempt' = attempt + 1 /\ UNCHANGED status
  /\ UNCHANGED <<start, scene, state, drafts, saved, runs>>

(* The first candidate of a scene is the one recovered, if there is one;   *)
(* it is judged like any other.                                            *)
Candidates ==
  CASE attempt = 0 /\ scene <= Len(saved) -> {saved[scene]}
    [] start.dry -> {DryAnswer(plan[scene])}
    [] OTHER -> Answers(plan[scene])

Draft ==
  /\ status = "drafting"
  /\ \E answer \in Candidates : Accept(answer) \/ Reject(answer)

(* The prompt of a scene does not fit the budget of its stage with any of  *)
(* the payloads, or the process ends.                                      *)
Stop ==
  /\ status = "drafting"
  /\ status' = "stopped"
  /\ UNCHANGED <<start, scene, state, drafts, saved, attempt, runs>>

(* The chapter is generated again from what the run before left: after it  *)
(* failed, or after a later stage has failed.  A draft of the time before  *)
(* scenes declared their events is not whole.                              *)
Again ==
  /\ status # "drafting" /\ runs < MaxRuns
  /\ runs' = runs + 1
  /\ \E s \in Starts, whole \in BOOLEAN :
       BeginWith(s, [k \in 1..Len(drafts) |-> [drafts[k] EXCEPT !.whole = whole]])

Next == Draft \/ Stop \/ Again

Spec == Init /\ [][Next]_vars

-----------------------------------------------------------------------------
DraftingTypeOK ==
  /\ start \in Starts /\ scene \in 1..(Len(plan) + 1) /\ attempt \in 0..MaxRetries
  /\ state.place \in [People -> Somewhere] /\ state.here \in Somewhere
  /\ Len(drafts) = scene - 1 /\ Len(saved) <= Len(plan)
  /\ status \in {"drafting", "merged", "refused", "stopped"} /\ runs \in 1..MaxRuns

Known(p) == FirstState(start.ledger, start.reads.last).place[p]
MovesOf(p) == SelectSeq(FlattenSeq([k \in 1..Len(drafts) |-> drafts[k].moves]), LAMBDA m : m.who = p)

(* The moves of a chapter, whatever runs and recoveries its scenes come    *)
(* from, lead everyone from where this run's ledger has them to where the  *)
(* last scene leaves them (scene_continuity.py:_apply_location_deltas,     *)
(* pipeline.py:generate_scenes).                                           *)
Chained ==
  \A p \in People :
    LET ms == MovesOf(p) IN
    /\ \A k \in 1..Len(ms) :
         LET from == IF k = 1 THEN Known(p) ELSE ms[k - 1].after
         IN  from = nowhere \/ ms[k].before = from
    /\ state.place[p] = IF ms = <<>> THEN Known(p) ELSE ms[Len(ms)].after

(* A finished chapter tells every event of its plan in the scene that was  *)
(* to tell it, once, and none that the ledger has as over                  *)
(* (pipeline.py:_validate_plan, scene_continuity.py).                      *)
ToldOnce ==
  status = "merged" =>
    /\ \A i \in 1..Len(plan) :
         /\ ToSet(IdsOf(drafts[i].events)) = ToSet(IdsOf(plan[i]))
         /\ Len(drafts[i].events) = Cardinality(ToSet(IdsOf(plan[i])))
    /\ \A i, j \in 1..Len(plan) :
         i # j => ToSet(IdsOf(drafts[i].events)) \intersect ToSet(IdsOf(drafts[j].events)) = {}
    /\ PlanIds \intersect {e.id : e \in {x \in start.ledger.past : ~x.open}} = {}

(* An answer that keeps to what its prompt shows and to the plan.          *)
Honest(shown, answer) ==
  /\ IdsOf(answer.events) = IdsOf(plan[scene])
  /\ \A k \in 1..Len(answer.moves) :
       /\ answer.moves[k].before = shown[answer.moves[k].who]
       /\ \A j \in 1..(k - 1) : answer.moves[j].who # answer.moves[k].who
  /\ \A k \in 1..Len(answer.events) :
       LET e == answer.events[k] IN
       /\ e.at # nowhere =>
            \A p \in e.who : \/ shown[p] \in {nowhere, e.at}
                             \/ \E m \in ToSet(answer.moves) : m.who = p /\ m.after = e.at
       /\ ~Repeats(state, e) /\ ~Restarts(state, e)

Concerns(answer) ==
  UNION {e.who : e \in ToSet(answer.events)} \union {m.who : m \in ToSet(answer.moves)}

(* Such an answer is accepted, unless it is about someone whose place the  *)
(* state knows and the prompt holds back, or the plan itself cannot be     *)
(* drafted (generation_state_view.py:filter_scene_state_for_generation     *)
(* beside scene_continuity.py:validate_scene_transition).                  *)
HonestPasses ==
  status = "drafting" =>
    LET shown == Shown(state, view) IN
    \A answer \in Answers(plan[scene]) :
      Honest(shown, answer) =>
        \/ Accepts(state, scene, answer)
        \/ \E p \in Concerns(answer) : shown[p] = nowhere /\ state.place[p] # nowhere
        \/ ToSet(IdsOf(plan[scene])) \intersect (Barred(scene) \union state.closed) # {}
        \/ Len(plan[scene]) # Cardinality(ToSet(IdsOf(plan[scene])))

(* A place that is only reported is given as a fact to no scene until a    *)
(* scene of this chapter has moved that person, and to no validator        *)
(* (generation_state_view.py:apply_generation_state_view_to_snapshot).     *)
SureOnly ==
  \A p \in view.unsure :
    /\ Shown(state, view)[p] # nowhere => MovesOf(p) # <<>>
    /\ Positions(start.ledger, view)[p] = nowhere

(* Until a scene moves someone, no prompt gives two places for a person    *)
(* the read set names, and the first place any prompt gives is the one the *)
(* first move must start from.  Afterwards a scene is told the old place   *)
(* beside the new one (input_pack.py:build_input_pack, # Spatial State).   *)
OneTruth ==
  \A p \in start.reads.places, stage \in {"plan", "scene", "repair"} :
    MovesOf(p) = <<>> =>
      LET told == PromptPlaces(start.ledger, view, state, stage, p)
      IN  Cardinality(told) <= 1 /\ (Known(p) # nowhere => told \subseteq {Known(p)})

(* A scene is told of everything this chapter has already told.            *)
KnowsOver ==
  status = "drafting" =>
    LET over == ShownClosed(state, view, PlanIds)
    IN  Barred(scene) \intersect state.closed \subseteq over /\ over \subseteq state.closed

(* The plan of a book without read sets is refused, or knows everyone an   *)
(* open event of the book is about, within its limit, and knows all when   *)
(* all fits (authoritative_context.py:project_authoritative_state).        *)
PlanKnows ==
  \A limit \in 0..(Cardinality(People) + 1), ranked \in SetToSeqs(start.ledger.people) :
    LET needed   == Required(start.ledger, {}, {})
        selected == Selected(start.ledger, needed, ranked, limit)
    IN  Refused(start.ledger, needed, limit) \/
          /\ \A e \in start.ledger.past : e.open => e.who \intersect start.ledger.people \subseteq selected
          /\ Cardinality(selected) + Cardinality(needed.events) <= limit
          /\ Cardinality(start.ledger.people) + Cardinality(needed.events) <= limit
               => selected = start.ledger.people

DraftsHold ==
  /\ DraftingTypeOK /\ Chained /\ ToldOnce /\ HonestPasses /\ SureOnly /\ OneTruth /\ KnowsOver
  /\ scene = 1 => PlanKnows
=============================================================================
