---------------------------- MODULE GenerationView ----------------------------
(***************************************************************************)
(* What a chapter's prompts are allowed to know of the book: the read set  *)
(* an outline asks for (state/chapter_read_set.py), the typed view that    *)
(* selects exactly it from the ledger (state/generation_state_view.py),    *)
(* what each stage of the prompt shows of it (prompt_compiler.py), the     *)
(* selection a book without read sets gets (state/authoritative_context.py) *)
(* and the state the first scene starts from                               *)
(* (chapter_generator/pipeline.py).                                        *)
(*                                                                         *)
(* Of the ledger's records only the places of people and the events are    *)
(* kept: every other collection is selected and overlaid alike.  A ledger  *)
(* is a record of                                                          *)
(*   people  the characters it holds,                                      *)
(*   place   the place its location record gives, or nowhere,              *)
(*   unsure  the people whose location record is not confirmed,            *)
(*   legacy  the place the snapshot's older fields give, or nowhere,       *)
(*   past    its events: id, kind, who, at, and whether they are open.     *)
(***************************************************************************)
EXTENDS Integers, Sequences, FiniteSets, SequencesExt

CONSTANTS People, Places, nowhere, Leads

Somewhere == Places \union {nowhere}

-----------------------------------------------------------------------------
(* The view.                                                               *)

(* A character without a location record is given the place of the older   *)
(* fields, and that as if it were confirmed.                               *)
Seeded(ledger) ==
  [p \in People |-> IF ledger.place[p] = nowhere /\ p \in ledger.people
                    THEN ledger.legacy[p] ELSE ledger.place[p]]

(* The read set in an outline says which chapter it is for.                *)
WrittenFor(reads, chapter) == reads.chapter = chapter

(* A read set names records that exist and new people that do not.         *)
Admits(ledger, reads) ==
  /\ reads.chars \subseteq ledger.people
  /\ \A p \in reads.places : Seeded(ledger)[p] # nowhere
  /\ reads.events \subseteq {e.id : e \in ledger.past}
  /\ \A p \in reads.fresh : p \notin ledger.people /\ ledger.place[p] = nowhere

(* Exactly what the read set names, without what is only for the audit.    *)
View(ledger, reads) ==
  [place  |-> [p \in People |-> IF p \in reads.places THEN Seeded(ledger)[p] ELSE nowhere],
   unsure |-> ledger.unsure \intersect reads.places,
   chars  |-> reads.chars,
   events |-> {e \in ledger.past : e.id \in reads.events},
   fresh  |-> reads.fresh,
   last   |-> reads.last]

(* The older fields under the view: a place that is not confirmed is taken *)
(* away, and one the read set does not name is left as it was.             *)
Overlaid(ledger, view) ==
  [p \in People |-> CASE p \in view.unsure -> nowhere
                      [] view.place[p] # nowhere -> view.place[p]
                      [] OTHER -> ledger.legacy[p]]

(* What the Director and the validators are given of them.                 *)
Positions(ledger, view) ==
  [p \in People |->
     IF p \in view.chars \/ (view.place[p] # nowhere /\ p \notin view.unsure)
     THEN Overlaid(ledger, view)[p] ELSE nowhere]

(* The places a scene is shown: those of the view at this moment, an       *)
(* unconfirmed one only when a scene has moved the person elsewhere, and   *)
(* those of the expected new people.                                       *)
Shown(state, view) ==
  [p \in People |->
     CASE p \in view.fresh -> state.place[p]
       [] view.place[p] = nowhere -> nowhere
       [] p \in view.unsure -> IF state.place[p] # view.place[p] THEN state.place[p] ELSE nowhere
       [] state.place[p] = nowhere -> view.place[p]
       [] OTHER -> state.place[p]]

(* The plan and the repair have the values of the view, and a scene those  *)
(* of its moment.                                                          *)
StagePlaces(view, state, stage) == IF stage = "scene" THEN Shown(state, view) ELSE view.place

(* Every place a prompt gives of a person: every prompt also has the older *)
(* fields, which no scene changes.                                         *)
PromptPlaces(ledger, view, state, stage, p) ==
  {StagePlaces(view, state, stage)[p], Overlaid(ledger, view)[p]} \ {nowhere}

(* The events a scene is told are over: of those it must know and those of *)
(* the plan.                                                               *)
ShownClosed(state, view, planned) ==
  {e.id : e \in {x \in view.events : ~x.open \/ x.id \in state.closed}}
    \union (state.closed \intersect planned)

-----------------------------------------------------------------------------
(* The selection of a book without read sets: what is required, the people *)
(* of every required event with them, or a refusal; then what still fits,  *)
(* best first.  Of a record only its size counts, one for each.            *)

OpenIds(ledger) == {e.id : e \in {x \in ledger.past : x.open}}
Dependencies(ledger, events) ==
  ledger.people \intersect UNION {e.who : e \in {x \in ledger.past : x.id \in events}}

Required(ledger, explicit, events) ==
  LET needed == events \union OpenIds(ledger)
  IN  [people |-> explicit \union Dependencies(ledger, needed), events |-> needed]

Fitting(ranked, chosen, limit) ==
  LET pick[i \in 0..Len(ranked)] ==
        IF i = 0 THEN chosen
        ELSE LET before == pick[i - 1]
             IN  IF Cardinality(before \union {ranked[i]}) <= limit
                 THEN before \union {ranked[i]} ELSE before
  IN  pick[Len(ranked)]

Refused(ledger, required, limit) ==
  Cardinality(required.people) + Cardinality(required.events) > limit

Selected(ledger, required, ranked, limit) ==
  Fitting(ranked, required.people, limit - Cardinality(required.events))

-----------------------------------------------------------------------------
(* The state the first scene starts from: the ledger as the snapshot holds *)
(* it, not as the view sees it, and the bridge from the last chapter.      *)

TheOnly(S) == IF Cardinality(S) = 1 THEN CHOOSE x \in S : TRUE ELSE nowhere
PlacesOf(place, S) == {place[p] : p \in S} \ {nowhere}

(* Where the chapter opens, when the ledger has an answer.                 *)
BridgePlace(ledger, last) ==
  LET there == PlacesOf(ledger.place, last.who)
      leads == PlacesOf(ledger.place, Leads \intersect
                 (IF last.who # {} THEN last.who ELSE ledger.people))
  IN  CASE last.who # {} /\ last.at \in there -> last.at
        [] last.who # {} /\ Cardinality(there) = 1 -> TheOnly(there)
        [] last.who # {} \/ Cardinality(leads) = 1 -> TheOnly(leads)
        [] OTHER -> TheOnly(PlacesOf(ledger.place, ledger.people))

(* The story's own account is used only where the ledger has none.         *)
Bridged(ledger, last) ==
  IF BridgePlace(ledger, last) # nowhere \/ last.at = nowhere THEN ledger.place
  ELSE [p \in People |-> IF p \in last.who /\ ledger.place[p] = nowhere
                         THEN last.at ELSE ledger.place[p]]

FirstState(ledger, last) ==
  [place  |-> Bridged(ledger, last),
   here   |-> IF BridgePlace(ledger, last) # nowhere THEN BridgePlace(ledger, last) ELSE last.at,
   closed |-> {e.id : e \in {x \in ledger.past : ~x.open}},
   done   |-> {[kind |-> e.kind, who |-> e.who, at |-> e.at] : e \in {x \in ledger.past : ~x.open}},
   open   |-> {[id |-> e.id, kind |-> e.kind, who |-> e.who, at |-> e.at] :
                 e \in {x \in ledger.past : x.open}}]
=============================================================================
