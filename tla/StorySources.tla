---------------------------- MODULE StorySources ----------------------------
(***************************************************************************)
(* What an author writes in the tracking and setting files of a book, what *)
(* a strict run writes beside it, and what is read of both:                *)
(*   - the semantic parser (story_project/semantic_parser.py), which takes *)
(*     the author's rows first and fills gaps from the managed blocks;     *)
(*   - the managed block of a tracking file and its tombstones             *)
(*     (story_project/managed_block.py), rewritten by every strict chapter *)
(*     (story_project/writer.py);                                          *)
(*   - the gate of a strict run (story_project/activation.py);             *)
(*   - the baseline a migration to event authority makes of the setting    *)
(*     files and the operator's decisions (migration_v2.py,                *)
(*     migration_execution.py).                                            *)
(*                                                                         *)
(* A row is [form, path, value].  A path is a dotted field path, kept as a *)
(* sequence.  The race of an edit with a chapter that is being written is  *)
(* AuthorityBarrier's, the commit of all blocks at once PersistenceV1's,   *)
(* and how a migration is executed EventMigration's.                       *)
(***************************************************************************)
EXTENDS Integers, Sequences, FiniteSets, SequencesExt, FiniteSetsExt

CONSTANTS Texts,      \* what a row may say
          Decisions,  \* what an operator may decide
          none,       \* no text
          MaxRows,    \* bound: rows an author keeps
          MaxEdits,   \* bound: changes of the author
          MaxRuns     \* bound: strict chapters

VARIABLES rows,       \* what the author wrote: file -> rows
          retired,    \* fields the author retired by a tombstone outside the block
          blocks,     \* the managed block of each tracking file
          run,        \* the last chapter committed
          baseline,   \* what the migration put into memory: one record, or none
          edits

vars == <<rows, retired, blocks, run, baseline, edits>>

Tracking == {"context", "character_state", "foreshadowing", "timeline"}

\* The setting files in the order they are read; one of them describes a place.
SettingFiles == <<"lore", "place", "rule">>
Settings == ToSet(SettingFiles)
IsPlace(f) == f = "place"

\* Lore and place have the same heading, so they are about one subject.
Subject(f) == IF f = "rule" THEN "law" ELSE "isle"

Row(form, path, v) == [form |-> form, path |-> path, value |-> v]

\* A manual record of a person is filed under a digest of the name, a managed one under the name.
ManualPerson == "id-of-ann"
Person == "ann"

Rows(f) ==
    CASE f = "context"         -> {Row("pair", <<"story", "place">>, v) : v \in Texts}
      [] f = "character_state" -> {Row("pair", <<"characters", ManualPerson, k>>, v) :
                                        k \in {"location", "status"}, v \in Texts}
      [] f = "foreshadowing"   -> {Row(form, <<"foreshadowing", "f1">>, v) : form \in {"table", "list"}, v \in Texts}
      [] f = "timeline"        -> {Row("table", <<"timeline", "t1">>, v) : v \in Texts}
                                    \cup {Row("list", <<"timeline", v>>, v) : v \in Texts}
      [] OTHER                 -> {Row("table", <<"origin">>, v) : v \in Texts} \cup {Row("list", <<"fact">>, v) : v \in Texts}

Paths(s) == {s[i].path : i \in DOMAIN s}
Said(s, p) == {s[i].value : i \in {j \in DOMAIN s : s[j].path = p}}
OfForm(s, form) == SelectSeq(s, LAMBDA r : r.form = form)
ValuesOf(s, p) == LET t == SelectSeq(s, LAMBDA r : r.path = p) IN [i \in DOMAIN t |-> t[i].value]

-----------------------------------------------------------------------------
(* The author's rows.                                                      *)

\* A record is what is known (pairs of a path and a text), the paths the author is an authority
\* for, and the paths in dispute.
Reading(facts, claims, disputes) == [facts |-> facts, claims |-> claims, disputes |-> disputes]

\* One label of the context file: it is read when all rows say the same.
ReadContext(s) ==
    LET agreed == {p \in Paths(s) : Cardinality(Said(s, p)) = 1}
    IN Reading({<<p, v>> \in agreed \X Texts : v \in Said(s, p)}, agreed, Paths(s) \ agreed)

\* What is left after the first n rows of one field: a row that differs removes the value and is
\* itself dropped, so the row after it is taken again.
Kept(vs) ==
    LET kept[n \in 0..Len(vs)] == IF n = 0 THEN none
                                  ELSE IF kept[n-1] \in {none, vs[n]} THEN vs[n] ELSE none
    IN kept
Clashes(vs) == \E n \in DOMAIN vs : Kept(vs)[n-1] \notin {none, vs[n]}
Held(vs) == Kept(vs)[Len(vs)]

\* A position is set with every location row taken, and stays when the location is removed.
Position(vs) == LET taken == {n \in DOMAIN vs : Kept(vs)[n] # none} IN vs[Max(taken)]

ReadCharacters(s) ==
    LET at == ValuesOf(s, <<"characters", ManualPerson, "location">>)
        positions == IF at = <<>> THEN {} ELSE {<<"positions", Person>>}
    IN Reading({<<p, Held(ValuesOf(s, p))>> : p \in {q \in Paths(s) : Held(ValuesOf(s, q)) # none}}
                   \cup {<<p, Position(at)>> : p \in positions},
               Paths(s) \cup positions,
               {p \in Paths(s) : Clashes(ValuesOf(s, p))})

\* The rows of the tables; when they give none, the items of the lists.
ReadForm(s) == IF OfForm(s, "table") # <<>> THEN OfForm(s, "table") ELSE OfForm(s, "list")
FirstOf(s) == {<<p, ValuesOf(s, p)[1]>> : p \in Paths(s)}
Repeated(s) == {p \in Paths(s) : Len(ValuesOf(s, p)) > 1}

\* The same id twice: two equal rows of a table are one, two items of a list are a dispute.
ReadForeshadowing(s) ==
    LET t == ReadForm(s)
    IN Reading(FirstOf(t), Paths(t),
               {p \in Repeated(t) : OfForm(t, "list") # <<>> \/ Cardinality(Said(t, p)) > 1})

\* An item of a list has its id from its text and is not compared with another.
ReadTimeline(s) ==
    LET t == ReadForm(s)
    IN Reading(FirstOf(t), Paths(t), {p \in Repeated(t) : OfForm(t, "list") = <<>>})

ReadManual(f, s) ==
    CASE f = "context"         -> ReadContext(s)
      [] f = "character_state" -> ReadCharacters(s)
      [] f = "foreshadowing"   -> ReadForeshadowing(s)
      [] f = "timeline"        -> ReadTimeline(s)

\* One setting file: the keys of its tables, and the items of its lists.
Fields(s) == {<<"origin", Held(ValuesOf(s, <<"origin">>))>>} \ {<<"origin", none>>}
Facts(s) == ValuesOf(s, <<"fact">>)
Key(f) == IF IsPlace(f) THEN <<"locations", Subject(f), "origin">> ELSE <<"settings", Subject(f), "fields", "origin">>

\* The entry of a subject is the one of the last file that has one: no two files are compared.
LastOfSubjects(files) ==
    {f \in files : \A i, j \in DOMAIN SettingFiles :
        SettingFiles[i] = f /\ SettingFiles[j] \in files /\ Subject(SettingFiles[j]) = Subject(f) => j <= i}

ReadSettings(tree) ==
    LET sections == LastOfSubjects({f \in Settings : Facts(tree[f]) # <<>> \/ (~IsPlace(f) /\ Fields(tree[f]) # {})})
        places == LastOfSubjects({f \in Settings : IsPlace(f) /\ Fields(tree[f]) # {}})
        Filed(f) == {<<Key(f), kv[2]>> : kv \in Fields(tree[f])}
    IN Reading(UNION {Filed(f) : f \in {g \in sections : ~IsPlace(g)} \cup places}
                   \cup UNION {{<<<<"settings", Subject(f), "facts", i>>, Facts(tree[f])[i]>> :
                                    i \in DOMAIN Facts(tree[f])} : f \in sections},
               UNION {{Key(f) : i \in DOMAIN ValuesOf(tree[f], <<"origin">>)}
                          \cup {<<"settings", Subject(f), "facts", i>> : i \in DOMAIN Facts(tree[f])} : f \in Settings},
               {<<"settings", Subject(f), "fields", "origin">> :
                    f \in {g \in Settings : Clashes(ValuesOf(tree[g], <<"origin">>))}})

-----------------------------------------------------------------------------
(* The managed blocks.                                                     *)

NoBlock == [form |-> "absent", values |-> {}, tombs |-> {}]

\* A person's change record, all positions in one value, the other keys of the analysis.
Analysed(f, n, v) ==
    CASE f = "context"         -> {<<<<"story", "place">>, v>>, <<<<"story", "ending">>, v>>}
      [] f = "character_state" -> {<<<<"characters", Person>>, v>>, <<<<"positions">>, v>>, <<<<"spaces">>, v>>}
      [] f = "timeline"        -> {<<<<"timeline", "chapter", n>>, v>>}
      [] OTHER                 -> {}

\* A mutant: only the tombstones that stand now are kept.
WriteBlockAfresh(block, dead, new) ==
    [form |-> "whole", tombs |-> dead,
     values |-> {e \in {x \in block.values : \A y \in new : y[1] # x[1]} \cup new : e[1] \notin dead}]

\* The fields of this chapter over those of the block; a tombstone, once seen, stays.
WriteBlock(block, dead, new) ==
    LET tombs == block.tombs \cup dead
        kept == {e \in block.values : \A x \in new : x[1] # e[1]}
    IN [form |-> "whole", values |-> {e \in kept \cup new : e[1] \notin tombs}, tombs |-> tombs]

Extends(p, q) == IsPrefix(p, q) \/ IsPrefix(q, p)
HasManualAuthority(claims, p) == \E c \in claims : Extends(c, p)

\* A managed value fills a gap.  The positions are no gap: their table exists from the start.
Fills(block, manual) ==
    {e \in block.values : /\ e[1] \notin block.tombs
                          /\ ~HasManualAuthority(manual.claims, e[1])
                          /\ e[1] # <<"positions">>}

\* All spatial state is dropped when nobody has a position.
Settled(facts) ==
    IF \E e \in facts : IsStrictPrefix(<<"positions">>, e[1]) THEN facts ELSE {e \in facts : e[1] # <<"spaces">>}

ReadTracking(f, tree, bs) ==
    LET manual == ReadManual(f, tree[f])
    IN IF bs[f].form \in {"torn", "foreign"}
       THEN [manual EXCEPT !.disputes = @ \cup {<<"managed", f>>}]
       ELSE [manual EXCEPT !.facts = Settled(@ \cup Fills(bs[f], manual))]

\* The semantic state of a tree.
Parsed(tree, bs) ==
    LET read == {ReadTracking(f, tree, bs) : f \in Tracking} \cup {ReadSettings(tree)}
    IN Reading(UNION {r.facts : r \in read}, UNION {r.claims : r \in read}, UNION {r.disputes : r \in read})

-----------------------------------------------------------------------------
(* The baseline of a migration.                                            *)

\* A decision is [people, threads, owners]: who is where, under an id of the operator's choice;
\* the open threads in their order; and whose inventory and corruption are given.
Named(d, name) == {d.people[p].place : p \in {q \in DOMAIN d.people : d.people[q].name = name}} \ {none}

\* One place for a name, however many records share it; a thread is listed once and is open.
Executable(d) ==
    /\ \A p \in DOMAIN d.people : Cardinality(Named(d, d.people[p].name)) <= 1
    /\ \A i, j \in DOMAIN d.threads : d.threads[i].id = d.threads[j].id => i = j
    /\ \A i \in DOMAIN d.threads : d.threads[i].status # "resolved"

Positions(d) == {<<d.people[p].name, d.people[p].place>> : p \in {q \in DOMAIN d.people : d.people[q].place # none}}

\* Every thread is a foreshadowing and an open thread.
OpenThreads(d) == {<<kind, d.threads[i].id>> : kind \in {"foreshadowing", "open_thread"}, i \in DOMAIN d.threads}

\* Whose an inventory, or a corruption, is: a person the operator described, or nobody's.
OwnerRef(d, o) == IF o \in DOMAIN d.people THEN o ELSE "world"

\* The files that are evidence for a field.  Two files about one subject are evidence for each
\* other's fields, whichever of them was read.
Evidence(tree, path) ==
    {f \in Settings : \/ path = Key(f) /\ ValuesOf(tree[f], <<"origin">>) # <<>>
                      \/ \E i \in DOMAIN Facts(tree[f]) : path = <<"settings", Subject(f), "facts", i>>}

IsStatic(path) == path[1] \in {"settings", "locations"}
World(c) == {e \in c.facts : IsStatic(e[1])}

\* The subjects that become a location: all evidence of their section is a place's, or they have
\* the fields of one.
StaticPlaces(tree, world) ==
    {e[1][2] : e \in {x \in world : \/ x[1][1] = "locations"
                                    \/ \A y \in {z \in world : z[1][1] = "settings" /\ z[1][2] = x[1][2]} :
                                          \A f \in Evidence(tree, y[1]) : IsPlace(f)}}

\* Settings become the world, decisions become everything else; nothing of the tracking files does.
BaselineOf(c, tree, d) ==
    LET world == World(c)
        static == StaticPlaces(tree, world)
    IN [world |-> world, cites |-> [p \in {e[1] : e \in world} |-> Evidence(tree, p)],
        positions |-> Positions(d), locations |-> static \cup {x[2] : x \in Positions(d)},
        people |-> DOMAIN d.people, threads |-> OpenThreads(d),
        owners |-> {OwnerRef(d, o) : o \in d.owners}]

\* A disputed candidate cannot be approved, whatever the operator decides.
Approvable(c) == c.disputes = {}

-----------------------------------------------------------------------------
(* The author, the strict chapters and the operator.                       *)

Blank == [f \in Tracking \cup Settings |-> <<>>]

\* A book that has a row, or none yet.
Init ==
    /\ rows \in {Blank} \cup UNION {{[Blank EXCEPT ![f] = <<r>>] : r \in Rows(f)} : f \in DOMAIN Blank}
    /\ retired = [f \in Tracking |-> {}]
    /\ blocks = [f \in Tracking |-> NoBlock]
    /\ run = 0 /\ baseline = <<>> /\ edits = 0

\* With event authority neither files nor blocks are an authority any more.
Legacy == baseline = <<>>

Edited == Legacy /\ edits < MaxEdits /\ edits' = edits + 1 /\ UNCHANGED <<run, baseline>>

AddRow(f, r) ==
    /\ MapThenSumSet(LAMBDA g : Len(rows[g]), DOMAIN rows) < MaxRows
    /\ rows' = [rows EXCEPT ![f] = Append(@, r)]
    /\ Edited /\ UNCHANGED <<retired, blocks>>

DropRow(f, i) ==
    /\ rows' = [rows EXCEPT ![f] = RemoveAt(@, i)]
    /\ Edited /\ UNCHANGED <<retired, blocks>>

\* A tombstone is written or taken out again.
Retire(f, p) ==
    /\ retired' = [retired EXCEPT ![f] = IF p \in @ THEN @ \ {p} ELSE @ \cup {p}]
    /\ Edited /\ UNCHANGED <<rows, blocks>>

\* A block is damaged, comes from another book, or is deleted.
Damage(f, form) ==
    /\ blocks[f].form = "whole"
    /\ blocks' = [blocks EXCEPT ![f] = IF form = "absent" THEN NoBlock ELSE [@ EXCEPT !.form = form]]
    /\ Edited /\ UNCHANGED <<rows, retired>>

\* A strict chapter is only begun from sources without a dispute, and rewrites every block.
Ready(c) == c.disputes = {}
Managed(f, v) == WriteBlock(blocks[f], retired[f], Analysed(f, run + 1, v))

Chapter(v) ==
    /\ Legacy /\ run < MaxRuns /\ Ready(Parsed(rows, blocks))
    /\ run' = run + 1
    /\ blocks' = [f \in Tracking |-> Managed(f, v)]
    /\ UNCHANGED <<rows, retired, baseline, edits>>

\* That the sources are those the operator was shown is checked when the migration is executed:
\* see EventMigration.
Import(d) ==
    /\ Legacy /\ Executable(d)
    /\ LET c == Parsed(rows, blocks)
       IN Approvable(c) /\ baseline' = <<BaselineOf(c, rows, d)>>
    /\ UNCHANGED <<rows, retired, blocks, run, edits>>

Retirable(f) == {e[1] : e \in Analysed(f, 1, none)}

Next ==
    \/ \E f \in Tracking \cup Settings : \E r \in Rows(f) : AddRow(f, r)
    \/ \E f \in Tracking \cup Settings : \E i \in DOMAIN rows[f] : DropRow(f, i)
    \/ \E f \in Tracking : \E p \in Retirable(f) : Retire(f, p)
    \/ \E f \in Tracking, form \in {"torn", "foreign", "absent"} : Damage(f, form)
    \/ \E v \in Texts : Chapter(v)
    \/ \E d \in Decisions : Import(d)

Spec == Init /\ [][Next]_vars

-----------------------------------------------------------------------------
(* Properties.                                                             *)

TextsOf(c, p) == {e[2] : e \in {x \in c.facts : x[1] = p}}

\* What the author says of a field in one form and one voice is what is read, whatever a block says.
AuthorWins ==
    LET c == Parsed(rows, blocks)
    IN \A f \in Tracking : \A p \in Paths(rows[f]) :
           Cardinality(Said(rows[f], p)) = 1 /\ Len(ReadForm(rows[f])) \in {0, Len(rows[f])}
               => TextsOf(c, p) = Said(rows[f], p)

\* Two rows of one file that are read and differ are a dispute.
Disputed ==
    LET c == Parsed(rows, blocks)
    IN /\ \A f \in Tracking \ {"context", "character_state"} : \A p \in Paths(ReadForm(rows[f])) :
              Cardinality(Said(ReadForm(rows[f]), p)) > 1 => p \in c.disputes
       /\ \A f \in {"context", "character_state"} : \A p \in Paths(rows[f]) :
              Cardinality(Said(rows[f], p)) > 1 => p \in c.disputes
       /\ (\E f \in Settings : Cardinality(Said(rows[f], <<"origin">>)) > 1) => c.disputes # {}

\* What a migration put into memory: for a subject with a file of its own, the text of the file
\* and nothing else; nobody is in two places or in a place memory does not know; what somebody
\* owns is owned by somebody memory knows.
ImportedTruly ==
    \A i \in DOMAIN baseline :
        LET b == baseline[i]
            tree == rows
        IN /\ \A e \in b.world : \E f \in b.cites[e[1]] : \E p \in Paths(tree[f]) : e[2] \in Said(tree[f], p)
           /\ {<<e[1], e[2]>> : e \in {x \in b.world : x[1] = Key("rule")}}
                  = {<<Key("rule"), v>> : v \in Said(tree["rule"], <<"origin">>)}
           /\ \A x, y \in b.positions : x[1] = y[1] => x = y
           /\ \A x \in b.positions : x[2] \in b.locations
           /\ b.owners \subseteq b.people \cup {"world"}

\* A chapter never writes what the next one cannot read, hides nothing the author says, forgets
\* nothing it was not told to, and what was retired once does not come back.
ChapterKeeps ==
    LET c == Parsed(rows, blocks)
        d == Parsed(rows', blocks')
        dead == UNION {blocks[f].tombs \cup retired[f] : f \in Tracking}
    IN run' # run => /\ d.disputes = {}
                     /\ \A e \in c.facts : e[1] \notin dead => TextsOf(d, e[1]) # {}
                     /\ \A e \in d.facts : e[1] \in dead => e[1] \in c.claims
                     /\ \A f \in Tracking : retired[f] \cup blocks[f].tombs \subseteq blocks'[f].tombs

SourcesStep == AuthorWins' /\ Disputed' /\ ImportedTruly' /\ ChapterKeeps

\* See the four above (semantic_parser.py, managed_block.py, writer.py, migration_execution.py).
SourcesHold == [][SourcesStep]_vars
=============================================================================
