--------------------------- MODULE MemoryReducer ---------------------------
(***************************************************************************)
(* The reducers of Memory V2 (core/memory_v2/reducer.py): how a patch      *)
(* changes the canonical memory, the events it leaves, and how a replay of *)
(* those events changes it.                                                *)
(*                                                                         *)
(* The memory keeps one collection of each shape the reducers know: a map  *)
(* of records that are merged field by field (characters), a list of       *)
(* records in the order they came (timeline) and an object whose keys are  *)
(* replaced (world).  Texts, evidence and the source index are left out.   *)
(***************************************************************************)
EXTENDS Integers, Sequences, FiniteSetsExt, SequencesExt, TLC

CONSTANTS Patches,  \* the patches a run may apply: records id, ops
          MaxRev    \* bound on revisions

VARIABLE memory

\* A value that may be absent is a set of at most one value.
Get(map, k) == IF k \in DOMAIN map THEN {map[k]} ELSE {}
Without(map, k) == [x \in DOMAIN map \ {k} |-> map[x]]
\* A field of a record, or of an object the record holds, is a path of one or two names.
Field(record, path) ==
    IF Len(path) = 1 THEN Get(record, path[1])
    ELSE UNION {Get(object, path[2]) : object \in Get(record, path[1])}
Merged(old, new) == IF old = {} THEN new ELSE new @@ CHOOSE v \in old : TRUE

EmptyMemory == [rev |-> 1, head |-> <<>>, characters |-> <<>>, timeline |-> <<>>, world |-> <<>>]
NewRecord(id) == "name" :> id @@ "status" :> "unknown"

\* Setting a field makes the object it lies in.
SetField(record, path, value) ==
    IF Len(path) = 1 THEN path[1] :> value @@ record
    ELSE path[1] :> Merged(Get(record, path[1]), path[2] :> value) @@ record

Failed == [ok |-> FALSE]

\* A list keeps the place of a record it has and appends a new one.
Indexes(list, id) == {k \in DOMAIN list : list[k].id = id}
Listed(list, id) == {list[k].val : k \in Indexes(list, id)}
Put(list, id, vals) ==
    IF vals = {} THEN SelectSeq(list, LAMBDA r : r.id # id)
    ELSE LET record == [id |-> id, val |-> CHOOSE v \in vals : TRUE] IN
         IF Indexes(list, id) = {} THEN Append(list, record)
         ELSE [k \in DOMAIN list |-> IF list[k].id = id THEN record ELSE list[k]]

-----------------------------------------------------------------------------
(* A patch: each operation changes the memory and says what it changed.    *)

Changed(m, path, before, after) ==
    [ok |-> TRUE, memory |-> m, path |-> path, before |-> before, after |-> after]

\* An operation of a patch; an unknown character is first given a default record.
Mutate(m, o) ==
    CASE o.op = "upsert_character" ->
           LET before == Get(m.characters, o.id)
               after == Merged(IF before = {} THEN {NewRecord(o.id)} ELSE before, o.value)
           IN Changed([m EXCEPT !.characters = o.id :> after @@ @], <<"characters", o.id>>, before, {after})
      [] o.op = "update_character_state" ->
           LET character == IF o.id \in DOMAIN m.characters THEN m.characters[o.id] ELSE NewRecord(o.id)
           IN Changed([m EXCEPT !.characters = o.id :> SetField(character, o.field, o.value) @@ @],
                      <<"characters", o.id>> \o o.field, Field(character, o.field), {o.value})
      [] o.op = "delete_record" ->
           IF o.id \notin DOMAIN m.characters THEN Failed
           ELSE Changed([m EXCEPT !.characters = Without(@, o.id)],
                        <<"characters", o.id>>, {m.characters[o.id]}, {})
      [] o.op = "append_timeline_event" ->
           LET before == Listed(m.timeline, o.id)
               after == Merged(before, o.value)
           IN Changed([m EXCEPT !.timeline = Put(@, o.id, {after})], <<"timeline", o.id>>, before, {after})
      [] o.op = "update_world" ->
           Changed([m EXCEPT !.world = o.value @@ @], <<"world">>, {m.world}, {o.value @@ m.world})

\* The event of an operation is bound to the revision and the head before it; its hash is the
\* chain of the patches and positions that led to it.
Event(m, patch, change, k) ==
    [rev |-> m.rev + 1, path |-> change.path, before |-> change.before, after |-> change.after,
     expected |-> m.head, hash |-> Append(m.head, <<patch.id, k>>)]

Advance(m, e) == [m EXCEPT !.rev = e.rev, !.head = e.hash]

ApplyPatch(m, patch) ==
    LET Step(acc, o) ==
          IF ~acc.ok THEN Failed
          ELSE LET change == Mutate(acc.memory, o)
                   e == Event(acc.memory, patch, change, Len(acc.events) + 1)
               IN IF ~change.ok THEN Failed
                  ELSE [ok |-> TRUE, memory |-> Advance(change.memory, e),
                        events |-> Append(acc.events, e)]
    IN FoldLeft(Step, [ok |-> TRUE, memory |-> m, events |-> <<>>], patch.ops)

-----------------------------------------------------------------------------
(* A replay: an event is applied without the operation that made it.       *)

ReadField(m, path) ==
    CASE path[1] = "timeline" -> Listed(m.timeline, path[2])
      [] path[1] = "world" -> {m.world}
      [] Len(path) = 2 -> Get(m.characters, path[2])
      [] OTHER -> UNION {Field(c, SubSeq(path, 3, Len(path))) : c \in Get(m.characters, path[2])}

\* A replay makes neither the record nor the object a field lies in.
Writable(m, path) ==
    \/ Len(path) < 3
    \/ /\ path[2] \in DOMAIN m.characters
       /\ Len(path) = 4 => path[3] \in DOMAIN m.characters[path[2]]

WriteField(m, path, vals) ==
    CASE path[1] = "timeline" -> [m EXCEPT !.timeline = Put(@, path[2], vals)]
      [] path[1] = "world" -> [m EXCEPT !.world = CHOOSE v \in vals : TRUE]
      [] vals = {} -> [m EXCEPT !.characters = Without(@, path[2])]
      [] OTHER -> LET val == CHOOSE v \in vals : TRUE IN
                  IF Len(path) = 2 THEN [m EXCEPT !.characters = path[2] :> val @@ @]
                  ELSE [m EXCEPT !.characters[path[2]] = SetField(@, SubSeq(path, 3, Len(path)), val)]

\* A mutant: the head an event expects is not compared.
ApplyAnywhere(m, events) ==
    LET Step(acc, e) ==
          IF \/ ~acc.ok \/ e.rev # acc.memory.rev + 1
             \/ ReadField(acc.memory, e.path) # e.before \/ ~Writable(acc.memory, e.path)
          THEN Failed
          ELSE [acc EXCEPT !.memory = Advance(WriteField(acc.memory, e.path, e.after), e)]
    IN FoldLeft(Step, [ok |-> TRUE, memory |-> m], events)

ApplyEvents(m, events) ==
    LET Step(acc, e) ==
          IF \/ ~acc.ok \/ e.rev # acc.memory.rev + 1 \/ e.expected # acc.memory.head
             \/ ReadField(acc.memory, e.path) # e.before \/ ~Writable(acc.memory, e.path)
          THEN Failed
          ELSE [acc EXCEPT !.memory = Advance(WriteField(acc.memory, e.path, e.after), e)]
    IN FoldLeft(Step, [ok |-> TRUE, memory |-> m], events)

-----------------------------------------------------------------------------
Init == memory = EmptyMemory

Reproduced(m, made) == made.ok /\ ApplyEvents(m, made.events) = [ok |-> TRUE, memory |-> made.memory]

\* A chapter, a migration or a revision is refused when its events do not reproduce what it made.
Apply(patch) == /\ memory.rev + Len(patch.ops) <= MaxRev
                /\ Reproduced(memory, ApplyPatch(memory, patch))
                /\ memory' = ApplyPatch(memory, patch).memory
Next == \E patch \in Patches : Apply(patch)
Spec == Init /\ [][Next]_memory

\* The patch sets a field where, after its earlier operations, there is no record or object for it.
MakesItsPlace(patch) ==
    \E k \in DOMAIN patch.ops :
        LET o == patch.ops[k]
            sofar == ApplyPatch(memory, [patch EXCEPT !.ops = SubSeq(@, 1, k - 1)]) IN
        o.op = "update_character_state" /\ ~Writable(sofar.memory, <<"characters", o.id>> \o o.field)

\* The events a patch leaves reproduce, from the memory it was applied to, the memory it made, so
\* that the history can stand for the memory; but for one that sets a field in a record or an
\* object it has to make first, which the events do not tell: no replay takes that one.  There is
\* no patch whose events give another memory.  (reducer.py, apply_memory_events.)
EventsReproducePatch ==
    \A patch \in Patches :
        LET made == ApplyPatch(memory, patch) IN
        made.ok => IF MakesItsPlace(patch) THEN ApplyEvents(memory, made.events) = Failed
                   ELSE Reproduced(memory, made)

\* Events replay on no other memory: those made after one patch are refused after another one,
\* even one of as many operations.
EventsBoundToBase ==
    LET after == [patch \in Patches |-> ApplyPatch(memory, patch)]
        Accepted == {patch \in Patches : after[patch].ok} IN
    \A one \in Accepted, patch \in Patches :
        LET made == ApplyPatch(after[one].memory, patch) IN
        made.ok => \A other \in Accepted \ {one} : ~ApplyEvents(after[other].memory, made.events).ok
=============================================================================
