------------------------------- MODULE MCMemory -------------------------------
(***************************************************************************)
(* Memory, for TLC: two compiles of a memory file into the event store     *)
(* (MemoryCompile), the patches and the events they leave (MemoryReducer), *)
(* the files that are rebuilt from the events (MemoryCaches), and the      *)
(* facts chapters state (AuthoritativeState).                              *)
(* A behaviour exercises one of the parts.                                 *)
(***************************************************************************)
EXTENDS MemoryCaches, TLC

CONSTANT Parts

VARIABLES part, memory, snapshot, facts, lastDelta, refused, submitted,
          source, batches, canonical, tmp, step, mem, reported, edits, kills

factVars == <<snapshot, facts, lastDelta, refused, submitted>>
compileVars == <<source, batches, canonical, tmp, step, mem, reported, edits, kills>>

\* Patches over two characters, two entries and two keys, one operation of each kind MemoryReducer
\* has; a field is also set of a character, and in an object, that the memory does not have.
Upserts == [op : {"upsert_character"}, id : {"a", "b"}, value : {"x" :> 1 @@ "y" :> 2}]
Upgrade == [op |-> "upsert_character", id |-> "a", value |-> "x" :> 3]
Placing == [op |-> "upsert_character", id |-> "a", value |-> "state" :> ("at" :> 1)]
Deletes == [op : {"delete_record"}, id : {"a", "b"}]
Entries == [op : {"append_timeline_event"}, id : {"e", "f"}, value : {"s" :> 1}]
Worlds == [op : {"update_world"}, value : {"k" :> 1, "l" :> 2}]
FieldSets == [op : {"update_character_state"}, id : {"a"}, field : {<<"x">>, <<"status">>, <<"state", "at">>}, value : {3}]
OpLists == {<<o>> : o \in Upserts \cup Deletes \cup Entries \cup Worlds \cup {Upgrade, Placing} \cup FieldSets}
           \cup {<<o, q>> : o \in Upserts \cup Entries, q \in Deletes \cup {Upgrade} \cup FieldSets}
           \cup {<<f, Upgrade>> : f \in FieldSets}

Reducer == INSTANCE MemoryReducer WITH
    Patches <- {[id |-> ToString(ops), ops |-> ops] : ops \in OpLists}, MaxRev <- 3

\* Two processes that compile while the file is edited, and one that is killed again and again.
Compiling == INSTANCE MemoryCompile WITH
    Compilers <- {"c1", "c2"}, Sources <- {"s1", "s2"}, MaxEdits <- 2,
    MaxCrashes <- 1, MaxRev <- 3, pc <- step, crashes <- kills
Killed == INSTANCE MemoryCompile WITH
    Compilers <- {"c1"}, Sources <- {"s1", "s2", "s3"}, MaxEdits <- 3,
    MaxCrashes <- 3, MaxRev <- 4, pc <- step, crashes <- kills

\* Beside the runs of Memory.cfg: one run and a preflight, which rebuilds caches without the fence.
Preflighted == INSTANCE MemoryCaches WITH
    Runs <- {"r1"}, Preflights <- {"f"}, MaxCrashes <- 1

ASSUME CachesAssumption /\ Preflighted!CachesAssumption /\ Compiling!CompileAssumption /\ Killed!CompileAssumption

\* Chapters that state one or two facts about the events e1 (which resets) and e2: of every
\* ledger, right and wrong, from every source.
FactEvents == {"e1" :> [resets |-> TRUE, scene |-> 1], "e2" :> [resets |-> FALSE, scene |-> 1]}
Person(id, name, aliases, before, after) ==
    [ledger |-> "characters", id |-> id, name |-> name, aliases |-> aliases, identity |-> "none",
     targets |-> {}, before |-> before, after |-> after, event |-> "none"]
People == {<<Person("ann", "Ann", {"Red"}, "calm", "angry")>>, <<Person("ann", "Ann", {}, "none", "calm")>>,
           <<Person("ann", "Ann", {"Red"}, "none", "calm"), Person("bob", "Bob", {"Red"}, "none", "calm")>>,
           <<Person("bob", "none", {"Red"}, "none", "calm")>>, <<Person("bob", "none", {}, "none", "calm"), Person("bob", "Bob", {}, "calm", "angry")>>}
Tie(id, type, after) ==
    [ledger |-> "relationships", id |-> id, source |-> "ann", target |-> "bob", type |-> type,
     before |-> "none", after |-> after, event |-> "e2", scene |-> 1]
Ties == {<<Tie("x", "kin", "warm")>>, <<Tie("y", "none", "none")>>, <<Tie("y", "foe", "none")>>}
No == -99
Guard(op, members, before, moved, unresolved, delta, count, event, audited) ==
    [ledger |-> "rosters", id |-> "guard", op |-> op, name |-> "Guard", members |-> members, before |-> before,
     moved |-> moved, unresolved |-> unresolved, audited |-> audited, delta |-> delta, count |-> count,
     event |-> event, scene |-> 1]
Guards == {<<Guard("replace", {}, 0, No, 2, 2, 2, "e1", FALSE)>>, <<Guard("join", {"m"}, No, No, No, 1, 3, "e1", FALSE)>>,
           <<Guard("join", {"m"}, No, No, No, 1, 1, "e2", FALSE)>>, <<Guard("dead", {"m"}, No, No, No, -1, 0, "e1", FALSE)>>,
           <<Guard("resolve", {"m"}, 2, -1, No, 0, 2, "e1", FALSE)>>, <<Guard("dead", {"m"}, 1, 0, No, -1, 1, "e2", FALSE)>>}
Audited == Guard("replace", {}, 0, No, 2, 2, 2, "none", TRUE)
Count(previous, declared, rule, minimum, event) ==
    [ledger |-> "counters", id |-> "taint", previous |-> previous, delta |-> declared - previous,
     declared |-> declared, rule |-> rule, minimum |-> minimum, event |-> event]
Counts == {<<Count(2, 3, "none", No, "e2")>>, <<Count(3, 2, "none", No, "e1")>>, <<Count(3, 2, "none", No, "e2")>>,
           <<Count(3, 3, "free", No, "e2")>>, <<Count(3, 3, "none", 5, "e2")>>}
Coins(previous, declared) ==
    [ledger |-> "inventory", id |-> "coin", previous |-> previous, delta |-> declared - previous,
     declared |-> declared, event |-> "e1"]
Goods == {<<Coins(0, 1)>>, <<Coins(1, 0), Coins(0, -1)>>, <<Coins(1, 0), Coins(0, 1), Coins(1, 0)>>}
Moves == {<<[ledger |-> "locations", id |-> "ann", before |-> b, after |-> "road"]>> : b \in {"inn", "road"}}
About(event, tiers, changes) ==
    [tier : tiers, events : {e \in FactEvents : DOMAIN e = {event}}, changes : changes, prose : {<<>>}]
Saying(deltas, id, claims) == {[d EXCEPT !.prose = id :> said] : d \in deltas, said \in claims}
PeopleDeltas == About("e2", {2}, People \cup Ties \cup Moves) \cup About("e2", {3}, People)
NumberDeltas ==
    About("e1", {2}, Goods)
    \cup About("e1", {2}, {g \in Guards : g[1].event = "e1"}) \cup About("e2", {2}, {g \in Guards : g[1].event = "e2"})
    \cup About("e1", {2}, {c \in Counts : c[1].event = "e1"}) \cup About("e2", {2}, Counts)
    \cup Saying(About("e2", {2}, {<<Count(2, 3, "none", No, "e2")>>}), "taint", {{2}, {2, 3}})
    \cup Saying(About("e1", {2}, {<<Guard("join", {"m"}, No, No, No, 1, 3, "e1", FALSE)>>}), "guard", {{2, 3}, {4}})
Stated(changes) == [tier : {1}, events : {<<>>}, changes : changes, prose : {<<>>}]

FactsAbout(deltas, baselines) == INSTANCE AuthoritativeState WITH
    Deltas <- deltas, Baselines <- baselines, MaxDeltas <- 3, memory <- facts, last <- lastDelta
FactsOf == INSTANCE AuthoritativeState WITH
    Deltas <- {}, Baselines <- {}, MaxDeltas <- 3, memory <- facts, last <- lastDelta

ASSUME FactsOf!FactsAssumption

MCInit == part \in Parts /\ Reducer!Init /\ FactsOf!Init
          /\ (IF part = "preflight" THEN Preflighted!Init ELSE Init)
          /\ (IF part = "killed" THEN Killed!Init ELSE Compiling!Init)
          /\ (part \notin {"compile", "killed"} => source = "s1")

MCNext ==
    \/ part = "compile" /\ Compiling!Next /\ UNCHANGED <<part, vars, memory, factVars>>
    \/ part = "killed" /\ Killed!Next /\ UNCHANGED <<part, vars, memory, factVars>>
    \/ part = "reduce" /\ Reducer!Next /\ UNCHANGED <<part, vars, factVars, compileVars>>
    \/ part = "caches" /\ Next /\ UNCHANGED <<part, memory, factVars, compileVars>>
    \/ part = "preflight" /\ Preflighted!Next /\ UNCHANGED <<part, memory, factVars, compileVars>>
    \/ part = "people" /\ FactsAbout(PeopleDeltas, Stated(Moves))!Next /\ UNCHANGED <<part, vars, memory, compileVars>>
    \/ part = "numbers" /\ FactsAbout(NumberDeltas, Stated({<<Audited>>}))!Next /\ UNCHANGED <<part, vars, memory, compileVars>>

\* The fairness of MemoryCaches, for the parts that are the caches.
MCFairness ==
    /\ \A p \in Procs : WF_vars(part = "caches" /\ Step(p))
    /\ \A p \in {"r1", "f"} : WF_vars(part = "preflight" /\ Preflighted!Step(p))

MCSpec == MCInit /\ [][MCNext]_<<part, vars, memory, factVars, compileVars>> /\ MCFairness

\* What was compiled is lost by a fork or a torn batch only, a compile on its own leaves the cache
\* the store replays to, and there is one history but for a fork: see MemoryCompile
\* (compile.py, event_store.py).
CompiledIsStored ==
    /\ part = "compile" => Compiling!LostByForkOnly /\ Compiling!AloneFollows /\ Compiling!OneHistory
    /\ part = "killed" => Killed!LostByForkOnly /\ Killed!AloneFollows /\ Killed!OneHistory

\* The events a patch leaves reproduce the memory it made, and replay on no other: see
\* MemoryReducer (reducer.py).
EventsAreTheHistory == part = "reduce" => Reducer!EventsReproducePatch /\ Reducer!EventsBoundToBase

\* Only a harmed cache holds a transaction up or stays lost, and a marker adds one chapter to the
\* events: see MemoryCaches (ensure_event_authority_caches).
CachesSettle ==
    /\ part \in {"caches", "preflight"} => HeldUpByCacheOnly /\ CachesHeal
    /\ OneChapterPerMarker

\* Whatever chapters and migrations state, the facts stay consistent, are never the worse for a
\* retry, and change for a reason: see AuthoritativeState (authoritative.py, roster.py).
FactsHold ==
    [][(part \in {"people", "numbers"}) => FactsOf!Consistent' /\ FactsOf!OnlyForReason]_<<part, factVars>>
=============================================================================
