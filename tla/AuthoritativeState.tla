-------------------------- MODULE AuthoritativeState --------------------------
(***************************************************************************)
(* The facts of a story that later chapters must not contradict            *)
(* (core/state/authoritative.py, core/state/roster.py): who is called      *)
(* what, how two characters are related, who belongs to which roster, what *)
(* is counted, owned and where.  A chapter brings a delta, a list of       *)
(* changes and of the events they are about.  The quality gate accepts it  *)
(* against the facts in the snapshot; the commit then applies it to the    *)
(* facts in the canonical memory (core/memory_v2/reducer.py), which are    *)
(* validated as a whole whenever memory is read or written.                *)
(*                                                                         *)
(* Partial functions from identifiers to records are ledgers.  A field     *)
(* that a record or a change may leave out holds None, NoNumber or {}.     *)
(* Abstracted: normalization of names (a name is its normal form), the     *)
(* free-text fields (one, "mood", stands for them), aliases of rosters and *)
(* descriptors of their members, and the wording of prose (a delta has the *)
(* numbers that the prose states of a counter or of a roster).             *)
(***************************************************************************)
EXTENDS Integers, FiniteSets, SequencesExt

CONSTANTS
    Deltas,      \* deltas chapters bring: [tier, events, changes, prose]
    Baselines,   \* deltas that migrations bring
    MaxDeltas    \* deltas submitted

FactsAssumption == MaxDeltas \in Nat

None == "none"
NoNumber == -99
Given(n) == n # NoNumber

\* Source precedence, strongest first; 2 is a chapter's own events.
Standard == 1
Inference == 3
Stronger(old, tier) == IF old < tier THEN old ELSE tier

\* A better source need not start from the value that is there.
Supersedes(old, tier) == tier < old

Has(ledger, id) == id \in DOMAIN ledger
Put(ledger, id, record) ==
    [x \in DOMAIN ledger \cup {id} |-> IF x = id THEN record ELSE ledger[x]]
Overlaid(old, new) == [x \in DOMAIN old \cup DOMAIN new |-> IF Has(new, x) THEN new[x] ELSE old[x]]

Ledgers == {"characters", "relationships", "rosters", "counters", "inventory", "locations", "events"}
Empty == [l \in Ledgers |-> <<>>]

(***************************************************************************)
(* Events.  A change cites the event it is about.                          *)
(***************************************************************************)

Cites(facts, delta, change) ==
    delta.tier = Standard \/ Has(delta.events, change.event) \/ Has(facts["events"], change.event)

SameScene(delta, change) ==
    change.scene = NoNumber \/ delta.events[change.event].scene = change.scene
CitesOwn(delta, change) ==
    delta.tier = Standard \/ (Has(delta.events, change.event) /\ SameScene(delta, change))

\* Purification, reset, consumption and the like.
IsReset(facts, delta, change) ==
    \/ Has(delta.events, change.event) /\ delta.events[change.event].resets
    \/ ~Has(delta.events, change.event) /\ Has(facts["events"], change.event)
       /\ facts["events"][change.event].resets

\* An event that is known is the same event.
EventsKept(facts, delta) ==
    \A e \in DOMAIN delta.events : Has(facts["events"], e) => delta.events[e] = facts["events"][e]

(***************************************************************************)
(* Characters and relationships.                                           *)
(***************************************************************************)

\* A field that is given and was known starts from what it was.
StartsFromCurrent(old, change) ==
    change.after # None /\ old.mood # None => change.before = old.mood

\* What a model inferred changes no field of a record that has a better source.
Weaker(old, delta) == delta.tier = Inference /\ old.tier < Inference
MoodHeld(old, delta, change) ==
    StartsFromCurrent(old, change) /\ (Weaker(old, delta) => change.after = None \/ old.mood \in {None, change.after})
FieldsHeld(old, delta, change) ==
    Weaker(old, delta) =>
        /\ change.aliases \in {{}, old.aliases} /\ (old.targets = {} \/ change.targets \in {{}, old.targets})
        /\ old.identity = None \/ change.identity \in {None, old.identity}

\* Mutant: aliases belong to nobody.
OwnersByName(facts, name) == {o \in DOMAIN facts["characters"] : name = facts["characters"][o].name}
Owners(facts, name) == {o \in DOMAIN facts["characters"] : name \in facts["characters"][o].aliases}

CharacterHeld(facts, delta, change) ==
    /\ \A name \in change.aliases \cup {change.name} : Owners(facts, name) \subseteq {change.id}
    /\ Has(facts["characters"], change.id) =>
          LET old == facts["characters"][change.id] IN
          /\ change.name = old.name
          /\ change.identity = None \/ old.identity \in {None, change.identity}
          /\ (change.targets = {} \/ old.targets \in {{}, change.targets} \/ Has(delta.events, change.event))
          /\ FieldsHeld(old, delta, change) /\ MoodHeld(old, delta, change)

Unknown == [name |-> None, aliases |-> {}, identity |-> None, targets |-> {}, mood |-> None, tier |-> Inference]
Otherwise(given, nothing, old) == IF given = nothing THEN old ELSE given

CharacterAfter(facts, delta, change) ==
    LET old == IF Has(facts["characters"], change.id) THEN facts["characters"][change.id]
               ELSE [Unknown EXCEPT !.tier = delta.tier]
    IN Put(facts["characters"], change.id,
           [name |-> change.name, aliases |-> old.aliases \cup change.aliases \cup {change.name},
            identity |-> Otherwise(change.identity, None, old.identity),
            targets |-> Otherwise(change.targets, {}, old.targets),
            mood |-> Otherwise(change.after, None, old.mood), tier |-> Stronger(old.tier, delta.tier)])

\* A pair has one relationship, whatever identifier a change gives it.
PairOf(record) == <<record.source, record.target>>
RelationOf(facts, change) ==
    LET same == {r \in DOMAIN facts["relationships"] : PairOf(facts["relationships"][r]) = PairOf(change)}
    IN IF Has(facts["relationships"], change.id) \/ same = {} THEN change.id ELSE CHOOSE r \in same : TRUE

RelationshipHeld(facts, delta, change) ==
    /\ CitesOwn(delta, change)
    /\ \A r \in DOMAIN facts["relationships"] :
           PairOf(facts["relationships"][r]) = PairOf(change) => facts["relationships"][r].type = change.type
    /\ Has(facts["relationships"], RelationOf(facts, change)) =>
          LET old == facts["relationships"][RelationOf(facts, change)] IN
          /\ PairOf(old) = PairOf(change) /\ old.type = change.type
          /\ MoodHeld(old, delta, change)

RelationshipAfter(facts, delta, change) ==
    LET id == RelationOf(facts, change)
        known == Has(facts["relationships"], id)
        mood == IF known THEN facts["relationships"][id].mood ELSE None
        tier == IF known THEN facts["relationships"][id].tier ELSE delta.tier
    IN Put(facts["relationships"], id,
           [source |-> change.source, target |-> change.target, type |-> change.type,
            mood |-> Otherwise(change.after, None, mood), tier |-> Stronger(tier, delta.tier)])

(***************************************************************************)
(* Rosters: named members, and a number of people without a name.          *)
(***************************************************************************)

NewRoster(tier) == [name |-> None, members |-> {}, unresolved |-> 0, audited |-> FALSE, tier |-> tier]
RosterOf(facts, delta, change) ==
    IF Has(facts["rosters"], change.id) THEN facts["rosters"][change.id] ELSE NewRoster(delta.tier)

Removals == {"leave", "dead", "missing"}
Joining(old, change) == change.members \ old.members

NextMembers(old, change) ==
    CASE change.op \in {"join", "resolve"} -> old.members \cup change.members
      [] change.op \in Removals -> old.members \ change.members
      [] change.op = "replace" -> change.members

MembersHeld(old, change) ==
    /\ change.op \in {"join", "resolve"} => change.members \cap old.members = {}
    /\ change.op \in Removals => change.members \subseteq old.members

\* Only a replacement states the number of people without a name; the other operations state
\* how it moves, from what it was.
ReplaceCount(old, change) ==
    /\ ~Given(change.moved)
    /\ \/ ~Given(change.unresolved) /\ old.unresolved = 0
       \/ change.before = old.unresolved /\ change.unresolved >= 0
MoveCount(old, change) ==
    /\ ~Given(change.unresolved)
    /\ \/ change.op # "resolve" /\ ~Given(change.before) /\ ~Given(change.moved)
       \/ /\ change.before = old.unresolved /\ Given(change.moved) /\ old.unresolved + change.moved >= 0
          /\ change.op = "join" => change.moved >= 0
          /\ change.op \in Removals => change.moved <= 0
          /\ change.op = "resolve" => Joining(old, change) # {} /\ change.moved = -Cardinality(Joining(old, change))
CountMoves(old, change) == IF change.op = "replace" THEN ReplaceCount(old, change) ELSE MoveCount(old, change)

NextUnresolved(old, change) ==
    IF change.op = "replace" THEN IF Given(change.unresolved) THEN change.unresolved ELSE 0
    ELSE old.unresolved + (IF Given(change.moved) THEN change.moved ELSE 0)

\* The event is one the book did not know before; the standard project may replace without.
CitesNew(facts, delta, change) ==
    Has(delta.events, change.event) /\ ~Has(facts["events"], change.event) /\ SameScene(delta, change)
RosterCites(facts, delta, change) ==
    CitesNew(facts, delta, change) \/ (change.event = None /\ delta.tier = Standard /\ change.op = "replace")

\* Name and audit of a roster never change; a name belongs to one roster.
IdentityHeld(facts, change) ==
    /\ Has(facts["rosters"], change.id) => change.name \in {None, facts["rosters"][change.id].name}
    /\ \A r \in DOMAIN facts["rosters"] \ {change.id} :
           facts["rosters"][r].name # (IF change.name = None THEN change.id ELSE change.name)
AuditHeld(old, initial, change) == initial \/ ~change.audited \/ old.audited

\* A roster that is there may be replaced by itself alone, and one that begins with people
\* without a name cites an event or an audited baseline.
Total(roster) == Cardinality(roster.members) + roster.unresolved

RosterAfter(facts, delta, change) ==
    LET old == RosterOf(facts, delta, change)
    IN [name |-> IF Has(facts["rosters"], change.id) THEN old.name ELSE change.name,
        members |-> NextMembers(old, change), unresolved |-> NextUnresolved(old, change),
        audited |-> old.audited \/ (change.audited /\ ~Has(facts["rosters"], change.id)),
        tier |-> Stronger(old.tier, delta.tier)]

RosterHeld(facts, delta, change) ==
    LET old == RosterOf(facts, delta, change)
        new == RosterAfter(facts, delta, change)
        initial == ~Has(facts["rosters"], change.id)
    IN /\ RosterCites(facts, delta, change) /\ IdentityHeld(facts, change) /\ AuditHeld(old, initial, change)
       /\ MembersHeld(old, change) /\ CountMoves(old, change)
       /\ ~initial /\ change.op = "replace" => new.members = old.members /\ new.unresolved = old.unresolved
       /\ change.delta = Total(new) - Total(old) /\ change.count = Total(new)
       /\ initial /\ new.unresolved > 0 => CitesNew(facts, delta, change) \/ change.audited

(***************************************************************************)
(* Counters, inventory and locations.                                      *)
(***************************************************************************)

\* The bounds and the rule are those of the record that is there; those of the change are stored.
CounterOf(facts, change) ==
    IF Has(facts["counters"], change.id) THEN facts["counters"][change.id]
    ELSE [value |-> change.previous, rule |-> None, minimum |-> NoNumber, tier |-> Inference]

CounterHeld(facts, delta, change) ==
    LET known == Has(facts["counters"], change.id)
        old == CounterOf(facts, change)
        minimum == Otherwise(old.minimum, NoNumber, change.minimum)
    IN /\ Cites(facts, delta, change)
       /\ change.previous = old.value \/ (known /\ Supersedes(old.tier, delta.tier))
       /\ change.previous + change.delta = change.declared
       /\ (Otherwise(old.rule, None, change.rule) = "rises" /\ change.declared < change.previous)
              => IsReset(facts, delta, change)
       /\ Given(minimum) => change.declared >= minimum

CounterAfter(facts, delta, change) ==
    LET old == CounterOf(facts, change)
    IN Put(facts["counters"], change.id,
           [value |-> change.declared, rule |-> Otherwise(change.rule, None, old.rule),
            minimum |-> Otherwise(change.minimum, NoNumber, old.minimum),
            tier |-> IF Has(facts["counters"], change.id) THEN Stronger(old.tier, delta.tier) ELSE delta.tier])

InventoryHeld(facts, delta, change) ==
    /\ Cites(facts, delta, change)
    /\ Has(facts["inventory"], change.id) => change.previous = facts["inventory"][change.id].value
    /\ change.previous + change.delta = change.declared /\ change.declared >= 0

\* Where somebody is needs no event.
LocationHeld(facts, delta, change) ==
    Has(facts["locations"], change.id) =>
        \/ change.before = facts["locations"][change.id].value
        \/ Supersedes(facts["locations"][change.id].tier, delta.tier)

ValueAfter(ledger, delta, id, value) ==
    Put(ledger, id, [value |-> value,
                     tier |-> IF Has(ledger, id) THEN Stronger(ledger[id].tier, delta.tier) ELSE delta.tier])

(***************************************************************************)
(* A delta.  Changes are applied one after another, each to what the ones  *)
(* before it left; one finding refuses them all.                           *)
(***************************************************************************)

Held(facts, delta, change) ==
    CASE change.ledger = "characters" -> CharacterHeld(facts, delta, change)
      [] change.ledger = "relationships" -> RelationshipHeld(facts, delta, change)
      [] change.ledger = "rosters" -> RosterHeld(facts, delta, change)
      [] change.ledger = "counters" -> CounterHeld(facts, delta, change)
      [] change.ledger = "inventory" -> InventoryHeld(facts, delta, change)
      [] change.ledger = "locations" -> LocationHeld(facts, delta, change)

LedgerAfter(facts, delta, change) ==
    CASE change.ledger = "characters" -> CharacterAfter(facts, delta, change)
      [] change.ledger = "relationships" -> RelationshipAfter(facts, delta, change)
      [] change.ledger = "rosters" -> Put(facts["rosters"], change.id, RosterAfter(facts, delta, change))
      [] change.ledger = "counters" -> CounterAfter(facts, delta, change)
      [] change.ledger = "inventory" -> ValueAfter(facts["inventory"], delta, change.id, change.declared)
      [] change.ledger = "locations" -> ValueAfter(facts["locations"], delta, change.id, change.after)

Applied(facts, delta) ==
    LET changes == delta.changes
        after[i \in 0 .. Len(changes)] ==
            IF i = 0 THEN facts
            ELSE LET before == after[i - 1]
                 IN [before EXCEPT ![changes[i].ledger] = LedgerAfter(before, delta, changes[i])]
    IN [ok |-> (\A i \in 1 .. Len(changes) : Held(after[i - 1], delta, changes[i])) /\ EventsKept(facts, delta),
        facts |-> [after[Len(changes)] EXCEPT !["events"] = Overlaid(@, delta.events)]]

(***************************************************************************)
(* A chapter.  Changes of its scenes may leave names out; they are filled  *)
(* in from the facts and from each other.  The gate also reads the prose.  *)
(***************************************************************************)

\* The name a change gives, or the one of the facts, or the one the nearest change before or
\* the last one of the delta gives, or the identifier.
NamedBy(delta, id, upto) ==
    {i \in 1 .. upto : LET c == delta.changes[i] IN c.ledger = "characters" /\ c.id = id /\ c.name # None}
NameOf(facts, delta, i) ==
    LET change == delta.changes[i]
        all == NamedBy(delta, change.id, Len(delta.changes))
        earlier == NamedBy(delta, change.id, i - 1)
    IN CASE change.name # None -> change.name
         [] change.name = None /\ Has(facts["characters"], change.id) -> facts["characters"][change.id].name
         [] OTHER -> IF all = {} THEN change.id
                     ELSE delta.changes[IF earlier = {} THEN Max(all) ELSE Max(earlier)].name

\* The type the delta gives a pair at last, or the one it has.
TypeOf(facts, delta, change) ==
    LET given == {i \in DOMAIN delta.changes :
                      LET c == delta.changes[i]
                      IN c.ledger = "relationships" /\ PairOf(c) = PairOf(change) /\ c.type # None}
        known == {r \in DOMAIN facts["relationships"] : PairOf(facts["relationships"][r]) = PairOf(change)}
    IN CASE change.type # None -> change.type
         [] change.type = None /\ given # {} -> delta.changes[Max(given)].type
         [] OTHER -> IF known = {} THEN "relationship" ELSE facts["relationships"][CHOOSE r \in known : TRUE].type

Adapted(facts, delta) ==
    [delta EXCEPT !.changes = [i \in DOMAIN delta.changes |->
        LET change == delta.changes[i] IN
        CASE change.ledger = "characters" -> [change EXCEPT !.name = NameOf(facts, delta, i)]
          [] change.ledger = "relationships" -> [change EXCEPT !.type = TypeOf(facts, delta, change)]
          [] OTHER -> change]]

\* The numbers the prose states of a counter or a roster, and those it may state: what the
\* changes went through.
Claims(delta, id) == IF Has(delta.prose, id) THEN delta.prose[id] ELSE {}
Passed(facts, delta, id) ==
    {n \in 0 .. 9 : \E i \in DOMAIN delta.changes :
        LET change == delta.changes[i] IN
        /\ change.id = id
        /\ \/ change.ledger = "counters" /\ n \in {change.previous, change.declared}
           \/ change.ledger = "rosters" /\ n = change.count}

\* What is said of a counter includes what it came to; of a roster nothing else is said.
CountersSaid(facts, delta, after) ==
    \A c \in DOMAIN after["counters"] :
        Claims(delta, c) # {} =>
            /\ after["counters"][c].value \in Claims(delta, c)
            /\ Claims(delta, c) \subseteq Passed(facts, delta, c) \cup {after["counters"][c].value}
RostersSaid(facts, delta, after) ==
    \A r \in DOMAIN after["rosters"] :
        Claims(delta, r) \subseteq Passed(facts, delta, r) \cup {Total(after["rosters"][r])}
            \cup (IF Has(facts["rosters"], r) THEN {Total(facts["rosters"][r])} ELSE {})
ProseHeld(facts, delta, after) ==
    CountersSaid(facts, delta, after) /\ RostersSaid(facts, delta, after)

(***************************************************************************)
(* Facts as a whole are valid when they could be stated anew, as a delta   *)
(* of the standard project on an empty book: rosters by a replacement,     *)
(* counters by a change of nothing.                                        *)
(***************************************************************************)

Restated(id, ledger, record) ==
    CASE ledger = "characters" ->
            [ledger |-> ledger, id |-> id, name |-> record.name, aliases |-> record.aliases, targets |-> record.targets,
             identity |-> record.identity, before |-> None, after |-> record.mood, event |-> None]
      [] ledger = "relationships" ->
            [ledger |-> ledger, id |-> id, source |-> record.source, target |-> record.target, type |-> record.type,
             before |-> None, after |-> record.mood, event |-> None, scene |-> NoNumber]
      [] ledger = "rosters" ->
            [ledger |-> ledger, id |-> id, op |-> "replace", name |-> record.name, members |-> record.members,
             before |-> 0, moved |-> NoNumber, unresolved |-> record.unresolved, audited |-> record.audited,
             delta |-> Total(record), count |-> Total(record), event |-> None, scene |-> NoNumber]
      [] ledger = "counters" ->
            [ledger |-> ledger, id |-> id, previous |-> record.value, delta |-> 0, declared |-> record.value,
             rule |-> record.rule, minimum |-> record.minimum, event |-> None]
      [] ledger = "inventory" ->
            [ledger |-> ledger, id |-> id, previous |-> record.value, delta |-> 0, declared |-> record.value, event |-> None]
      [] ledger = "locations" -> [ledger |-> ledger, id |-> id, before |-> record.value, after |-> record.value]

FullDelta(facts) ==
    [tier |-> Standard, events |-> facts["events"], prose |-> <<>>,
     changes |-> LET of(l) == [i \in 1 .. Cardinality(DOMAIN facts[l]) |->
                                   LET id == SetToSeq(DOMAIN facts[l])[i] IN Restated(id, l, facts[l][id])]
                 IN of("characters") \o of("relationships") \o of("rosters") \o of("counters")
                    \o of("inventory") \o of("locations")]

Valid(facts) == Applied(Empty, FullDelta(facts)).ok

(***************************************************************************)
(* Chapters and migrations.                                                *)
(***************************************************************************)

VARIABLES
    snapshot,   \* the facts in the snapshot, which the quality gate reads
    memory,     \* the facts in the canonical memory
    last,       \* the delta that was committed last, NoDelta before
    refused,    \* the facts a delta led to that the gate accepted and the memory did not
    submitted

vars == <<snapshot, memory, last, refused, submitted>>

NoDelta == [tier |-> Inference, events |-> <<>>, changes |-> <<>>, prose |-> <<>>]

\* A new book, or one whose older snapshot told of a character, a place and a counter, which
\* are then facts of the weakest source.
SeededPeople == [c \in {"ann"} |-> [Unknown EXCEPT !.name = "Ann", !.aliases = {"Ann"}]]
SeededPlaces == [c \in DOMAIN SeededPeople |-> [value |-> "inn", tier |-> SeededPeople[c].tier]]
SeededCounters == [c \in {"taint"} |-> [value |-> 2, rule |-> "rises", minimum |-> 0, tier |-> Inference]]
Seeded == [Empty EXCEPT !["characters"] = SeededPeople, !["locations"] = SeededPlaces, !["counters"] = SeededCounters]

Init ==
    /\ snapshot \in {Empty, Seeded} /\ memory = Empty
    /\ last = NoDelta /\ refused = Empty /\ submitted = 0

\* The records of the snapshot replace those of the memory.
Merged(mine, baseline) == [l \in Ledgers |-> Overlaid(mine[l], baseline[l])]

\* The commit merges the facts of the snapshot into those of the memory, applies the delta to
\* them again, and writes them if they are valid.
Commits(written) ==
    Valid(memory) /\ Valid(snapshot) /\ Valid(Merged(memory, snapshot)) /\ written.ok /\ Valid(written.facts)

\* What the gate does not accept is a blocking problem of the chapter.
Gate(delta) ==
    LET result == Applied(snapshot, delta) IN result.ok /\ ProseHeld(snapshot, delta, result.facts)

\* The snapshot of a chapter that is committed is made of the memory.
Chapter(draft) ==
    /\ submitted < MaxDeltas /\ submitted' = submitted + 1
    /\ LET delta == Adapted(snapshot, draft)
           written == Applied(Merged(memory, snapshot), delta)
       IN /\ Gate(delta)
          /\ IF Commits(written)
             THEN memory' = written.facts /\ snapshot' = memory' /\ last' = delta /\ refused' = Empty
             ELSE refused' = written.facts /\ UNCHANGED <<memory, snapshot, last>>

\* A migration states facts of the snapshot alone; see BaselineMigration.
Migrate(delta) ==
    /\ submitted < MaxDeltas /\ submitted' = submitted + 1
    /\ Applied(snapshot, delta).ok /\ Valid(Applied(snapshot, delta).facts)
    /\ snapshot' = Applied(snapshot, delta).facts /\ last' = delta /\ refused' = Empty
    /\ UNCHANGED memory

Next == (\E d \in Deltas : Chapter(d)) \/ (\E d \in Baselines : Migrate(d))

Spec == Init /\ [][Next]_vars

-----------------------------------------------------------------------------
TypeOK ==
    /\ DOMAIN snapshot = Ledgers /\ DOMAIN memory = Ledgers
    /\ submitted \in 0 .. MaxDeltas

\* A name is one character's, a pair of characters has one relationship, and a name one
\* roster's, whichever deltas brought them (authoritative.py:1283, :1366, roster.py:688).
OneOfEach ==
    \A facts \in {snapshot, memory} :
        /\ \A a, b \in DOMAIN facts["characters"] :
               a # b => facts["characters"][a].aliases \cap facts["characters"][b].aliases = {}
        /\ \A a, b \in DOMAIN facts["relationships"] :
               a # b => PairOf(facts["relationships"][a]) # PairOf(facts["relationships"][b])
        /\ \A a, b \in DOMAIN facts["rosters"] : a # b => facts["rosters"][a].name # facts["rosters"][b].name

\* A delta that is submitted again, by a retry of a chapter that was committed, is refused or
\* changes nothing.
AppliedOnce == Applied(snapshot, last).ok => Applied(snapshot, last).facts = snapshot

\* The facts in memory are valid, and the snapshot has them all; it is ahead by no more than
\* what a migration stated.
MemoryFollows ==
    /\ Valid(memory) /\ Valid(snapshot)
    /\ \A l \in Ledgers : DOMAIN memory[l] \subseteq DOMAIN snapshot[l]

\* What the gate accepts, the memory takes, but for two cases that no chapter gets past: a
\* roster begun by an event with people without a name, and a counter whose new bound it breaks
\* (roster.py:366 on what is restated without its event, authoritative.py:1614).
RefusedWhy ==
    refused # Empty =>
        \/ \E r \in DOMAIN refused["rosters"] :
               refused["rosters"][r].unresolved > 0 /\ ~refused["rosters"][r].audited
        \/ \E c \in DOMAIN refused["counters"] :
               Given(refused["counters"][c].minimum) /\ refused["counters"][c].value < refused["counters"][c].minimum

\* A source never gets weaker, a counter that rises falls by a reset or by a better source, and
\* people come and go by events the book had not heard of.
OnlyForReason ==
    /\ \A l \in Ledgers \ {"events"} : \A id \in DOMAIN snapshot[l] :
           Has(snapshot'[l], id) /\ snapshot'[l][id].tier <= snapshot[l][id].tier
    /\ \A c \in DOMAIN snapshot["counters"] :
           snapshot'["counters"][c].value < snapshot["counters"][c].value /\ snapshot["counters"][c].rule = "rises" =>
               \/ snapshot'["counters"][c].tier < snapshot["counters"][c].tier
               \/ \E e \in DOMAIN snapshot'["events"] : snapshot'["events"][e].resets
    /\ \A r \in DOMAIN snapshot["rosters"] :
           Total(snapshot'["rosters"][r]) # Total(snapshot["rosters"][r]) =>
               DOMAIN snapshot'["events"] # DOMAIN snapshot["events"]

Consistent == TypeOK /\ OneOfEach /\ AppliedOnce /\ MemoryFollows /\ RefusedWhy
FactsHold == [][Consistent' /\ OnlyForReason]_vars
=============================================================================
