---------------------------- MODULE SceneEvidence ----------------------------
(***************************************************************************)
(* The evidence a chapter carries of its scenes: a draft and a range of    *)
(* the merged text for every scene (core/quality/scene_evidence.py).  The  *)
(* text is rewritten after the merge: by the polish, the repairs (a patch, *)
(* a whole text, or local strategies), the repairs of the review and the   *)
(* canonicalization of the writeback; each rewriting is a patch            *)
(* (core/quality/repair_patch.py) that has to move the evidence with the   *)
(* text, and the final gate compares the two before a chapter is           *)
(* delivered.  Texts are sequences of characters, exactly as long as the   *)
(* ranges count them; what decides whether a run converges, and everything *)
(* of a validation but its problems, is in ChapterRun.                     *)
(***************************************************************************)
EXTENDS Integers, Sequences, FiniteSets, SequencesExt

CONSTANTS Starts,      \* chapters as they are drafted, and how the executor is configured
          Words,       \* what an answer puts in the place of a range
          Reports,     \* what a validation may say of a text: sequences of problems
          MaxChanges,  \* bound: rewritings of a model
          MaxRepairs   \* decision["max_repair_attempts"]

Newline == "n"
Separator == <<Newline, Newline>>
Object == <<"{">>      \* a JSON object that is no patch of the chapter

(* piped: the chapter has a pipeline (a generator of the caller's and a    *)
(* recovered whole draft have none); explicit: the input pack has a        *)
(* generation state view; dry: no model; injected: the caller's repairer.  *)
Start == [drafts : Seq(Seq(STRING)), piped : BOOLEAN, explicit : BOOLEAN, dry : BOOLEAN,
          injected : BOOLEAN, review : BOOLEAN, writeback : BOOLEAN]
Problem == [code : STRING, action : STRING, blocking : BOOLEAN, sound : BOOLEAN]

Blank(t) == \A k \in DOMAIN t : t[k] = Newline
Bare(t) == t # <<>> /\ t[1] # Newline /\ t[Len(t)] # Newline

EvidenceAssumption ==
    /\ \A s \in Starts : /\ DOMAIN s = {"drafts", "piped", "explicit", "dry", "injected", "review", "writeback"}
                         /\ s.drafts # <<>> /\ \A i \in DOMAIN s.drafts : Bare(s.drafts[i])
    /\ \A r \in Reports, i \in 1 .. 2 : i \in DOMAIN r => r[i].blocking \in BOOLEAN /\ r[i].sound \in BOOLEAN
    /\ MaxChanges \in Nat /\ MaxRepairs \in Nat

VARIABLES given,    \* the start
          text,     \* state["chapter"]
          pipe,     \* the pipeline's scene_drafts, scene_spans and merged_chapter
          stage,    \* "polish", "judge", "repair", "review", "finish", "gate", "kept", "refused", "failed"
          found,    \* the validation: the text judged and its problems
          asked,    \* the request of the last repair
          changes, repairs

vars == <<given, text, pipe, stage, found, asked, changes, repairs>>

-----------------------------------------------------------------------------
(* texts and patches *)

(* t[lo:hi] *)
Slice(t, lo, hi) == SubSeq(t, lo + 1, IF hi > Len(t) THEN Len(t) ELSE hi)

(* The text without white space at its ends. *)
Stripped(t) ==
    IF Blank(t) THEN <<>>
    ELSE LET ink == {k \in DOMAIN t : t[k] # Newline}
         IN SubSeq(t, CHOOSE k \in ink : \A l \in ink : k <= l, CHOOSE k \in ink : \A l \in ink : k >= l)

(* An operation replaces the characters after the first lo up to hi. *)
Spliced(t, ops) ==
    LET from[k \in 1 .. Len(ops) + 1] ==
            IF k > Len(ops) THEN t
            ELSE LET rest == from[k + 1]
                 IN SubSeq(rest, 1, ops[k].lo) \o ops[k].word \o SubSeq(rest, ops[k].hi + 1, Len(rest))
    IN from[1]

ValidPatch(ops, t) ==
    \A k \in DOMAIN ops :
        /\ (IF k = 1 THEN 0 ELSE ops[k - 1].hi) <= ops[k].lo
        /\ ops[k].lo <= ops[k].hi /\ ops[k].hi <= Len(t)

(* difflib.SequenceMatcher without junk: of the windows b[w1+1..w2] and     *)
(* t[w3+1..w4] the longest common block, the earliest of b, then of t; then *)
(* the same before it and behind it.                                        *)
Matches(b, t) ==
    LET match[w \in Nat \X Nat \X Nat \X Nat] ==
            LET blocks == {m \in (w[1] .. w[2] - 1) \X (w[3] .. w[4] - 1) \X (1 .. w[2] - w[1]) :
                              /\ m[1] + m[3] <= w[2] /\ m[2] + m[3] <= w[4]
                              /\ \A d \in 1 .. m[3] : b[m[1] + d] = t[m[2] + d]}
                best == CHOOSE m \in blocks : \A o \in blocks :
                            \/ o[3] < m[3]
                            \/ o[3] = m[3] /\ (m[1] < o[1] \/ (m[1] = o[1] /\ m[2] <= o[2]))
            IN IF blocks = {} THEN <<>>
               ELSE match[<<w[1], best[1], w[3], best[2]>>]
                    \o [d \in 1 .. best[3] |-> <<best[1] + d, best[2] + d>>]
                    \o match[<<best[1] + best[3], w[2], best[2] + best[3], w[4]>>]
    IN match[<<0, Len(b), 0, Len(t)>>]

(* The operations that make t of b. *)
Diff(b, t) ==
    LET pairs == <<<<0, 0>>>> \o Matches(b, t) \o <<<<Len(b) + 1, Len(t) + 1>>>>
        gap(k) == [lo |-> pairs[k][1], hi |-> pairs[k + 1][1] - 1,
                   word |-> SubSeq(t, pairs[k][2] + 1, pairs[k + 1][2] - 1)]
    IN SelectSeq([k \in 1 .. Len(pairs) - 1 |-> gap(k)], LAMBDA o : o.lo < o.hi \/ o.word # <<>>)

-----------------------------------------------------------------------------
(* the evidence *)

(* A character of a draft keeps the scene and the place it was drafted at; *)
(* one that is written later has none.                                     *)
Drafted(t, i) == [k \in DOMAIN t |-> [char |-> t[k], scene |-> i, at |-> k]]
Written(t) == [k \in DOMAIN t |-> [char |-> t[k], scene |-> 0, at |-> 0]]
Plain(d) == [k \in DOMAIN d |-> d[k].char]

Joined(drafts) ==
    LET join[i \in DOMAIN drafts] ==
            IF i = 1 THEN Plain(drafts[1]) ELSE join[i - 1] \o Separator \o Plain(drafts[i])
    IN IF drafts = <<>> THEN <<>> ELSE join[Len(drafts)]

SpansOf(drafts) ==
    LET span[i \in DOMAIN drafts] ==
            LET lo == IF i = 1 THEN 0 ELSE span[i - 1].hi + Len(Separator)
            IN [lo |-> lo, hi |-> lo + Len(drafts[i])]
    IN [i \in DOMAIN drafts |-> span[i]]

Evidence(drafts) == [drafts |-> drafts, spans |-> SpansOf(drafts), merged |-> Joined(drafts)]
NoEvidence == Evidence(<<>>)

Holds(span, o) == span.lo <= o.lo /\ o.hi <= span.hi

Moved(p, i, ops) ==
    LET own == SelectSeq(ops, LAMBDA o : Holds(p.spans[i], o))
    IN Spliced(p.drafts[i], [k \in DOMAIN own |-> [lo |-> own[k].lo - p.spans[i].lo,
                                                   hi |-> own[k].hi - p.spans[i].lo,
                                                   word |-> Written(own[k].word)]])

(* Every operation lies within one scene, whose draft is the text of its    *)
(* range; what is made of the drafts is the new text.                       *)
Aligned(p, before, after, ops) ==
    /\ p.merged = before /\ ValidPatch(ops, before)
    /\ \A k \in DOMAIN ops : Cardinality({i \in DOMAIN p.spans : Holds(p.spans[i], ops[k])}) = 1
    /\ \A i \in DOMAIN p.drafts : Slice(before, p.spans[i].lo, p.spans[i].hi) = Plain(p.drafts[i])
    /\ Joined([i \in DOMAIN p.drafts |-> Moved(p, i, ops)]) = after

(* A mutant: the ranges stay as they were. *)
RealignedInPlace(p, ops) ==
    LET drafts == [i \in DOMAIN p.drafts |-> Moved(p, i, ops)]
    IN [drafts |-> drafts, spans |-> p.spans, merged |-> Joined(drafts)]
Realigned(p, ops) == Evidence([i \in DOMAIN p.drafts |-> Moved(p, i, ops)])

(* A chapter without a pipeline has nothing to move, a text that did not   *)
(* change moves nothing.                                                   *)
Unmoved(p, before, after) == p = NoEvidence \/ before = after
CanFollow(p, before, after, ops) == Unmoved(p, before, after) \/ Aligned(p, before, after, ops)
Followed(p, before, after, ops) == IF Unmoved(p, before, after) THEN p ELSE Realigned(p, ops)

(* What the final gate finds stale of the evidence of a text.               *)
Stale(p, t) ==
    LET end(k) == IF k = 0 THEN 0 ELSE CHOOSE e \in {p.spans[j].hi : j \in 1 .. k} : \A j \in 1 .. k : p.spans[j].hi <= e
    IN \/ p.drafts = <<>> \/ p.spans = <<>> \/ Len(p.drafts) # Len(p.spans)
       \/ \E k \in DOMAIN p.spans :
            LET lo == p.spans[k].lo
                hi == p.spans[k].hi
            IN \/ k = 1 /\ lo # 0
               \/ k > 1 /\ (lo # end(k - 1) + 2 \/ Slice(t, end(k - 1), lo) # Separator)
               \/ hi <= lo \/ hi > Len(t) \/ Slice(t, lo, hi) # Plain(p.drafts[k])
       \/ end(Len(p.spans)) # Len(t)
       \/ Joined(p.drafts) # t

-----------------------------------------------------------------------------
(* the plan and the request of a repair *)

(* The registered actions of three codes; any other code is for a human.   *)
Registered == {"add_conflict_signal", "insert_opening_bridge", "manual_review"}
ActionOf(code) == CASE code = "missing_conflict_marker" -> "add_conflict_signal"
                    [] code = "missing_opening_bridge" -> "insert_opening_bridge"
                    [] OTHER -> "manual_review"
PriorityOf(code) == CASE code = "missing_conflict_marker" -> 30
                      [] code = "missing_opening_bridge" -> 55
                      [] OTHER -> 1000

Step(i, p) == [index |-> i, problem |-> p, priority |-> PriorityOf(p.code),
               action |-> IF p.action \in Registered THEN p.action ELSE ActionOf(p.code)]
Plan(problems) ==
    SortSeq([i \in DOMAIN problems |-> Step(i, problems[i])],
            LAMBDA s, t : s.priority < t.priority \/ (s.priority = t.priority /\ s.index < t.index))

(* The envelope takes a problem whose evidence and category are in order    *)
(* and whose own action is the plan's.                                      *)
OncePerProblem(plan, problems) ==
    {plan[k].index : k \in DOMAIN plan} = DOMAIN problems /\ Len(plan) = Len(problems)
Enveloped(plan, problems) ==
    /\ OncePerProblem(plan, problems)
    /\ \A k \in DOMAIN plan : /\ plan[k].problem = problems[plan[k].index] /\ plan[k].problem.sound
                              /\ plan[k].problem.action \in {"none", plan[k].action}

(* Equal problems are one; the steps go by their priority.                 *)
Enveloping(plan) ==
    SetToSortSeq({plan[k].problem : k \in DOMAIN plan},
                 LAMBDA p, q : PriorityOf(p.code) < PriorityOf(q.code))

(* The older message: whatever blocks, and what else there is room for.     *)
Compacted(problems) ==
    {SelectSeq(problems, LAMBDA p : p.blocking \/ p \in more) :
        more \in SUBSET {problems[k] : k \in DOMAIN problems}}

NoRequest == [base |-> <<>>, of |-> <<>>, asks |-> <<>>]
(* A message is bound to the chapter and to what was found in it.           *)
Message(asks) == [base |-> text, of |-> found.of, asks |-> asks]
Requests(plan) ==
    IF ~given.explicit THEN {Message(asks) : asks \in Compacted(found.problems)}
    ELSE IF Enveloped(plan, found.problems) THEN {Message(Enveloping(plan))} ELSE {}

(* The local strategies, a step after the other.                           *)
Strategy(action, t) ==
    CASE action = "add_conflict_signal" -> t \o Separator \o <<"b">>
      [] action = "insert_opening_bridge" -> <<"b">> \o (IF t = <<>> THEN <<>> ELSE Separator \o t)
      [] OTHER -> t
Repaired(t, plan) ==
    LET after[k \in 0 .. Len(plan)] ==
            IF k = 0 THEN Stripped(t) ELSE Stripped(Strategy(plan[k].action, after[k - 1]))
    IN after[Len(plan)]

-----------------------------------------------------------------------------
(* answers of models *)

Edits(t) == {[lo |-> l, hi |-> h, word |-> w] : l \in 0 .. Len(t), h \in 0 .. Len(t), w \in Words}
Rewrites(t) ==
    {t} \union (IF changes = MaxChanges THEN {}
                ELSE {Stripped(Spliced(t, <<e>>)) : e \in {o \in Edits(t) : ValidPatch(<<o>>, t)}} \ {<<>>})

(* One operation, or two of at most one character of which one deletes.     *)
Patches(t) ==
    IF changes = MaxChanges THEN {}
    ELSE LET narrow == {e \in Edits(t) : e.hi - e.lo \in {0, 1}}
         IN {<<e>> : e \in Edits(t)}
            \union {<<e, f>> : e \in narrow, f \in {o \in narrow : o.word = <<>>}}

(* A whole text becomes the patch that makes it; so does an object that is  *)
(* no patch of this chapter.                                                *)
Texts(t) == Rewrites(t) \union (IF changes = MaxChanges THEN {} ELSE {Object})
Answers(t) == {Diff(t, u) : u \in Texts(t)} \union {ops \in Patches(t) : ValidPatch(ops, t)}

Counted(t) == changes' = changes + (IF t = text THEN 0 ELSE 1)

-----------------------------------------------------------------------------
(* the actions *)

Init ==
    /\ given \in Starts
    /\ LET drafts == [i \in DOMAIN given.drafts |-> Drafted(given.drafts[i], i)]
       IN text = Joined(drafts) /\ pipe = (IF given.piped THEN Evidence(drafts) ELSE NoEvidence)
    /\ stage = "polish" /\ found = [of |-> <<>>, problems |-> <<>>] /\ asked = NoRequest
    /\ changes = 0 /\ repairs = 0

(* A stage raises: the run is over, with what it has.                       *)
Fail ==
    /\ stage \in {"polish", "repair"}
    /\ stage' = "failed"
    /\ UNCHANGED <<given, text, pipe, found, asked, changes, repairs>>

(* The polished text is the chapter before its evidence follows; a refused *)
(* answer leaves the chapter as it is.                                     *)
Polish ==
    /\ stage = "polish"
    /\ \E u \in (IF given.dry THEN {text} ELSE Rewrites(text)) :
        LET ops == Diff(text, u)
        IN /\ text' = u /\ Counted(u)
           /\ IF CanFollow(pipe, text, u, ops)
              THEN pipe' = Followed(pipe, text, u, ops) /\ stage' = "judge"
              ELSE pipe' = pipe /\ stage' = "failed"
    /\ UNCHANGED <<given, found, asked, repairs>>

Judge ==
    /\ stage = "judge"
    /\ \E r \in Reports : found' = [of |-> text, problems |-> r]
    /\ stage' = "repair" /\ asked' = NoRequest
    /\ UNCHANGED <<given, text, pipe, changes, repairs>>

Ok(problems) == \A k \in DOMAIN problems : ~problems[k].blocking

(* The evidence follows before the chapter is the repaired one.             *)
Repair ==
    /\ stage = "repair" /\ ~Ok(found.problems) /\ repairs < MaxRepairs
    /\ LET plan == Plan(found.problems)
       IN \E request \in (IF given.dry \/ given.injected THEN {NoRequest} ELSE Requests(plan)),
             ops \in (IF given.dry /\ ~given.injected THEN {Diff(text, Repaired(text, plan))} ELSE Answers(text)) :
            LET t == Spliced(text, ops)
            IN /\ CanFollow(pipe, text, t, ops)
               /\ text' = t /\ pipe' = Followed(pipe, text, t, ops) /\ asked' = request /\ Counted(t)
    /\ stage' = "judge" /\ repairs' = repairs + 1
    /\ UNCHANGED <<given, found>>

(* No repair is needed, or none is left; only a chapter that passes is      *)
(* reviewed.                                                                *)
Settle ==
    /\ stage = "repair" /\ (Ok(found.problems) \/ repairs = MaxRepairs)
    /\ stage' = IF Ok(found.problems) /\ given.review THEN "review" ELSE "finish"
    /\ UNCHANGED <<given, text, pipe, found, asked, changes, repairs>>

(* A repair of the review is judged again and leaves the evidence behind.   *)
(* The plan of a review is no plan repair_scene takes: only a repairer of   *)
(* the caller's answers.                                                    *)
ReviewRepair ==
    /\ stage = "review" /\ given.injected /\ changes < MaxChanges
    /\ \E ops \in Answers(text), r \in Reports :
        LET t == Spliced(text, ops)
        IN text' = t /\ found' = [of |-> t, problems |-> r] /\ changes' = changes + 1
    /\ UNCHANGED <<given, pipe, stage, asked, repairs>>

(* After the review the evidence follows all of its repairs at once.        *)
Reviewed ==
    /\ stage = "review"
    /\ LET ops == Diff(pipe.merged, text)
       IN IF given.piped /\ ~CanFollow(pipe, pipe.merged, text, ops)
          THEN stage' = "failed" /\ pipe' = pipe
          ELSE stage' = "finish" /\ pipe' = IF given.piped THEN Followed(pipe, pipe.merged, text, ops) ELSE pipe
    /\ UNCHANGED <<given, text, found, asked, changes, repairs>>

(* _canonical_story_project_prose: the writeback ends in one newline.       *)
Canonical(t) ==
    LET ink == {k \in DOMAIN t : t[k] # Newline}
    IN SubSeq(t, 1, IF ink = {} THEN 0 ELSE CHOOSE k \in ink : \A l \in ink : k >= l) \o <<Newline>>

Canonicalize ==
    /\ stage = "finish"
    /\ LET t == IF given.writeback THEN Canonical(text) ELSE text
           ops == Diff(text, t)
       IN /\ text' = t
          /\ IF CanFollow(pipe, text, t, ops)
             THEN stage' = "gate" /\ pipe' = Followed(pipe, text, t, ops)
             ELSE stage' = "failed" /\ pipe' = pipe
    /\ UNCHANGED <<given, found, asked, changes, repairs>>

(* The gate reads the evidence where there is some, and the writeback wants *)
(* it; every other finding only refuses.                                    *)
Gate ==
    /\ stage = "gate"
    /\ stage' \in {"refused"}
            \union (IF Ok(found.problems) /\ (given.piped \/ given.writeback => ~Stale(pipe, text)) THEN {"kept"} ELSE {})
    /\ UNCHANGED <<given, text, pipe, found, asked, changes, repairs>>

Next == Fail \/ Polish \/ Judge \/ Repair \/ Settle \/ ReviewRepair \/ Reviewed \/ Canonicalize \/ Gate

Spec == Init /\ [][Next]_vars

-----------------------------------------------------------------------------
(* properties *)

(* The evidence is of one piece, and except between a review's repairs and *)
(* the end of the review, or in a run that failed, of the chapter itself:   *)
(* the ranges cut the text into its scenes (scene_evidence.py).             *)
CutsTheText ==
    given.piped =>
        /\ Len(pipe.spans) = Len(pipe.drafts) /\ Len(pipe.drafts) = Len(given.drafts)
        /\ stage \notin {"review", "failed"} => pipe.merged = text
        /\ \A i \in DOMAIN pipe.spans :
             /\ Slice(pipe.merged, pipe.spans[i].lo, pipe.spans[i].hi) = Plain(pipe.drafts[i])
             /\ pipe.spans[i].lo = (IF i = 1 THEN 0 ELSE pipe.spans[i - 1].hi + 2)
             /\ i > 1 => Slice(pipe.merged, pipe.spans[i - 1].hi, pipe.spans[i].lo) = Separator
        /\ pipe.spans[Len(pipe.spans)].hi = Len(pipe.merged)

(* What is left of a scene's draft is in its own draft, in its order: no    *)
(* rewriting gives a scene the words of another.                            *)
KeepsItsScene ==
    \A i \in DOMAIN pipe.drafts :
        LET old == SelectSeq(pipe.drafts[i], LAMBDA c : c.scene # 0)
        IN \A k \in DOMAIN old : old[k].scene = i /\ (k > 1 => old[k - 1].at < old[k].at)

(* A repair asks for the problems of the very text it repairs: for each     *)
(* that blocks, and in an envelope for each once (envelope.py).             *)
AsksWhatIsFound ==
    asked # NoRequest =>
        LET judged == {found.problems[k] : k \in DOMAIN found.problems}
            wanted == {asked.asks[k] : k \in DOMAIN asked.asks}
        IN /\ asked.of = asked.base
           /\ {p \in judged : p.blocking} \subseteq wanted /\ wanted \subseteq judged
           /\ given.explicit => wanted = judged /\ Len(asked.asks) = Cardinality(judged)

(* A chapter that is kept is the one that was judged, up to its last        *)
(* newline, and a written one has its evidence; the gate finds evidence     *)
(* stale only of a scene of which nothing is left                           *)
(* (final_artifact_integrity.py).                                           *)
GateIsExact ==
    /\ stage = "kept" => /\ given.writeback => given.piped
                         /\ text = (IF given.writeback THEN Canonical(found.of) ELSE found.of)
    /\ stage = "gate" /\ given.piped =>
         (Stale(pipe, text) <=> \E i \in DOMAIN pipe.drafts : pipe.drafts[i] = <<>>)

EvidenceHolds == CutsTheText /\ KeepsItsScene /\ AsksWhatIsFound /\ GateIsExact
=============================================================================
