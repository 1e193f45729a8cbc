--------------------------- MODULE MemoryCompile ---------------------------
(***************************************************************************)
(* Memory V2.1: the compile command (core/memory_v2/compile.py) turns the  *)
(* source memory file into a patch and appends it to the immutable event   *)
(* store (event_store.py, commit_memory_patch), then refreshes the cache   *)
(* canonical_memory.json (storage.py).  No lock is taken.                  *)
(*                                                                         *)
(* The source is read twice: a patch has the digest of the first reading   *)
(* as its id and the second one as its body.  The hash of a batch is the   *)
(* chain of patches that ends with it, and stands for the projection it    *)
(* replays to.  The compile command writes source_sync batches only, which *)
(* make no checkpoint.                                                     *)
(***************************************************************************)
EXTENDS Integers, Sequences, FiniteSets, SequencesExt, TLC

CONSTANTS Compilers,   \* the processes that may compile at the same time
          Sources,     \* contents of the source memory file
          MaxEdits, MaxCrashes, MaxRev  \* bounds

CompileAssumption ==
    /\ IsFiniteSet(Compilers)
    /\ {MaxEdits, MaxCrashes, MaxRev} \subseteq Nat

VARIABLES source,     \* the content of the source file
          batches,    \* batches/<first>_<last>_<patch>.json
          canonical,  \* canonical_memory.json
          tmp,        \* canonical_memory.json.tmp, which every process uses
          pc, mem,    \* a process: where it is and what it works with
          reported,   \* the patches whose compile has succeeded
          edits, crashes

vars == <<source, batches, canonical, tmp, pc, mem, reported, edits, crashes>>
files == <<batches, canonical, tmp>>

\* A file is absent, torn or holds a chain.
Absent == [state |-> "absent", chain |-> <<>>]
Torn == [state |-> "torn", chain |-> <<>>]
Holds(chain) == [state |-> "whole", chain |-> chain]

NoPatch == [id |-> "", body |-> ""]
NoWork == [patch |-> NoPatch, base |-> <<>>, root |-> TRUE, chain |-> <<>>, opened |-> "", alone |-> FALSE]

Init ==
    /\ source \in Sources
    /\ batches = <<>> /\ canonical = Absent /\ tmp = Absent
    /\ pc = [p \in Compilers |-> "idle"] /\ mem = [p \in Compilers |-> NoWork]
    /\ reported = {} /\ edits = 0 /\ crashes = 0

-----------------------------------------------------------------------------
Rev(name) == name[1]
Revs == {Rev(n) : n \in DOMAIN batches}
Lowest == CHOOSE r \in Revs : \A q \in Revs : r <= q
At(r) == batches[CHOOSE n \in DOMAIN batches : Rev(n) = r]

\* The patches of the batches; those of the projection a root was built on are not among them.
Index == {Last(At(r).chain) : r \in Revs}

\* The batches are read in the order of their first revision: each is whole and continues the
\* one before it, and the first is a root.
Readable ==
    /\ batches # <<>>
    /\ \A n \in DOMAIN batches : batches[n].state = "whole"
    /\ \A n, o \in DOMAIN batches : Rev(n) = Rev(o) => n = o
    /\ At(Lowest).root
    /\ \A r \in Revs \ {Lowest} :
         r - 1 \in Revs /\ ~At(r).root /\ Front(At(r).chain) = At(r - 1).chain
    /\ Cardinality({patch.id : patch \in Index}) = Cardinality(Revs)

\* What a replay of the store returns.
Replayed == At(Lowest + Cardinality(Revs) - 1).chain

-----------------------------------------------------------------------------
Goto(p, label) == pc' = [pc EXCEPT ![p] = label]
Fail(p) == /\ Goto(p, "idle") /\ mem' = [mem EXCEPT ![p] = NoWork]
           /\ UNCHANGED <<source, files, reported, edits, crashes>>

\* The digest of the source names the patch.  The record also says whether any other compile was
\* at work at some time of this one, which no process knows.
Begin(p) ==
    /\ pc[p] = "idle"
    /\ LET alone == \A q \in Compilers : pc[q] = "idle"
           seen == [q \in Compilers |-> [mem[q] EXCEPT !.alone = FALSE]]
       IN mem' = [seen EXCEPT ![p] = [NoWork EXCEPT !.patch.id = source, !.alone = alone]]
    /\ Goto(p, "import")
    /\ UNCHANGED <<source, files, reported, edits, crashes>>

\* The content is read again for the body of the patch; a store without batches starts from the
\* cache, if there is one.
Import(p) ==
    /\ pc[p] = "import"
    /\ IF (IF batches = <<>> THEN canonical.state = "torn" ELSE ~Readable) THEN Fail(p)
       ELSE /\ mem' = [mem EXCEPT ![p].patch.body = source,
                                  ![p].base = IF batches = <<>> THEN canonical.chain ELSE <<>>]
            /\ Goto(p, "load")
            /\ UNCHANGED <<source, files, reported, edits, crashes>>

\* commit_memory_patch reads the store once more: a known id must have the same content.
Load(p) ==
    /\ pc[p] = "load"
    /\ LET patch == mem[p].patch
           known == {q \in Index : q.id = patch.id}
           base == IF batches = <<>> THEN mem[p].base ELSE Replayed
       IN IF batches # <<>> /\ (~Readable \/ ~(known \subseteq {patch})) THEN Fail(p)
          ELSE /\ mem' = [mem EXCEPT ![p].base = base, ![p].root = (batches = <<>>),
                     ![p].chain = IF batches # <<>> /\ known # {} THEN base ELSE Append(base, patch)]
               /\ Goto(p, IF batches # <<>> /\ known # {} THEN "openTmp" ELSE "create")
               /\ UNCHANGED <<source, files, reported, edits, crashes>>

Name(p) == <<Len(mem[p].chain) + 1, mem[p].patch>>
Batch(p) == [state |-> "whole", chain |-> mem[p].chain, root |-> mem[p].root]

\* The file is created exclusively and filled in place; a batch that is there must be the same.
Create(p) ==
    /\ pc[p] = "create"
    /\ Len(mem[p].chain) <= MaxRev
    /\ IF Name(p) \in DOMAIN batches
       THEN IF batches[Name(p)] = Batch(p)
            THEN Goto(p, "openTmp") /\ UNCHANGED <<source, files, mem, reported, edits, crashes>>
            ELSE Fail(p)
       ELSE /\ batches' = Name(p) :> Torn @@ batches
            /\ Goto(p, "fill")
            /\ UNCHANGED <<source, canonical, tmp, mem, reported, edits, crashes>>

Fill(p) ==
    /\ pc[p] = "fill"
    /\ batches' = [batches EXCEPT ![Name(p)] = Batch(p)]
    /\ Goto(p, "openTmp")
    /\ UNCHANGED <<source, canonical, tmp, mem, reported, edits, crashes>>

\* A mutant: the temporary file is renamed before it is written.
OpenEmpty(p) ==
    /\ pc[p] = "openTmp"
    /\ tmp' = Torn
    /\ mem' = [mem EXCEPT ![p].opened = "replaced"]
    /\ Goto(p, "fillTmp")
    /\ UNCHANGED <<source, batches, canonical, reported, edits, crashes>>

\* save_canonical_memory: the temporary file has one name, so another process may rename it
\* while this one still writes to it.
OpenTmp(p) ==
    /\ pc[p] = "openTmp"
    /\ tmp' = Torn
    /\ mem' = [mem EXCEPT ![p].opened = "tmp"]
    /\ Goto(p, "fillTmp")
    /\ UNCHANGED <<source, batches, canonical, reported, edits, crashes>>

FillTmp(p) ==
    /\ pc[p] = "fillTmp"
    /\ \/ mem[p].opened = "tmp" /\ tmp' = Holds(mem[p].chain) /\ UNCHANGED canonical
       \/ mem[p].opened = "canonical" /\ canonical' = Holds(mem[p].chain) /\ UNCHANGED tmp
       \/ mem[p].opened = "replaced" /\ UNCHANGED <<tmp, canonical>>
    /\ Goto(p, "replace")
    /\ UNCHANGED <<source, batches, mem, reported, edits, crashes>>

Renamed(p, q) ==
    CASE mem[q].opened = "canonical" -> "replaced"
      [] mem[q].opened = "tmp" -> "canonical"
      [] OTHER -> mem[q].opened

Replace(p) ==
    /\ pc[p] = "replace"
    /\ IF tmp.state = "absent" THEN Fail(p)
       ELSE /\ canonical' = tmp /\ tmp' = Absent
            /\ mem' = [q \in Compilers |-> [mem[q] EXCEPT !.opened = Renamed(p, q)]]
            /\ Goto(p, "check")
            /\ UNCHANGED <<source, batches, reported, edits, crashes>>

\* The store must replay to what was saved; a patch that was known is not looked at again.
Check(p) ==
    /\ pc[p] = "check"
    /\ \/ /\ mem[p].base # mem[p].chain /\ ~(Readable /\ Replayed = mem[p].chain) /\ Fail(p)
       \/ /\ mem[p].base = mem[p].chain \/ (Readable /\ Replayed = mem[p].chain)
          /\ reported' = reported \cup {mem[p].patch}
          /\ Goto(p, "idle") /\ mem' = [mem EXCEPT ![p] = NoWork]
          /\ UNCHANGED <<source, files, edits, crashes>>

-----------------------------------------------------------------------------
\* A process dies: the file it was filling stays as it is.
Crash(p) ==
    /\ pc[p] # "idle" /\ crashes < MaxCrashes
    /\ crashes' = crashes + 1
    /\ Goto(p, "idle") /\ mem' = [mem EXCEPT ![p] = NoWork]
    /\ UNCHANGED <<source, files, reported, edits>>

EditSource ==
    /\ edits < MaxEdits
    /\ \E s \in Sources \ {source} : source' = s
    /\ edits' = edits + 1
    /\ UNCHANGED <<files, pc, mem, reported, crashes>>

Compile(p) == \/ Begin(p) \/ Import(p) \/ Load(p) \/ Create(p) \/ Fill(p)
              \/ OpenTmp(p) \/ FillTmp(p) \/ Replace(p) \/ Check(p)
Next == EditSource \/ \E p \in Compilers : Compile(p) \/ Crash(p)
Spec == Init /\ [][Next]_vars

-----------------------------------------------------------------------------
Idle == \A p \in Compilers : pc[p] = "idle"
Whole == {batches[n].chain : n \in {m \in DOMAIN batches : batches[m].state = "whole"}}

Forked == \E m, n \in DOMAIN batches : m # n /\ Rev(m) = Rev(n)
Interrupted == \E n \in DOMAIN batches : batches[n].state = "torn"

TypeOK ==
    /\ source \in Sources /\ edits \in 0..MaxEdits /\ crashes \in 0..MaxCrashes
    /\ \A n \in DOMAIN batches : Rev(n) \in 2..(MaxRev + 1) /\ n[2] \in [id : Sources, body : Sources]
    /\ \A f \in {canonical, tmp} : f.state \in {"absent", "torn", "whole"}
    /\ reported \subseteq [id : Sources, body : Sources]

\* What a compile has reported can be rebuilt from the store whenever nobody compiles: the cache
\* "may be deleted and rebuilt".
Rebuildable == Idle /\ reported # {} => Readable /\ reported \subseteq Index

\* Only two things cost what was reported: a compiler killed inside a batch it was writing, and
\* two that had read the same revision.
LostByForkOnly == Forked \/ Interrupted \/ Rebuildable

\* A compile that nobody else's met is right when it is done, whatever was killed or lost a race
\* before it: the store is whole and replays to the cache it has left.
AloneFollows ==
    \A p \in Compilers : pc[p] = "check" /\ mem[p].alone =>
        Readable /\ mem[p].patch \in Index /\ canonical = Holds(Replayed)

\* The batches that are whole are one history unless it was forked; no line of it names two
\* patches alike, and the cache holds a part of one, whatever was interrupted and compiled again.
OneHistory ==
    /\ Forked \/ \A c, d \in Whole : IsPrefix(c, d) \/ IsPrefix(d, c)
    /\ \A c \in Whole : \A i, j \in DOMAIN c : c[i].id = c[j].id => i = j
    /\ canonical.state = "whole" => canonical.chain = <<>> \/ canonical.chain \in Whole

=============================================================================
