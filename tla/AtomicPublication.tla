-------------------------- MODULE AtomicPublication --------------------------
(***************************************************************************)
(* What a PersistenceV2 transaction promises to its readers, without       *)
(* saying how.  A run is decided once: it is aborted, and from then on     *)
(* none of its text is in the books, or it is committed, and then nothing  *)
(* aborts it.  Only a committed run is published (has a valid receipt).    *)
(* `text' is the set of runs whose text is in some target file.            *)
(***************************************************************************)
CONSTANT Runs

VARIABLES fate, text

Init ==
    /\ fate = [r \in Runs |-> "open"]
    /\ text = {}

\* Runs write, take back and overwrite text, and authors edit it away, but
\* nobody brings back the text of an aborted run.
Rewrite ==
    /\ text' \subseteq {r \in Runs : fate[r] # "aborted"}
    /\ UNCHANGED fate

Decide(r, from, to) ==
    /\ fate[r] = from
    /\ fate' = [fate EXCEPT ![r] = to]
    /\ UNCHANGED text

Abort(r) == r \notin text /\ Decide(r, "open", "aborted")
Commit(r) == Decide(r, "open", "committed")
Publish(r) == Decide(r, "committed", "published")

Next == Rewrite \/ \E r \in Runs : Abort(r) \/ Commit(r) \/ Publish(r)

Spec == Init /\ [][Next]_<<fate, text>>
=============================================================================
