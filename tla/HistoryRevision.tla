--------------------------- MODULE HistoryRevision ---------------------------
(***************************************************************************)
(* Corrections of published history: an amend, import or retcon appends a  *)
(* batch to the event log that names every later batch, outline and        *)
(* session it invalidates, and generation stops until another revision     *)
(* reconciles them (core/memory_v2/history_revision.py,                    *)
(* core/story_project/history_revision_execution.py).                      *)
(*                                                                         *)
(* A revision holds the StoryProject's writer lock and the dependency      *)
(* fence, which the writers of outlines and sessions take too, from its    *)
(* first check past its commit marker; a crash releases both.  Its         *)
(* transaction is PersistenceV2's: applied, marked, completed.  The log's  *)
(* length stands for the head's hash.                                      *)
(***************************************************************************)
EXTENDS Naturals, Sequences, FiniteSets

CONSTANTS
    Txs,         \* transaction ids an operator may submit
    Published,   \* chapters published before anything happens
    MaxChapter,  \* bound on the chapters of the book
    Planned,     \* chapters that outlines may be drafted for
    MaxLog,      \* bound on the log
    MaxEdits,    \* bound on edits of published prose outside the program
    MaxCrashes   \* bound on crashes

ASSUME HistoryAssumption ==
    /\ Published \in Nat \ {0} /\ MaxChapter \in Nat /\ Published <= MaxChapter
    /\ Planned \subseteq 1 .. MaxChapter
    /\ MaxLog \in Nat /\ Published <= MaxLog /\ MaxEdits \in Nat /\ MaxCrashes \in Nat

VARIABLES
    log,      \* the committed batches
    outlines, \* the head each chapter's outline checkpoint was made at; 0: none
    draft,    \* an outline made but not stored yet
    session,  \* the durable session, which ends at MaxChapter
    edited,   \* chapters whose prose no longer is what was published
    request,  \* what the operator submits under each transaction id
    digest,   \* the request each committed revision was made from
    op,       \* the process that executes a revision
    pend,     \* its PersistenceV2 transaction
    answer,   \* what the operator was told last about each transaction
    edits, crashes

vars == <<log, outlines, draft, session, edited, request, digest, op, pend, answer, edits,
          crashes>>

Chapters == 1 .. MaxChapter
None == "none"
Idle == [pc |-> "idle", tx |-> None]
NoInv == [events |-> {}, outlines |-> {}, session |-> FALSE]
Chapter(c) == [kind |-> "chapter", ch |-> c, tx |-> None, inv |-> NoInv, rec |-> None]
NoRequest == [ch |-> 0, head |-> 0, outlines |-> [c \in Chapters |-> 0], session |-> None,
              rec |-> None]
NoPend == [st |-> None, batch |-> Chapter(0), req |-> NoRequest]

Init ==
    /\ log = [c \in 1 .. Published |-> Chapter(c)]
    /\ outlines = [c \in Chapters |-> 0] /\ draft = [ch |-> 0, head |-> 0]
    /\ session = None /\ edited = {}
    /\ request = [t \in Txs |-> NoRequest] /\ digest = [t \in Txs |-> NoRequest]
    /\ op = Idle /\ pend = NoPend /\ answer = [t \in Txs |-> None]
    /\ edits = 0 /\ crashes = 0

-----------------------------------------------------------------------------
(* Definitions of the code.                                                *)

LogHead == Len(log)
\* ProjectIdentity is the last apply target: its head moves before the marker.
IdentityHead == IF pend.st \in {"applied", "marked"} THEN LogHead + 1 ELSE LogHead

NextChapter == Cardinality({i \in 1 .. Len(log) : log[i].kind = "chapter"}) + 1

Revisions == {i \in 1 .. Len(log) : log[i].kind = "revision"}

\* current_state.historical_revision: each revision overwrites the one before.
Marker == CHOOSE m \in Revisions : \A i \in Revisions : i <= m

\* requires_downstream_reconciliation
Requires(b) == b.inv # NoInv /\ b.rec = None

\* assert_event_authority_reconciliation_ready
Ready == Revisions # {} => ~Requires(log[Marker])

\* _historical_anchor: the chapter's batch, while its prose is what it was made from.
Anchor(c) == CHOOSE i \in 1 .. Len(log) : log[i].kind = "chapter" /\ log[i].ch = c

\* A mutant: the revisions after the anchor are forgotten.
ChaptersOnly(c) == {i \in Anchor(c) + 1 .. Len(log) : log[i].kind = "chapter"}

\* _event_invalidations: every batch after the anchor.
EventInvalidations(c) == Anchor(c) + 1 .. Len(log)

\* _outline_invalidations and _session_invalidations.
Invalidations(c) ==
    [events |-> EventInvalidations(c),
     outlines |-> {d \in Chapters : d > c /\ outlines[d] # 0},
     session |-> session = "active" /\ MaxChapter > c]

\* capture_historical_revision_dependency_inventory, with the head it is bound to.
Inventory(c, rec) ==
    [ch |-> c, head |-> IdentityHead, outlines |-> outlines, session |-> session, rec |-> rec]

\* _prepare_reconciliation: it binds the blocking revision; what it resolves is what the new
\* revision itself invalidates.
ReconciliationBinds(rec) ==
    rec = None \/ (Revisions # {} /\ Requires(log[Marker]) /\ log[Marker].tx = rec)

Committed(t) == \E i \in Revisions : log[i].tx = t

Release == op' = Idle
Tell(t, a) == answer' = [answer EXCEPT ![t] = a]

-----------------------------------------------------------------------------
(* Everyone else.                                                          *)

Free == op.pc = "idle" /\ pend.st = None

\* A chapter run, under the writer lock and past the barrier.
Publish ==
    /\ Free /\ Ready /\ NextChapter <= MaxChapter /\ Len(log) < MaxLog
    /\ log' = Append(log, Chapter(NextChapter))
    /\ UNCHANGED <<outlines, draft, session, edited, request, digest, op, pend, answer, edits,
                   crashes>>

\* A model call plans a chapter from the authority as it is now.
DraftOutline ==
    /\ Free /\ draft.ch = 0
    /\ \E c \in Planned \cap (NextChapter .. MaxChapter) : draft' = [ch |-> c, head |-> LogHead]
    /\ UNCHANGED <<log, outlines, session, edited, request, digest, op, pend, answer, edits,
                   crashes>>

\* OutlineCheckpointStore.create, behind the dependency fence: refused when the head moved.
StoreOutline ==
    /\ draft.ch # 0 /\ op.pc = "idle"
    /\ draft' = [ch |-> 0, head |-> 0]
    /\ outlines' = IF draft.head = IdentityHead
                   THEN [outlines EXCEPT ![draft.ch] = draft.head] ELSE outlines
    /\ UNCHANGED <<log, session, edited, request, digest, op, pend, answer, edits, crashes>>

\* AutonomySessionManager starts or ends the session, behind the same fence.
ChangeSession ==
    /\ op.pc = "idle"
    /\ \/ session = None /\ pend.st = None /\ session' = "active"
       \/ session = "active" /\ session' = "cancelled"
    /\ UNCHANGED <<log, outlines, draft, edited, request, digest, op, pend, answer, edits,
                   crashes>>

\* Published prose is edited, or put back, with an editor.
EditProse ==
    /\ edits < MaxEdits /\ edits' = edits + 1
    /\ \E c \in 1 .. NextChapter - 1 :
          edited' = IF c \in edited THEN edited \ {c} ELSE edited \cup {c}
    /\ UNCHANGED <<log, outlines, draft, session, request, digest, op, pend, answer, crashes>>

\* The operator captures the inventory and writes a request, or a new one for the same id.
Declare(t) ==
    /\ op.pc = "idle"
    /\ \E c \in 1 .. NextChapter - 1, rec \in {None} \cup {log[i].tx : i \in Revisions} :
          request' = [request EXCEPT ![t] = Inventory(c, rec)]
    /\ Tell(t, None)
    /\ UNCHANGED <<log, outlines, draft, session, edited, digest, op, pend, edits, crashes>>

-----------------------------------------------------------------------------
(* execute_historical_revision_transaction.                                *)

\* event_authority_write_operation: both locks, and what is pending is settled first.
Begin(t) ==
    /\ Free /\ request[t].ch # 0
    /\ op' = [pc |-> "begun", tx |-> t]
    /\ UNCHANGED <<log, outlines, draft, session, edited, request, digest, pend, answer, edits,
                   crashes>>

\* _load_completed_revision: the same request again is answered, another one refused.
LoadCompleted ==
    LET t == op.tx IN
    /\ op.pc = "begun"
    /\ IF Committed(t)
       THEN /\ Release
            /\ Tell(t, IF digest[t] = request[t] /\ request[t].ch \notin edited
                       THEN "already_committed" ELSE "refused")
       ELSE op' = [op EXCEPT !.pc = "preparing"] /\ UNCHANGED answer
    /\ UNCHANGED <<log, outlines, draft, session, edited, request, digest, pend, edits, crashes>>

\* The batch, with its invalidations.
Revision(t) ==
    [kind |-> "revision", ch |-> request[t].ch, tx |-> t, inv |-> Invalidations(request[t].ch),
     rec |-> request[t].rec]

\* prepare_historical_revision_transaction: the head, the inventory captured again, the prose
\* and the reconciliation; the patch id is the transaction's.
Prepare ==
    LET t == op.tx
        r == request[t]
    IN
    /\ op.pc = "preparing" /\ Len(log) < MaxLog
    /\ IF /\ Inventory(r.ch, r.rec) = r /\ r.ch < NextChapter /\ ~Committed(t)
          /\ r.ch \notin edited /\ ReconciliationBinds(r.rec)
       THEN /\ pend' = [st |-> "prepared",
                        batch |-> Revision(t),
                        req |-> r]
            /\ op' = [op EXCEPT !.pc = "applying"] /\ UNCHANGED answer
       ELSE Release /\ Tell(t, "refused") /\ UNCHANGED pend
    /\ UNCHANGED <<log, outlines, draft, session, edited, request, digest, edits, crashes>>

\* guarded_fault: the sources and the inventory are compared before and after each target and
\* before the marker.
Unchanged(t) ==
    /\ request[t].ch \notin edited
    /\ outlines = request[t].outlines /\ session = request[t].session

RollBack(t) == pend' = NoPend /\ Release /\ Tell(t, "refused")

Apply ==
    /\ op.pc = "applying"
    /\ \/ /\ Unchanged(op.tx)
          /\ pend' = [pend EXCEPT !.st = "applied"] /\ op' = [op EXCEPT !.pc = "checking"]
          /\ UNCHANGED answer
       \/ RollBack(op.tx)
    /\ UNCHANGED <<log, outlines, draft, session, edited, request, digest, edits, crashes>>

Check ==
    /\ op.pc = "checking"
    /\ \/ /\ Unchanged(op.tx) /\ op' = [op EXCEPT !.pc = "marking"]
          /\ UNCHANGED <<pend, answer>>
       \/ RollBack(op.tx)
    /\ UNCHANGED <<log, outlines, draft, session, edited, request, digest, edits, crashes>>

\* PersistenceV2Transaction.commit writes the marker: from here the batch stays.
Mark ==
    /\ op.pc = "marking"
    /\ pend' = [pend EXCEPT !.st = "marked"] /\ op' = [op EXCEPT !.pc = "completing"]
    /\ UNCHANGED <<log, outlines, draft, session, edited, request, digest, answer, edits,
                   crashes>>

CommitForward ==
    /\ log' = Append(log, pend.batch) /\ pend' = NoPend
    /\ digest' = [digest EXCEPT ![pend.batch.tx] = pend.req]

\* The receipt, and the completed revision verified against it: an edit of the prose since
\* the last check makes the answer a refusal though the revision is committed.
Complete ==
    LET t == op.tx IN
    /\ op.pc = "completing"
    /\ CommitForward /\ Release
    /\ Tell(t, IF request[t].ch \in edited THEN "refused" ELSE "completed")
    /\ UNCHANGED <<outlines, draft, session, edited, request, edits, crashes>>

\* The process stops; the operating system releases its locks.
Crash ==
    /\ op.pc # "idle" /\ crashes < MaxCrashes /\ crashes' = crashes + 1
    /\ Release /\ Tell(op.tx, "unknown")
    /\ UNCHANGED <<log, outlines, draft, session, edited, request, digest, pend, edits>>

\* A mutant: recovery undoes whatever a crash left.
RecoverBack ==
    /\ op.pc = "idle" /\ pend.st # None /\ pend' = NoPend
    /\ UNCHANGED <<log, digest, outlines, draft, session, edited, request, op, answer, edits,
                   crashes>>

\* The next writer's barrier: forward past the marker, back before it.
Recover ==
    /\ op.pc = "idle" /\ pend.st # None
    /\ IF pend.st = "marked" THEN CommitForward
       ELSE pend' = NoPend /\ UNCHANGED <<log, digest>>
    /\ UNCHANGED <<outlines, draft, session, edited, request, op, answer, edits, crashes>>

Execute == LoadCompleted \/ Prepare \/ Apply \/ Check \/ Mark \/ Complete

Next ==
    \/ Publish \/ DraftOutline \/ StoreOutline \/ ChangeSession \/ EditProse
    \/ \E t \in Txs : Declare(t) \/ Begin(t)
    \/ Execute \/ Crash \/ Recover

Spec == Init /\ [][Next]_vars

\* A process that holds the locks goes on, and a later writer settles what a crash left.
Fairness == WF_vars(Execute) /\ WF_vars(Recover)

FairSpec == Spec /\ Fairness

-----------------------------------------------------------------------------
(* Properties.                                                             *)

RequestType == [ch : 0 .. MaxChapter, head : 0 .. MaxLog, outlines : [Chapters -> 0 .. MaxLog],
                session : {None, "active", "cancelled"}, rec : Txs \cup {None}]
InvType == [events : SUBSET (1 .. MaxLog), outlines : SUBSET Chapters, session : BOOLEAN]
BatchType == [kind : {"chapter", "revision"}, ch : 0 .. MaxChapter, tx : Txs \cup {None},
              inv : InvType, rec : Txs \cup {None}]

\* Every variable has its shape; a revision looks for its receipt and prepares only when no
\* transaction is pending.
TypeOK ==
    /\ Len(log) <= MaxLog /\ \A i \in 1 .. Len(log) : log[i] \in BatchType
    /\ outlines \in [Chapters -> 0 .. MaxLog]
    /\ draft \in [ch : 0 .. MaxChapter, head : 0 .. MaxLog]
    /\ session \in {None, "active", "cancelled"} /\ edited \subseteq Chapters
    /\ request \in [Txs -> RequestType] /\ digest \in [Txs -> RequestType]
    /\ op \in [pc : {"idle", "begun", "preparing", "applying", "checking", "marking",
                      "completing"}, tx : Txs \cup {None}]
    /\ pend \in [st : {None, "prepared", "applied", "marked"}, batch : BatchType,
                  req : RequestType]
    /\ op.pc \in {"begun", "preparing"} => pend.st = None
    /\ answer \in [Txs -> {None, "completed", "already_committed", "refused", "unknown"}]
    /\ edits \in 0 .. MaxEdits /\ crashes \in 0 .. MaxCrashes

\* No chapter is published on top of a revision that invalidated something until a later
\* revision reconciles, although each revision overwrites the marker of the one before
\* (assert_event_authority_reconciliation_ready, _revision_operations).
GeneratesReconciled ==
    \A i \in 1 .. Len(log) : log[i].kind = "chapter" =>
        \A j \in 1 .. i - 1 : log[j].kind = "revision" /\ Requires(log[j]) =>
            \E k \in j + 1 .. i - 1 : log[k].kind = "revision" /\ log[k].rec # None

\* Every live outline of a later chapter that was made before a revision is in that revision's
\* list, whatever a slow model call, a crash or a concurrent store did
\* (test_real_outline_writer_is_fenced_through_history_commit_marker).
NoOutlineEscapes ==
    \A k \in Revisions, d \in Chapters :
        (d > log[k].ch /\ outlines[d] # 0 /\ outlines[d] < k) => d \in log[k].inv.outlines

\* What is committed is what the operator declared: the head it saw, and exactly the outlines
\* and the session it listed.
CommitsAsDeclared ==
    \A k \in Revisions :
        LET r == digest[log[k].tx] IN
        /\ r.ch = log[k].ch /\ r.head = k - 1 /\ r.rec = log[k].rec
        /\ log[k].inv.outlines = {d \in Chapters : d > r.ch /\ r.outlines[d] # 0}
        /\ log[k].inv.session = (r.session = "active" /\ MaxChapter > r.ch)

\* An operator is told that a revision is committed only when that very request is.
AnswersTruthfully ==
    \A t \in Txs : answer[t] \in {"completed", "already_committed"} =>
        Committed(t) /\ digest[t] = request[t]

\* A revision whose marker is written reaches the log, whatever stops the process: it does not
\* stay as it is, and nothing else becomes of it.
Owed == pend.st = "marked" /\ ~Committed(pend.batch.tx)
MarkedCommits ==
    /\ Owed ~> ~Owed
    /\ [][\A t \in Txs : Owed /\ pend.batch.tx = t =>
              Committed(t)' \/ (Owed' /\ pend'.batch.tx = t)]_vars

\* What the gate's description promises: generation goes on only when everything a revision
\* invalidated has been acknowledged (history_revision.py:74).  It does not hold: the
\* reconciliation acknowledges what the reconciling revision invalidates, and that may be a
\* revision of a later chapter.
ReconciledInFull ==
    \A i \in 1 .. Len(log) : log[i].kind = "chapter" =>
        \A j \in 1 .. i - 1 : log[j].kind = "revision" /\ log[j].rec = None =>
            \A e \in log[j].inv.events :
                \E k \in j + 1 .. i - 1 : log[k].rec # None /\ e \in log[k].inv.events

\* A chapter is generated, and an outline kept, only from the history a revision has left, and
\* a revision commits what the operator declared and answers so.
RevisionsHold == GeneratesReconciled /\ NoOutlineEscapes /\ CommitsAsDeclared /\ AnswersTruthfully
=============================================================================
