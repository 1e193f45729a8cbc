---------------------------- MODULE HistoryProofs ----------------------------
(***************************************************************************)
(* Proofs about the history of a book before the chapter in hand.          *)
(*                                                                         *)
(* HistoryRevision: no chapter is published on top of a revision that      *)
(* nobody reconciled, no outline of a later chapter escapes a revision,    *)
(* what is committed was declared, and the answers are true.  All of it is *)
(* decided when a revision is prepared or applied and must hold when its   *)
(* batch reaches the log, which may be another process after a crash.      *)
(* Waiting says what the pending transaction carries there.                *)
(*                                                                         *)
(* EventMigration: identity, event store and receipts of a book change     *)
(* together, and nothing that was completed is lost.  TxnPlaced says what  *)
(* the transaction has written at each of its steps, Intended which intent *)
(* a rollback leaves to the legacy book it returns to.                     *)
(***************************************************************************)
EXTENDS HistoryRevision, EventMigration, FiniteSetTheorems, WellFoundedInduction, TLAPS

\* The chapters of the log are the first ones, so that a chapter below the next has its batch.
Numbered ==
  /\ NextChapter - 1 <= MaxChapter
  /\ \A c \in 1 .. NextChapter - 1 : \E i \in 1 .. Len(log) : log[i].kind = "chapter" /\ log[i].ch = c

\* A revision without a later batch to invalidate was made right after its chapter.
Bare(b, n) == b.inv.events = {} => n > 0 /\ log[n].kind = "chapter"

Listed(b, r) == b.inv.outlines = {d \in Chapters : d > r.ch /\ r.outlines[d] # 0}

\* A batch is the one its request asks for.
MadeFrom(b, r) ==
  /\ b.kind = "revision" /\ b.tx \in Txs
  /\ r.ch = b.ch /\ r.rec = b.rec /\ Listed(b, r)
  /\ b.inv.session = (r.session = "active" /\ MaxChapter > r.ch)

\* The outlines made up to head n that a batch does not list.
Escaping(b, n) == {d \in Chapters : d > b.ch /\ outlines[d] # 0 /\ outlines[d] <= n} \ b.inv.outlines

\* What the pending transaction will commit.
Waiting ==
  pend.st # None =>
    /\ MadeFrom(pend.batch, pend.req) /\ ~Committed(pend.batch.tx)
    /\ pend.req.head = Len(log) /\ Len(log) < MaxLog
    /\ Bare(pend.batch, Len(log))
    /\ pend.st \in {"applied", "marked"} => Escaping(pend.batch, Len(log)) = {}

\* Where the process is that executes a revision.
Executing ==
  /\ op.pc # "idle" => op.tx \in Txs /\ request[op.tx].ch # 0
  /\ op.pc \in {"applying", "checking", "marking", "completing"} =>
       pend.batch.tx = op.tx /\ pend.req = request[op.tx]
  /\ op.pc = "applying" => pend.st = "prepared"
  /\ op.pc \in {"checking", "marking"} => pend.st = "applied"
  /\ op.pc = "completing" => pend.st = "marked"

\* The log and what was committed with it.
Logged ==
  /\ log \in Seq(BatchType) /\ Numbered
  /\ \A k \in Revisions : log[k].tx \in Txs /\ Bare(log[k], k - 1)
  /\ GeneratesReconciled /\ CommitsAsDeclared

IInv ==
  /\ TypeOK /\ Logged /\ Waiting /\ Executing
  /\ NoOutlineEscapes /\ AnswersTruthfully

\* CommitsAsDeclared of one batch b, of the request r under its id, at the place k of the log.
AsDeclared(r, b, k) ==
  /\ r.ch = b.ch /\ r.head = k - 1 /\ r.rec = b.rec /\ Listed(b, r)
  /\ b.inv.session = (r.session = "active" /\ MaxChapter > r.ch)

-----------------------------------------------------------------------------
(* Sets of numbers, and the log with one more batch.                       *)

LEMMA Least == ASSUME NEW T \in SUBSET Nat, T # {} PROVE \E c \in T : \A d \in T : c <= d
<1>1. PICK c \in T : \A d \in T : <<d, c>> \notin OpToRel(<, Nat)
  BY WFMin, NatLessThanWellFounded, Zenon
<1>2. \A d \in T : ~(d < c)
  BY <1>1, Zenon DEF OpToRel
<1> QED BY <1>2

LEMMA Greatest ==
  ASSUME NEW n \in Nat, NEW T \in SUBSET (1 .. n), T # {}
  PROVE  \E m \in T : \A i \in T : i <= m
<1> DEFINE below == {n - x : x \in T}
<1>1. \A i \in T : i \in Nat /\ n - i \in Nat
  OBVIOUS
<1>2. below \in SUBSET Nat /\ below # {}
  BY <1>1
<1>3. PICK c \in below : \A d \in below : c <= d
  <2> HIDE DEF below
  <2> QED BY <1>2, Least
<1>4. PICK m \in T : c = n - m
  BY <1>3
<1>5. \A i \in T : c <= n - i
  BY <1>3
<1> QED BY <1>1, <1>4, <1>5

LEMMA LogFacts ==
  ASSUME log \in Seq(BatchType)
  PROVE  /\ Len(log) \in Nat /\ \A i \in 1 .. Len(log) : log[i] \in BatchType
         /\ Revisions \subseteq 1 .. Len(log) /\ NextChapter \in Nat \ {0}
<1>1. Len(log) \in Nat /\ \A i \in 1 .. Len(log) : log[i] \in BatchType
  OBVIOUS
<1> DEFINE made == {i \in 1 .. Len(log) : log[i].kind = "chapter"}
<1>2. IsFiniteSet(made)
  <2>1. IsFiniteSet(1 .. Len(log)) /\ made \in SUBSET (1 .. Len(log))
    BY <1>1, FS_Interval
  <2> QED BY <2>1, FS_Subset
<1>3. Cardinality(made) \in Nat
  BY <1>2, FS_CardinalityType
<1> QED BY <1>1, <1>3 DEF Revisions, NextChapter

LEMMA Appended ==
  ASSUME log \in Seq(BatchType), NEW b \in BatchType, log' = Append(log, b)
  PROVE  /\ log' \in Seq(BatchType) /\ Len(log') = Len(log) + 1 /\ log'[Len(log) + 1] = b
         /\ \A i \in 1 .. Len(log) : log'[i] = log[i]
         /\ 1 .. Len(log') = 1 .. Len(log) \cup {Len(log) + 1}
         /\ Revisions' = IF b.kind = "revision" THEN Revisions \cup {Len(log) + 1} ELSE Revisions
         /\ NextChapter' = IF b.kind = "chapter" THEN NextChapter + 1 ELSE NextChapter
<1>1. /\ log' \in Seq(BatchType) /\ Len(log') = Len(log) + 1 /\ log'[Len(log) + 1] = b
      /\ Len(log) \in Nat /\ \A i \in 1 .. Len(log) : log'[i] = log[i]
  OBVIOUS
<1>2. 1 .. Len(log') = 1 .. Len(log) \cup {Len(log) + 1}
  BY <1>1
<1>3. Revisions' = IF b.kind = "revision" THEN Revisions \cup {Len(log) + 1} ELSE Revisions
  BY <1>1, <1>2 DEF Revisions
<1> DEFINE made == {i \in 1 .. Len(log) : log[i].kind = "chapter"}
           after == {i \in 1 .. Len(log') : log'[i].kind = "chapter"}
<1>4. after = IF b.kind = "chapter" THEN made \cup {Len(log) + 1} ELSE made
  BY <1>1, <1>2
<1>5. IsFiniteSet(made) /\ Len(log) + 1 \notin made
  <2>1. IsFiniteSet(1 .. Len(log)) /\ made \in SUBSET (1 .. Len(log))
    BY <1>1, FS_Interval
  <2>2. Len(log) + 1 \notin made
    BY <1>1
  <2> QED BY <2>1, <2>2, FS_Subset
<1>6. Cardinality(after) = IF b.kind = "chapter" THEN Cardinality(made) + 1 ELSE Cardinality(made)
  BY <1>4, <1>5, FS_AddElement
<1>7. Cardinality(made) \in Nat
  BY <1>5, FS_CardinalityType
<1> QED BY <1>1, <1>2, <1>3, <1>6, <1>7 DEF NextChapter

LEMMA ChapterTyped == \A c \in 0 .. MaxChapter : Chapter(c) \in BatchType
BY DEF Chapter, BatchType, InvType, NoInv, None

LEMMA PendTyped ==
  NoPend \in [st : {None, "prepared", "applied", "marked"}, batch : BatchType, req : RequestType]
BY HistoryAssumption, ChapterTyped DEF NoPend, NoRequest, RequestType, None

\* Revisions carry over to a longer log, and so does what was told of them.
LEMMA StaysCommitted ==
  ASSUME log \in Seq(BatchType), NEW b \in BatchType, log' = Append(log, b), NEW t
  PROVE  /\ Committed(t) => Committed(t)'
         /\ b.kind = "revision" => Committed(b.tx)'
<1>1. /\ \A i \in Revisions : i \in Revisions' /\ log'[i] = log[i]
      /\ b.kind = "revision" => Len(log) + 1 \in Revisions' /\ log'[Len(log) + 1] = b
  BY Appended, LogFacts
<1> QED BY <1>1 DEF Committed

LEMMA NumberedOn ==
  ASSUME log \in Seq(BatchType), Numbered, NEW b \in BatchType, log' = Append(log, b),
         b.kind = "chapter" => b.ch = NextChapter /\ NextChapter <= MaxChapter
  PROVE  Numbered'
<1>1. NextChapter \in Nat /\ Len(log) \in Nat /\ MaxChapter \in Nat
  BY LogFacts, HistoryAssumption
<1>2. NextChapter' - 1 <= MaxChapter
  BY <1>1, Appended DEF Numbered
<1>3. ASSUME NEW c \in 1 .. NextChapter' - 1
      PROVE  \E i \in 1 .. Len(log') : log'[i].kind = "chapter" /\ log'[i].ch = c
  <2>1. CASE c \in 1 .. NextChapter - 1
    <3>1. PICK i \in 1 .. Len(log) : log[i].kind = "chapter" /\ log[i].ch = c
      BY <2>1 DEF Numbered
    <3> QED BY <3>1, Appended
  <2>2. CASE c \notin 1 .. NextChapter - 1
    <3>1. b.kind = "chapter" /\ c = NextChapter
      BY <1>1, <1>3, <2>2, Appended
    <3> QED BY <1>1, <3>1, Appended
  <2> QED BY <2>1, <2>2
<1> QED BY <1>2, <1>3 DEF Numbered

\* Generation goes on past every revision that invalidated something, reconciled.
LEMMA ReadyIsReconciled ==
  ASSUME Logged, Ready, NEW j \in Revisions, Requires(log[j])
  PROVE  \E k \in j + 1 .. Len(log) : log[k].kind = "revision" /\ log[k].rec # None
<1> DEFINE m == Marker
<1>1. Len(log) \in Nat /\ Revisions \subseteq 1 .. Len(log)
  BY LogFacts DEF Logged
<1>2. m \in Revisions /\ \A i \in Revisions : i <= m
  BY <1>1, Greatest DEF Marker
<1>3. ~Requires(log[m])
  BY <1>2 DEF Ready
<1>4. m \in 1 .. Len(log) /\ j \in 1 .. Len(log) /\ j < m /\ log[m].kind = "revision"
      /\ log[j].kind = "revision"
  BY <1>1, <1>2, <1>3 DEF Revisions
<1>5. CASE log[m].rec # None
  BY <1>4, <1>5
<1>6. CASE log[m].rec = None
  <2>1. log[m].inv.events = {}
    BY <1>3, <1>6 DEF Requires, NoInv
  <2>2. m - 1 > 0 /\ log[m - 1].kind = "chapter"
    BY <1>2, <2>1 DEF Logged, Bare
  <2>3. m - 1 \in 1 .. Len(log) /\ j \in 1 .. (m - 1) - 1
    BY <1>4, <2>2
  <2>4. \E k \in j + 1 .. (m - 1) - 1 : log[k].kind = "revision" /\ log[k].rec # None
    BY <1>4, <2>2, <2>3 DEF Logged, GeneratesReconciled
  <2> QED BY <1>4, <2>4
<1> QED BY <1>5, <1>6

-----------------------------------------------------------------------------
(* What a step leaves alone.                                               *)

LEMMA LogKept == ASSUME Logged, UNCHANGED <<log, digest>> PROVE Logged'
BY DEF Logged, Numbered, NextChapter, Revisions, Bare, GeneratesReconciled, Requires, CommitsAsDeclared

LEMMA WaitingKept == ASSUME Waiting, UNCHANGED <<log, outlines, pend>> PROVE Waiting'
BY DEF Waiting, MadeFrom, Listed, Committed, Revisions, Bare, Escaping

LEMMA OutlinesKept == ASSUME NoOutlineEscapes, UNCHANGED <<log, outlines>> PROVE NoOutlineEscapes'
BY DEF NoOutlineEscapes, Revisions

LEMMA AnswersKept ==
  ASSUME AnswersTruthfully, UNCHANGED <<log, digest, request, answer>> PROVE AnswersTruthfully'
BY DEF AnswersTruthfully, Committed, Revisions

LEMMA HeadTyped ==
  ASSUME IInv
  PROVE  /\ LogHead \in 0 .. MaxLog /\ IdentityHead \in 0 .. MaxLog /\ IdentityHead >= LogHead
         /\ NextChapter \in 1 .. MaxChapter + 1 /\ MaxLog \in Nat /\ MaxChapter \in Nat
<1>1. Len(log) \in Nat /\ Len(log) <= MaxLog /\ MaxLog \in Nat /\ NextChapter \in Nat \ {0}
      /\ MaxChapter \in Nat
  BY LogFacts, HistoryAssumption DEF IInv, Logged, TypeOK
<1>2. pend.st \in {"applied", "marked"} => Len(log) < MaxLog
  BY DEF IInv, Waiting, None
<1> QED BY <1>1, <1>2 DEF LogHead, IdentityHead, IInv, Logged, Numbered

-----------------------------------------------------------------------------
(* The others.                                                             *)

LEMMA PublishStep == ASSUME IInv, Publish PROVE IInv'
<1> DEFINE b == Chapter(NextChapter)
<1>1. /\ log \in Seq(BatchType) /\ b \in BatchType /\ b.kind = "chapter" /\ b.ch = NextChapter
      /\ log' = Append(log, b) /\ Len(log) \in Nat /\ Len(log) < MaxLog /\ NextChapter <= MaxChapter
      /\ pend.st = None /\ op.pc = "idle" /\ Ready
  BY HeadTyped, LogFacts, ChapterTyped DEF Publish, Free, IInv, Logged, Chapter
<1>2. Revisions' = Revisions /\ Revisions \subseteq 1 .. Len(log) /\ Len(log') = Len(log) + 1
      /\ log'[Len(log) + 1] = b
      /\ \A k \in 1 .. Len(log) : log'[k] = log[k]
  BY <1>1, Appended, LogFacts
<1>3. TypeOK'
  <2>1. Len(log') <= MaxLog /\ \A i \in 1 .. Len(log') : log'[i] \in BatchType
    BY <1>1, <1>2, HeadTyped, Appended
  <2> QED BY <2>1 DEF Publish, IInv, TypeOK
<1>4. Logged'
  <2>1. Numbered' /\ log' \in Seq(BatchType)
    BY <1>1, NumberedOn, Appended DEF IInv, Logged
  <2>2. \A k \in Revisions' : log'[k].tx \in Txs /\ Bare(log[k], k - 1)'
    <3> SUFFICES ASSUME NEW k \in Revisions' PROVE log'[k].tx \in Txs /\ Bare(log[k], k - 1)'
      OBVIOUS
    <3>1. k \in 1 .. Len(log) /\ log'[k] = log[k] /\ log[k].tx \in Txs /\ Bare(log[k], k - 1)
      BY <1>1, <1>2 DEF IInv, Logged
    <3>2. k - 1 > 0 => log'[k - 1] = log[k - 1]
      BY <1>1, <1>2, <3>1
    <3> QED BY <3>1, <3>2 DEF Bare
  <2>3. CommitsAsDeclared'
    BY <1>2 DEF CommitsAsDeclared, Publish, IInv, Logged
  <2>4. GeneratesReconciled'
    <3> SUFFICES ASSUME NEW i \in 1 .. Len(log'), log'[i].kind = "chapter", NEW j \in 1 .. i - 1,
                        log'[j].kind = "revision", Requires(log'[j])
                 PROVE  \E k \in j + 1 .. i - 1 : log'[k].kind = "revision" /\ log'[k].rec # None
      BY DEF GeneratesReconciled, Requires
    <3>1. j \in 1 .. Len(log) /\ log'[j] = log[j] /\ j \in Revisions
      BY <1>1, <1>2 DEF Revisions
    <3>2. CASE i = Len(log) + 1
      <4>1. \E k \in j + 1 .. Len(log) : log[k].kind = "revision" /\ log[k].rec # None
        BY <1>1, <3>1, ReadyIsReconciled DEF IInv
      <4> QED BY <1>1, <1>2, <3>1, <3>2, <4>1
    <3>3. CASE i \in 1 .. Len(log)
      <4>1. \E k \in j + 1 .. i - 1 : log[k].kind = "revision" /\ log[k].rec # None
        BY <1>2, <3>1, <3>3 DEF IInv, Logged, GeneratesReconciled
      <4> QED BY <1>1, <1>2, <3>1, <3>3, <4>1
    <3> QED BY <1>1, <1>2, <3>2, <3>3
  <2> QED BY <2>1, <2>2, <2>3, <2>4 DEF Logged
<1>5. Waiting' /\ Executing'
  BY <1>1 DEF Publish, Waiting, Executing
<1>6. NoOutlineEscapes'
  BY <1>2 DEF NoOutlineEscapes, Publish, IInv
<1>7. AnswersTruthfully'
  BY <1>1, StaysCommitted DEF AnswersTruthfully, Publish, IInv
<1> QED BY <1>3, <1>4, <1>5, <1>6, <1>7 DEF IInv

LEMMA DraftOutlineStep == ASSUME IInv, DraftOutline PROVE IInv'
<1>1. TypeOK'
  BY HeadTyped, HistoryAssumption DEF DraftOutline, IInv, TypeOK
<1> QED BY <1>1, LogKept, WaitingKept, OutlinesKept, AnswersKept DEF DraftOutline, IInv, Executing

LEMMA StoreOutlineStep == ASSUME IInv, StoreOutline PROVE IInv'
<1>1. draft.ch \in Chapters /\ draft.head \in 0 .. MaxLog /\ outlines \in [Chapters -> 0 .. MaxLog]
  BY HeadTyped DEF StoreOutline, IInv, TypeOK, Chapters
<1>2. /\ outlines' \in [Chapters -> 0 .. MaxLog]
      /\ \A d \in Chapters : outlines'[d] = outlines[d] \/ outlines'[d] = IdentityHead
  BY <1>1 DEF StoreOutline
<1>3. TypeOK'
  <2>1. draft' \in [ch : 0 .. MaxChapter, head : 0 .. MaxLog]
    BY HeadTyped DEF StoreOutline
  <2> QED BY <1>2, <2>1 DEF StoreOutline, IInv, TypeOK
<1>4. NoOutlineEscapes'
  <2>1. Revisions \subseteq 1 .. Len(log) /\ Len(log) \in Nat /\ IdentityHead \in Nat /\ IdentityHead >= Len(log)
    BY LogFacts, HeadTyped DEF IInv, Logged, LogHead
  <2> QED BY <1>2, <2>1 DEF StoreOutline, IInv, NoOutlineEscapes, Revisions
<1>5. Waiting'
  <2>1. pend.st \in {"applied", "marked"} => IdentityHead = Len(log) + 1 /\ Len(log) \in Nat
    BY LogFacts DEF IdentityHead, LogHead, IInv, Logged
  <2>2. pend.st \in {"applied", "marked"} =>
          Escaping(pend.batch, Len(log))' \subseteq Escaping(pend.batch, Len(log))
    BY <1>2, <2>1 DEF Escaping, StoreOutline
  <2> QED BY <2>2 DEF StoreOutline, IInv, Waiting, MadeFrom, Listed, Committed, Revisions, Bare, None
<1> QED BY <1>3, <1>4, <1>5, LogKept, AnswersKept DEF StoreOutline, IInv, Executing

LEMMA ChangeSessionStep == ASSUME IInv, ChangeSession PROVE IInv'
<1>1. TypeOK'
  BY DEF ChangeSession, IInv, TypeOK
<1> QED BY <1>1, LogKept, WaitingKept, OutlinesKept, AnswersKept DEF ChangeSession, IInv, Executing

LEMMA EditProseStep == ASSUME IInv, EditProse PROVE IInv'
<1>1. edited' \subseteq Chapters
  <2>1. edited \subseteq Chapters
    BY DEF IInv, TypeOK
  <2>2. 1 .. NextChapter - 1 \subseteq Chapters
    BY HeadTyped DEF Chapters
  <2>3. PICK c \in 1 .. NextChapter - 1 :
          edited' = IF c \in edited THEN edited \ {c} ELSE edited \cup {c}
    BY DEF EditProse
  <2> QED BY <2>1, <2>2, <2>3
<1>2. TypeOK'
  BY <1>1, HistoryAssumption DEF EditProse, IInv, TypeOK
<1> QED BY <1>2, LogKept, WaitingKept, OutlinesKept, AnswersKept DEF EditProse, IInv, Executing

LEMMA DeclareStep == ASSUME IInv, NEW t \in Txs, Declare(t) PROVE IInv'
<1>1. PICK c \in 1 .. NextChapter - 1, rec \in {None} \cup {log[i].tx : i \in Revisions} :
        request' = [request EXCEPT ![t] = Inventory(c, rec)]
  BY DEF Declare
<1>2. rec \in Txs \cup {None} /\ c \in 0 .. MaxChapter
  BY HeadTyped DEF IInv, Logged
<1>3. Inventory(c, rec) \in RequestType
  BY <1>2, HeadTyped DEF Inventory, RequestType, IInv, TypeOK
<1>4. TypeOK'
  <2>1. request' \in [Txs -> RequestType]
    BY <1>1, <1>3 DEF IInv, TypeOK
  <2>2. answer' \in [Txs -> {None, "completed", "already_committed", "refused", "unknown"}]
    BY DEF Declare, Tell, IInv, TypeOK
  <2> QED BY <2>1, <2>2 DEF Declare, IInv, TypeOK
<1>5. Executing'
  BY DEF Declare, Executing
<1>6. AnswersTruthfully'
  BY <1>1 DEF Declare, Tell, IInv, TypeOK, AnswersTruthfully, Committed, Revisions, None
<1> QED BY <1>4, <1>5, <1>6, LogKept, WaitingKept, OutlinesKept DEF Declare, IInv

-----------------------------------------------------------------------------
(* The revision.                                                           *)

LEMMA BeginStep == ASSUME IInv, NEW t \in Txs, Begin(t) PROVE IInv'
<1>1. TypeOK'
  BY DEF Begin, Free, IInv, TypeOK, None
<1>2. Executing'
  BY DEF Begin, Executing
<1> QED BY <1>1, <1>2, LogKept, WaitingKept, OutlinesKept, AnswersKept DEF Begin, IInv

LEMMA LoadCompletedStep == ASSUME IInv, LoadCompleted PROVE IInv'
<1>1. op.tx \in Txs
  BY DEF LoadCompleted, IInv, Executing
<1>2. TypeOK'
  <2>1. answer' \in [Txs -> {None, "completed", "already_committed", "refused", "unknown"}]
    BY <1>1 DEF LoadCompleted, Tell, IInv, TypeOK
  <2>2. op' \in [pc : {"idle", "begun", "preparing", "applying", "checking", "marking", "completing"},
                 tx : Txs \cup {None}]
    BY <1>1 DEF LoadCompleted, Release, Idle, IInv, TypeOK
  <2> QED BY <2>1, <2>2 DEF LoadCompleted, IInv, TypeOK
<1>3. Executing'
  BY <1>1 DEF LoadCompleted, Release, Idle, IInv, Executing, TypeOK
<1>4. AnswersTruthfully'
  BY <1>1 DEF LoadCompleted, Tell, IInv, TypeOK, AnswersTruthfully, Committed, Revisions
<1> QED BY <1>2, <1>3, <1>4, LogKept, WaitingKept, OutlinesKept DEF LoadCompleted, IInv

LEMMA AnchorIs ==
  ASSUME Logged, NEW c \in 1 .. NextChapter - 1
  PROVE  Anchor(c) \in 1 .. Len(log) /\ log[Anchor(c)].kind = "chapter"
<1>1. \E i \in 1 .. Len(log) : log[i].kind = "chapter" /\ log[i].ch = c
  BY DEF Logged, Numbered
<1> QED BY <1>1 DEF Anchor

\* A request whose inventory is still the present one.
LEMMA RevisionIs ==
  ASSUME IInv, NEW t \in Txs, pend.st = None, request[t].ch \in 1 .. NextChapter - 1, ~Committed(t),
         Len(log) < MaxLog, Inventory(request[t].ch, request[t].rec) = request[t]
  PROVE  /\ Revision(t) \in BatchType /\ MadeFrom(Revision(t), request[t])
         /\ request[t].head = Len(log) /\ Bare(Revision(t), Len(log)) /\ Revision(t).tx = t
<1> DEFINE r == request[t]
           b == Revision(t)
           a == Anchor(r.ch)
<1>1. r \in RequestType /\ r.outlines = outlines /\ r.session = session /\ r.head = Len(log)
  BY DEF Inventory, IdentityHead, LogHead, None, IInv, TypeOK
<1>2. /\ b.kind = "revision" /\ b.tx = t /\ b.ch = r.ch /\ b.rec = r.rec
      /\ b.inv.events = a + 1 .. Len(log)
      /\ b.inv.outlines = {d \in Chapters : d > r.ch /\ outlines[d] # 0}
      /\ b.inv.session = (session = "active" /\ MaxChapter > r.ch)
  BY DEF Revision, Invalidations, EventInvalidations
<1>3. a \in 1 .. Len(log) /\ log[a].kind = "chapter" /\ Len(log) \in Nat /\ MaxLog \in Nat
  BY AnchorIs, HeadTyped, LogFacts DEF IInv, Logged
<1>4. Revision(t) \in BatchType
  <2>1. Invalidations(r.ch) \in InvType
    <3>1. a + 1 .. Len(log) \in SUBSET (1 .. MaxLog)
      BY <1>3
    <3>2. {d \in Chapters : d > r.ch /\ outlines[d] # 0} \in SUBSET Chapters
      OBVIOUS
    <3>3. (session = "active" /\ MaxChapter > r.ch) \in BOOLEAN
      OBVIOUS
    <3> QED BY <3>1, <3>2, <3>3 DEF Invalidations, EventInvalidations, InvType
  <2> QED BY <1>1, <2>1 DEF Revision, BatchType, RequestType
<1>5. Bare(b, Len(log))
  <2>1. b.inv.events = {} => a = Len(log) /\ Len(log) > 0
    <3> HIDE DEF a, b
    <3>1. a # Len(log) => Len(log) \in a + 1 .. Len(log)
      BY <1>3
    <3>2. Len(log) > 0
      BY <1>3
    <3> QED BY <1>2, <3>1, <3>2
  <2> QED BY <1>3, <2>1 DEF Bare
<1>6. MadeFrom(b, r)
  BY <1>1, <1>2 DEF MadeFrom, Listed
<1> QED BY <1>1, <1>2, <1>4, <1>5, <1>6

LEMMA AnswerTyped ==
  ASSUME IInv, op.tx \in Txs, NEW a \in {None, "completed", "already_committed", "refused", "unknown"},
         Tell(op.tx, a)
  PROVE  /\ answer' \in [Txs -> {None, "completed", "already_committed", "refused", "unknown"}]
         /\ answer'[op.tx] = a /\ \A t \in Txs : t # op.tx => answer'[t] = answer[t]
BY DEF Tell, IInv, TypeOK

\* A revision that is given up leaves nothing behind.
LEMMA RefusedStep ==
  ASSUME IInv, op.tx \in Txs, pend' = NoPend, Release, Tell(op.tx, "refused"),
         UNCHANGED <<log, outlines, draft, session, edited, request, digest, edits, crashes>>
  PROVE  IInv'
<1>1. TypeOK'
  BY PendTyped, AnswerTyped DEF Release, Idle, IInv, TypeOK, NoPend
<1>2. Waiting' /\ Executing'
  BY DEF Release, Idle, Waiting, Executing, NoPend
<1>3. AnswersTruthfully'
  BY AnswerTyped DEF IInv, AnswersTruthfully, Committed, Revisions
<1> QED BY <1>1, <1>2, <1>3, LogKept, OutlinesKept DEF IInv

LEMMA PrepareStep == ASSUME IInv, Prepare PROVE IInv'
<1> DEFINE t == op.tx
<1>1. t \in Txs /\ request[t] \in RequestType /\ request[t].ch # 0 /\ pend.st = None /\ op.pc = "preparing"
      /\ Len(log) < MaxLog
  BY DEF Prepare, IInv, Executing, TypeOK
<1>2. CASE /\ Inventory(request[t].ch, request[t].rec) = request[t] /\ request[t].ch < NextChapter
           /\ ~Committed(t)
           /\ pend' = [st |-> "prepared", batch |-> Revision(t), req |-> request[t]]
           /\ op' = [op EXCEPT !.pc = "applying"] /\ UNCHANGED answer
  <2>1. request[t].ch \in 1 .. NextChapter - 1
    BY <1>1, <1>2, HeadTyped DEF RequestType
  <2>2. /\ Revision(t) \in BatchType /\ MadeFrom(Revision(t), request[t]) /\ Revision(t).tx = t
        /\ request[t].head = Len(log) /\ Bare(Revision(t), Len(log))
    BY <1>1, <1>2, <2>1, RevisionIs
  <2>3. TypeOK'
    BY <1>1, <1>2, <2>2 DEF Prepare, IInv, TypeOK, None
  <2>4. Waiting'
    <3>1. pend'.batch = Revision(t) /\ pend'.req = request[t] /\ pend'.st = "prepared"
      BY <1>2
    <3>2. MadeFrom(pend'.batch, pend'.req) /\ ~Committed(pend'.batch.tx) /\ Bare(pend'.batch, Len(log))
          /\ pend'.req.head = Len(log)
      BY <1>2, <2>2, <3>1
    <3> QED BY <1>1, <3>1, <3>2 DEF Prepare, Waiting, MadeFrom, Listed, Committed, Revisions, Bare
  <2>5. Executing'
    BY <1>1, <1>2, <2>2 DEF Prepare, Executing, IInv, TypeOK
  <2> QED BY <1>2, <2>3, <2>4, <2>5, LogKept, OutlinesKept, AnswersKept DEF Prepare, IInv
<1>3. CASE Release /\ Tell(t, "refused") /\ UNCHANGED pend
  <2>1. TypeOK'
    BY <1>1, <1>3, AnswerTyped DEF Prepare, Release, Idle, IInv, TypeOK
  <2>2. AnswersTruthfully'
    BY <1>1, <1>3, AnswerTyped DEF Prepare, IInv, AnswersTruthfully, Committed, Revisions
  <2>3. Executing'
    BY <1>3 DEF Release, Idle, Executing
  <2> QED BY <1>3, <2>1, <2>2, <2>3, LogKept, WaitingKept, OutlinesKept DEF Prepare, IInv
<1> QED BY <1>2, <1>3 DEF Prepare

LEMMA ApplyStep == ASSUME IInv, Apply PROVE IInv'
<1>1. op.tx \in Txs /\ pend.st = "prepared" /\ pend.req = request[op.tx] /\ pend.batch.tx = op.tx
  BY DEF Apply, IInv, Executing
<1>2. CASE /\ Unchanged(op.tx) /\ pend' = [pend EXCEPT !.st = "applied"]
           /\ op' = [op EXCEPT !.pc = "checking"] /\ UNCHANGED answer
  <2>1. TypeOK'
    BY <1>1, <1>2 DEF Apply, IInv, TypeOK, None
  <2>2. pend'.batch = pend.batch /\ pend'.req = pend.req /\ pend'.st = "applied"
    BY <1>2 DEF IInv, TypeOK
  <2>3. Escaping(pend.batch, Len(log)) = {}
    BY <1>1, <1>2 DEF Unchanged, IInv, Waiting, MadeFrom, Listed, Escaping, None
  <2>4. Waiting'
    BY <1>1, <2>2, <2>3
    DEF Apply, IInv, Waiting, MadeFrom, Listed, Committed, Revisions, Bare, Escaping, None
  <2>5. Executing'
    BY <1>1, <1>2, <2>2 DEF Apply, Executing, IInv, TypeOK
  <2> QED BY <1>2, <2>1, <2>4, <2>5, LogKept, OutlinesKept, AnswersKept DEF Apply, IInv
<1>3. CASE RollBack(op.tx)
  BY <1>1, <1>3, RefusedStep DEF Apply, RollBack
<1> QED BY <1>2, <1>3 DEF Apply

LEMMA CheckStep == ASSUME IInv, Check PROVE IInv'
<1>1. op.tx \in Txs /\ pend.st = "applied"
  BY DEF Check, IInv, Executing
<1>2. CASE op' = [op EXCEPT !.pc = "marking"] /\ UNCHANGED <<pend, answer>>
  <2>1. TypeOK'
    BY <1>1, <1>2 DEF Check, IInv, TypeOK, None
  <2>2. Executing'
    BY <1>1, <1>2 DEF Check, Executing, IInv, TypeOK
  <2> QED BY <1>2, <2>1, <2>2, LogKept, WaitingKept, OutlinesKept, AnswersKept DEF Check, IInv
<1>3. CASE RollBack(op.tx)
  BY <1>1, <1>3, RefusedStep DEF Check, RollBack
<1> QED BY <1>2, <1>3 DEF Check

LEMMA MarkStep == ASSUME IInv, Mark PROVE IInv'
<1>1. op.tx \in Txs /\ pend.st = "applied"
  BY DEF Mark, IInv, Executing
<1>2. pend'.batch = pend.batch /\ pend'.req = pend.req /\ pend'.st = "marked"
  BY DEF Mark, IInv, TypeOK
<1>3. TypeOK'
  BY <1>1 DEF Mark, IInv, TypeOK, None
<1>4. Waiting'
  BY <1>1, <1>2 DEF Mark, IInv, Waiting, MadeFrom, Listed, Committed, Revisions, Bare, Escaping, None
<1>5. Executing'
  BY <1>1, <1>2 DEF Mark, Executing, IInv, TypeOK
<1> QED BY <1>3, <1>4, <1>5, LogKept, OutlinesKept, AnswersKept DEF Mark, IInv

LEMMA DeclaredForm ==
  /\ CommitsAsDeclared <=> \A k \in Revisions : AsDeclared(digest[log[k].tx], log[k], k)
  /\ CommitsAsDeclared' <=> \A k \in Revisions' : AsDeclared(digest'[log'[k].tx], log'[k], k)
BY DEF CommitsAsDeclared, AsDeclared, Listed

\* The batch reaches the log, by the process that made it or by the one that recovers it.
LEMMA Forward ==
  ASSUME IInv, pend.st = "marked", CommitForward, UNCHANGED outlines
  PROVE  /\ Logged' /\ Waiting' /\ NoOutlineEscapes'
         /\ \A t \in Txs : (t = pend.batch.tx => Committed(t)')
         /\ Len(log') <= MaxLog /\ digest' \in [Txs -> RequestType] /\ digest'[pend.batch.tx] = pend.req
         /\ \A t \in Txs : (Committed(t) => (Committed(t)' /\ digest'[t] = digest[t]))
<1> DEFINE b == pend.batch
           n == Len(log) + 1
<1>1. /\ log \in Seq(BatchType) /\ b \in BatchType /\ log' = Append(log, b) /\ Len(log) \in Nat
      /\ MadeFrom(b, pend.req) /\ ~Committed(b.tx) /\ pend.req.head = Len(log) /\ Len(log) < MaxLog
      /\ Bare(b, Len(log)) /\ Escaping(b, Len(log)) = {} /\ b.kind = "revision" /\ b.tx \in Txs
      /\ pend.req \in RequestType
  BY LogFacts DEF CommitForward, IInv, Logged, Waiting, MadeFrom, None, TypeOK
<1>2. /\ Revisions' = Revisions \cup {n} /\ Revisions \subseteq 1 .. Len(log) /\ Len(log') = n
      /\ log'[n] = b /\ \A k \in 1 .. Len(log) : log'[k] = log[k]
  BY <1>1, Appended, LogFacts
<1>3. /\ digest' \in [Txs -> RequestType] /\ digest'[b.tx] = pend.req
      /\ \A t \in Txs : t # b.tx => digest'[t] = digest[t]
  BY <1>1 DEF CommitForward, IInv, TypeOK
<1>4. \A t \in Txs : /\ (t = b.tx => Committed(t)')
                     /\ (Committed(t) => (Committed(t)' /\ digest'[t] = digest[t]))
  <2> SUFFICES ASSUME NEW t \in Txs
               PROVE  /\ (t = b.tx => Committed(t)')
                      /\ (Committed(t) => (Committed(t)' /\ digest'[t] = digest[t]))
    OBVIOUS
  <2>1. t = b.tx => Committed(t)'
    BY <1>2 DEF Committed
  <2>2. Committed(t) => Committed(t)'
    BY <1>2 DEF Committed
  <2>3. Committed(t) => t # b.tx
    BY <1>1
  <2> QED BY <1>3, <2>1, <2>2, <2>3
<1>5. Logged'
  <2>1. Numbered' /\ log' \in Seq(BatchType)
    BY <1>1, NumberedOn, Appended DEF IInv, Logged
  <2>2. \A k \in Revisions' : log'[k].tx \in Txs /\ Bare(log[k], k - 1)'
    <3>1. ASSUME NEW k \in Revisions PROVE log'[k].tx \in Txs /\ Bare(log[k], k - 1)'
      <4>1. k \in 1 .. Len(log) /\ log'[k] = log[k] /\ log[k].tx \in Txs /\ Bare(log[k], k - 1)
        BY <1>2 DEF IInv, Logged
      <4>2. k - 1 > 0 => log'[k - 1] = log[k - 1]
        BY <1>1, <1>2, <4>1
      <4> QED BY <4>1, <4>2 DEF Bare
    <3>2. ASSUME NEW k, k = n PROVE log'[k].tx \in Txs /\ Bare(log[k], k - 1)'
      <4>1. k - 1 = Len(log) /\ log'[k] = b
        BY <1>1, <1>2, <3>2
      <4>2. Len(log) > 0 => log'[Len(log)] = log[Len(log)]
        BY <1>1, <1>2
      <4> QED BY <1>1, <4>1, <4>2 DEF Bare
    <3> QED BY <1>2, <3>1, <3>2
  <2>3. CommitsAsDeclared'
    <3>1. ASSUME NEW k \in Revisions
          PROVE  digest'[log'[k].tx] = digest[log[k].tx] /\ log'[k] = log[k]
      <4>1. log[k].tx \in Txs /\ Committed(log[k].tx)
        BY DEF IInv, Logged, Committed
      <4> QED BY <1>2, <1>4, <4>1
    <3>2. n - 1 = Len(log) /\ digest'[log'[n].tx] = pend.req
      BY <1>1, <1>2, <1>3
    <3>3. \A k \in Revisions : AsDeclared(digest'[log'[k].tx], log'[k], k)
      BY <3>1, DeclaredForm DEF IInv, Logged
    <3>4. AsDeclared(digest'[log'[n].tx], log'[n], n)
      BY <1>1, <1>2, <3>2 DEF MadeFrom, Listed, AsDeclared
    <3> QED BY <1>2, <3>3, <3>4, DeclaredForm
  <2>4. GeneratesReconciled'
    <3> SUFFICES ASSUME NEW i \in 1 .. Len(log'), log'[i].kind = "chapter", NEW j \in 1 .. i - 1,
                        log'[j].kind = "revision", Requires(log'[j])
                 PROVE  \E k \in j + 1 .. i - 1 : log'[k].kind = "revision" /\ log'[k].rec # None
      BY DEF GeneratesReconciled, Requires
    <3>1. i \in 1 .. Len(log)
      BY <1>1, <1>2
    <3>2. j \in 1 .. Len(log) /\ log'[i] = log[i] /\ log'[j] = log[j]
      BY <1>1, <1>2, <3>1
    <3>3. \E k \in j + 1 .. i - 1 : log[k].kind = "revision" /\ log[k].rec # None
      BY <3>1, <3>2 DEF IInv, Logged, GeneratesReconciled
    <3> QED BY <1>1, <1>2, <3>1, <3>2, <3>3
  <2> QED BY <2>1, <2>2, <2>3, <2>4 DEF Logged
<1>6. Waiting'
  BY DEF CommitForward, NoPend, Waiting
<1>7. NoOutlineEscapes'
  <2> SUFFICES ASSUME NEW k \in Revisions', NEW d \in Chapters,
                      d > log'[k].ch, outlines[d] # 0, outlines[d] < k
               PROVE  d \in log'[k].inv.outlines
    BY DEF NoOutlineEscapes
  <2>1. CASE k \in Revisions
    BY <1>2, <2>1 DEF IInv, NoOutlineEscapes
  <2>2. CASE k = n
    <3>1. outlines[d] <= Len(log)
      BY <1>1, <2>2 DEF IInv, TypeOK
    <3>2. log'[k] = b /\ d > b.ch
      BY <1>2, <2>2
    <3>3. d \notin Escaping(b, Len(log))
      BY <1>1
    <3> QED BY <3>1, <3>2, <3>3 DEF Escaping
  <2> QED BY <1>2, <2>1, <2>2
<1>8. \A t \in Txs : (t = b.tx => Committed(t)')
  BY <1>4
<1>9. \A t \in Txs : (Committed(t) => (Committed(t)' /\ digest'[t] = digest[t]))
  BY <1>4
<1>10. Len(log') <= MaxLog /\ digest'[b.tx] = pend.req
  BY <1>1, <1>2, <1>3, HistoryAssumption
<1> QED BY <1>3, <1>5, <1>6, <1>7, <1>8, <1>9, <1>10

LEMMA CommittedLogTyped ==
  ASSUME Logged', Len(log') <= MaxLog
  PROVE  Len(log') <= MaxLog /\ \A i \in 1 .. Len(log') : log'[i] \in BatchType
BY DEF Logged

LEMMA CompleteStep == ASSUME IInv, Complete PROVE IInv'
<1> PICK t : t = op.tx
  OBVIOUS
<1>1. t \in Txs /\ pend.st = "marked" /\ pend.batch.tx = t /\ pend.req = request[t]
      /\ CommitForward /\ UNCHANGED outlines /\ pend' = NoPend
  BY DEF Complete, CommitForward, IInv, Executing
<1>2. PICK a \in {"refused", "completed"} : Tell(t, a)
  BY DEF Complete
<1>3. TypeOK'
  BY <1>1, <1>2, Forward, CommittedLogTyped, PendTyped, AnswerTyped
  DEF Complete, Release, Idle, IInv, TypeOK, NoPend
<1>4. Executing'
  BY DEF Complete, Release, Idle, Executing
<1>5. AnswersTruthfully'
  <2>1. /\ Committed(t)' /\ digest'[t] = request[t] /\ request' = request
        /\ \A u \in Txs : Committed(u) => Committed(u)' /\ digest'[u] = digest[u]
        /\ \A u \in Txs : u # t => answer'[u] = answer[u]
    <3>1. request' = request
      BY DEF Complete
    <3>2. \A u \in Txs : u # t => answer'[u] = answer[u]
      BY <1>1, <1>2, AnswerTyped
    <3>3. Committed(t)' /\ digest'[t] = request[t]
      BY <1>1, Forward
    <3>4. \A u \in Txs : Committed(u) => Committed(u)' /\ digest'[u] = digest[u]
      BY <1>1, Forward
    <3> QED BY <3>1, <3>2, <3>3, <3>4
  <2>2. ASSUME NEW u \in Txs, answer'[u] \in {"completed", "already_committed"}
        PROVE  Committed(u)' /\ digest'[u] = request'[u]
    BY <2>1, <2>2 DEF IInv, AnswersTruthfully
  <2> QED BY <2>2 DEF AnswersTruthfully
<1> QED BY <1>1, <1>3, <1>4, <1>5, Forward DEF IInv

LEMMA CrashStep == ASSUME IInv, Crash PROVE IInv'
<1>1. op.tx \in Txs
  BY DEF Crash, IInv, Executing
<1>2. TypeOK'
  BY <1>1, AnswerTyped, HistoryAssumption DEF Crash, Release, Idle, IInv, TypeOK
<1>3. Executing'
  BY DEF Crash, Release, Idle, Executing
<1>4. AnswersTruthfully'
  BY <1>1, AnswerTyped DEF Crash, IInv, AnswersTruthfully, Committed, Revisions
<1> QED BY <1>2, <1>3, <1>4, LogKept, WaitingKept, OutlinesKept DEF Crash, IInv

LEMMA RecoverStep == ASSUME IInv, Recover PROVE IInv'
<1>1. CASE pend.st = "marked" /\ CommitForward
  <2>1. pend' = NoPend /\ UNCHANGED outlines
    BY <1>1 DEF Recover, CommitForward
  <2>2. TypeOK'
    BY <1>1, <2>1, Forward, CommittedLogTyped, PendTyped DEF Recover, IInv, TypeOK, NoPend
  <2>3. Executing'
    BY DEF Recover, Executing
  <2>4. AnswersTruthfully'
    BY <1>1, <2>1, Forward DEF Recover, IInv, AnswersTruthfully
  <2> QED BY <1>1, <2>1, <2>2, <2>3, <2>4, Forward DEF IInv
<1>2. CASE pend' = NoPend /\ UNCHANGED <<log, digest>>
  <2>1. TypeOK'
    BY <1>2, PendTyped DEF Recover, IInv, TypeOK, NoPend
  <2>2. Waiting' /\ Executing'
    BY <1>2 DEF Recover, Waiting, Executing, NoPend
  <2> QED BY <1>2, <2>1, <2>2, LogKept, OutlinesKept, AnswersKept DEF Recover, IInv
<1> QED BY <1>1, <1>2 DEF Recover

-----------------------------------------------------------------------------
(* The invariant and the theorems.                                         *)

LEMMA InitIInv == Init => IInv
<1> SUFFICES ASSUME Init PROVE IInv
  OBVIOUS
<1>1. /\ log \in Seq(BatchType) /\ Len(log) = Published /\ Published \in Nat \ {0}
      /\ \A i \in 1 .. Len(log) : log[i] = Chapter(i) /\ log[i].kind = "chapter" /\ log[i].ch = i
  <2>1. \A c \in 1 .. Published : Chapter(c) \in BatchType
    BY ChapterTyped, HistoryAssumption
  <2> QED BY <2>1, HistoryAssumption DEF Init, Chapter
<1>2. NextChapter = Published + 1
  <2>1. {i \in 1 .. Len(log) : log[i].kind = "chapter"} = 1 .. Published
    BY <1>1
  <2>2. Cardinality(1 .. Published) = Published
    BY <1>1, FS_Interval
  <2> QED BY <2>1, <2>2 DEF NextChapter
<1>3. Revisions = {}
  BY <1>1 DEF Revisions
<1>4. Logged
  BY <1>1, <1>2, <1>3, HistoryAssumption
  DEF Logged, Numbered, GeneratesReconciled, CommitsAsDeclared
<1>5. TypeOK
  <2>1. NoRequest \in RequestType
    BY HistoryAssumption DEF NoRequest, RequestType, None
  <2> QED BY <1>1, <2>1, PendTyped, HistoryAssumption DEF Init, TypeOK, Idle, NoPend, None
<1> QED BY <1>3, <1>4, <1>5
        DEF IInv, Init, Waiting, Executing, NoPend, Idle, NoOutlineEscapes, AnswersTruthfully, None

LEMMA NextIInv == IInv /\ [Next]_vars => IInv'
<1> SUFFICES ASSUME IInv, [Next]_vars PROVE IInv'
  OBVIOUS
<1>1. CASE UNCHANGED vars
  BY <1>1, LogKept, WaitingKept, OutlinesKept, AnswersKept DEF vars, IInv, TypeOK, Executing
<1>2. CASE Next
  BY <1>2, PublishStep, DraftOutlineStep, StoreOutlineStep, ChangeSessionStep, EditProseStep, DeclareStep,
     BeginStep, LoadCompletedStep, PrepareStep, ApplyStep, CheckStep, MarkStep, CompleteStep, CrashStep,
     RecoverStep
  DEF Next, Execute
<1> QED BY <1>1, <1>2

LEMMA Invariance == Spec => []IInv
BY InitIInv, NextIInv, PTL DEF Spec

\* Every file and the process that executes a revision keep their shape; a receipt is looked for
\* only when no transaction is pending (history_revision_execution.py).
THEOREM TypeCorrect == Spec => []TypeOK
<1>1. IInv => TypeOK
  BY DEF IInv
<1> QED BY <1>1, Invariance, PTL

\* Whatever is edited, drafted, stored and killed beside it: a chapter is published only past a
\* reconciliation of every earlier revision that invalidated something, no outline made before a
\* revision escapes it, what is committed is what was declared, and what the operator was told is
\* so (history_revision.py, history_revision_execution.py).
THEOREM RevisionsKept == Spec => []RevisionsHold
<1>1. IInv => RevisionsHold
  BY DEF IInv, Logged, RevisionsHold
<1> QED BY <1>1, Invariance, PTL

-----------------------------------------------------------------------------
(***************************************************************************)
(* The migration to event authority.                                       *)
(***************************************************************************)
Legacies == [mode : {"legacy"}, head : {<<>>}, proof : {<<>>}, strict : BOOLEAN]
IsSeq(s) == \E S : s \in Seq(S)
EventId(id) == id \in [mode : {"event"}, head : {id.head}, proof : {id.proof}, strict : BOOLEAN] /\ IsSeq(id.head)

\* What was planned and approved does not change any more.
PlansKept ==
    /\ IsSeq(plans) /\ \A i \in DOMAIN plans : plans[i].identity \in Legacies
    /\ \A a \in approvals : a.plan \in DOMAIN plans
    /\ told \subseteq approvals

\* Where the processes are, and who of them excludes whom.
ProcessesPlaced ==
    /\ mig = [pc |-> mig.pc, approval |-> mig.approval, seen |-> mig.seen]
    /\ direct = [pc |-> direct.pc, expected |-> direct.expected, head |-> direct.head]
    /\ direct.pc \in {"idle", "intent", "receipt"}
    /\ (owner = "mig") <=> (mig.pc # "idle")
    /\ (owner = "writer") <=> (writer.pc # "idle")
    /\ mig.pc # "idle" => mig.approval \in approvals
    /\ mig.pc = "locked" => txn.state = "none"
    /\ mig.pc = "prepared" => txn.state = "prepared"
    /\ mig.pc \in {"applying", "checked"} => txn.state = "applying" /\ direct.pc = "idle"
    /\ mig.pc = "checked" => txn.step = 3
    /\ mig.pc = "marked" => txn.state = "marked"
    /\ mig.pc \in {"idle", "locked", "prepared", "applying", "checked", "marked"}
    /\ writer.pc # "idle" => txn.state = "none"

\* The transaction is the one of an approved plan, its step says what it has written, and
\* nothing was reported completed before.
TxnPlaced ==
    \/ txn.state = "none"
    \/ /\ txn.approval \in approvals
       /\ txn = [state |-> txn.state, approval |-> txn.approval, before |-> plans[txn.approval.plan].identity,
                 after |-> Event(plans[txn.approval.plan].identity, <<Boot(txn.approval)>>), step |-> txn.step]
       /\ \/ txn.state = "prepared" /\ txn.step = 0
          \/ txn.state = "applying" /\ txn.step \in 1..3
          \/ txn.state = "marked" /\ txn.step = 3
       /\ told = {}
       /\ memory = IF txn.step = 0 THEN <<>> ELSE <<Boot(txn.approval)>>
       /\ (<<Boot(txn.approval)>> \in receipts) <=> (txn.step >= 2)

\* A legacy book without transaction has no batch.  An event identity has its receipt, and names
\* the batches there are, those of the transaction that wrote it, or the receipt of a direct activation.
IdentityStands ==
    /\ identity \in Legacies \/ EventId(identity)
    /\ identity.mode = "legacy" => IF txn.state = "none" THEN memory = <<>> ELSE txn.step < 3
    /\ identity.mode = "event" =>
        /\ identity.proof \in receipts
        /\ IF txn.state = "none" THEN memory = identity.head \/ (memory = <<>> /\ identity.head = identity.proof)
           ELSE /\ identity.head = identity.proof
                /\ IF txn.step < 3 THEN identity.proof \in Heads ELSE identity.proof = <<Boot(txn.approval)>>

\* A direct activation finds the identity as it read it, and its intent.
Activating ==
    direct.pc # "idle" =>
        /\ identity = direct.expected /\ identity \in Legacies
        /\ [expected |-> identity, head |-> direct.head] \in intents
        /\ direct.head \in Heads
        /\ direct.pc = "receipt" => direct.head \in receipts

\* The legacy identity a rollback leads to has an intent for every receipt that stays with it.
Kept == IF txn.state # "none" THEN receipts \ {<<Boot(txn.approval)>>} ELSE receipts
InForce == IF txn.state = "applying" /\ txn.step = 3 THEN txn.before ELSE identity
Intended == InForce.mode = "legacy" => \A r \in Kept : [expected |-> InForce, head |-> r] \in intents

\* Behind the last check only the author changes the sources, and every edit of his is counted.
StillFrozen ==
    /\ changes \in Nat
    /\ mig.pc = "checked" =>
         /\ mig.seen \in Nat /\ mig.seen <= changes
         /\ changes = mig.seen => src = plans[txn.approval.plan].src

MInv == /\ PlansKept /\ ProcessesPlaced /\ TxnPlaced /\ IdentityStands /\ Activating /\ Intended
        /\ ToldTruthfully /\ StillFrozen
-----------------------------------------------------------------------------
\* The first batch of a migration is not the receipt of a direct activation.
LEMMA BootOther == \A a, h : h \in Heads => h # <<Boot(a)>>
<1> SUFFICES ASSUME NEW a, NEW d \in Decisions PROVE <<[kind |-> "genesis", id |-> d]>> # <<Boot(a)>>
  BY DEF Heads
<1>1. <<Boot(a)>>[1].kind = "boot" /\ <<[kind |-> "genesis", id |-> d]>>[1].kind = "genesis"
  BY DEF Boot
<1> QED
  BY <1>1

LEMMA LegacyIds ==
  /\ \A id \in Legacies : id.mode = "legacy" /\ id.strict \in BOOLEAN /\ id.head = <<>> /\ id.proof = <<>>
  /\ Legacy \in Legacies
  BY DEF Legacies, Legacy

LEMMA Extending ==
  ASSUME NEW s, NEW e, IsSeq(s)
  PROVE  /\ IsSeq(Append(s, e)) /\ Append(s, e) # <<>>
         /\ \A i \in DOMAIN s : i \in DOMAIN Append(s, e) /\ Append(s, e)[i] = s[i]
         /\ \A i \in DOMAIN Append(s, e) \ DOMAIN s : Append(s, e)[i] = e
         /\ s # <<>> => 1 \in DOMAIN s
<1>1. PICK S : s \in Seq(S)
  BY DEF IsSeq
<1>2. s \in Seq(S \cup {e}) /\ e \in S \cup {e}
  BY <1>1
<1>3. Append(s, e) \in Seq(S \cup {e}) /\ Len(Append(s, e)) = Len(s) + 1
  BY <1>2
<1> QED
  BY <1>1, <1>2, <1>3 DEF IsSeq

\* A direct activation of a legacy book, or a migration: the identity it ends with.
LEMMA EventIds ==
  ASSUME NEW id \in Legacies, NEW h, IsSeq(h)
  PROVE  /\ EventId(Event(id, h)) /\ Event(id, h).mode = "event" /\ Event(id, h).head = h
         /\ Event(id, h).proof = h /\ Event(id, h).strict = id.strict
<1>1. /\ Event(id, h) \in [mode : {"event"}, head : {h}, proof : {h}, strict : BOOLEAN]
      /\ Event(id, h).strict = id.strict
  BY DEF Event, Legacies
<1> QED
  BY <1>1 DEF EventId

LEMMA HeadsAreSeqs ==
  /\ \A h \in Heads : IsSeq(h)
  /\ \A a : IsSeq(<<Boot(a)>>) /\ <<Boot(a)>> # <<>> /\ <<Boot(a)>>[1] = Boot(a)
<1>1. \A e : IsSeq(<<e>>) /\ <<e>> # <<>> /\ <<e>>[1] = e
  <2> TAKE e
  <2>1. <<e>> \in Seq({e})
    OBVIOUS
  <2> QED
    BY <2>1 DEF IsSeq
<1> QED
  BY <1>1 DEF Heads

\* The same of the transaction in hand.
LEMMA TxnAfter ==
  ASSUME PlansKept, TxnPlaced, txn.state # "none"
  PROVE  /\ txn.before = plans[txn.approval.plan].identity /\ txn.before \in Legacies
         /\ txn.after = Event(txn.before, <<Boot(txn.approval)>>) /\ EventId(txn.after)
         /\ txn.after.head = <<Boot(txn.approval)>> /\ txn.after.proof = <<Boot(txn.approval)>>
         /\ txn.after.mode = "event" /\ txn.after.strict = txn.before.strict
         /\ txn.state \in {"prepared", "applying", "marked"} /\ txn.step \in 0..3
<1>1. /\ txn.approval \in approvals
      /\ txn = [state |-> txn.state, approval |-> txn.approval, before |-> plans[txn.approval.plan].identity,
                after |-> Event(plans[txn.approval.plan].identity, <<Boot(txn.approval)>>), step |-> txn.step]
      /\ txn.state \in {"prepared", "applying", "marked"} /\ txn.step \in 0..3
  BY DEF TxnPlaced
<1>2. /\ txn.before = plans[txn.approval.plan].identity
      /\ txn.after = Event(plans[txn.approval.plan].identity, <<Boot(txn.approval)>>)
  BY <1>1
<1>3. txn.before \in Legacies
  BY <1>1, <1>2 DEF PlansKept
<1> QED
  BY <1>1, <1>2, <1>3, EventIds, HeadsAreSeqs

-----------------------------------------------------------------------------
\* A step that touches neither identity, store, receipts and intents nor the transaction.
LEMMA QuietStep ==
  ASSUME MInv, UNCHANGED <<identity, memory, receipts, intents, plans, told, txn>>, approvals \subseteq approvals',
         direct' = direct \/ direct'.pc = "idle",
         \A a \in approvals' : a.plan \in DOMAIN plans, ProcessesPlaced', StillFrozen'
  PROVE  MInv'
<1>1. PlansKept' /\ TxnPlaced' /\ ToldTruthfully'
  BY DEF MInv, PlansKept, TxnPlaced, ToldTruthfully, Boot, IsSeq
<1>2. IdentityStands' /\ Activating' /\ Intended'
  BY DEF MInv, IdentityStands, Activating, Intended, Kept, InForce, EventId, IsSeq, Boot
<1> QED
  BY <1>1, <1>2 DEF MInv

LEMMA QuietSteps ==
  ASSUME MInv,
         \/ \E i \in DOMAIN plans : \E d \in Decisions, t \in Times : Approve(i, d, t)
         \/ \E a \in approvals : Lock(a)
         \/ Refuse \/ CheckSources \/ Kill \/ StartChapter \/ RejectChapter \/ Edit
  PROVE  MInv' /\ UNCHANGED <<identity, txn>>
<1> USE DEF MInv, PlansKept, ProcessesPlaced, StillFrozen
<1>1. CASE \E i \in DOMAIN plans : \E d \in Decisions, t \in Times : Approve(i, d, t)
  BY <1>1, QuietStep DEF Approve
<1>2. CASE \E a \in approvals : Lock(a)
  BY <1>2, QuietStep DEF Lock, IdleMig
<1>3. CASE Refuse
  BY <1>3, QuietStep DEF Refuse, Leave, IdleMig
<1>4. CASE CheckSources
  <2>1. /\ UNCHANGED <<src, identity, memory, receipts, intents, plans, approvals, told, owner, txn, writer, direct, changes>>
        /\ mig' = [pc |-> "checked", approval |-> mig.approval, seen |-> changes]
        /\ src = plans[txn.approval.plan].src /\ mig.pc = "applying" /\ txn.step = 3
    BY <1>4 DEF CheckSources, SourcesFrozen
  <2>2. StillFrozen'
    BY <2>1
  <2>3. ProcessesPlaced'
    BY <2>1
  <2> QED
    BY <2>1, <2>2, <2>3, QuietStep
<1>5. CASE Kill
  BY <1>5, QuietStep DEF Kill, Leave, IdleMig, IdleDirect
<1>6. CASE StartChapter
  BY <1>6, QuietStep DEF StartChapter
<1>7. CASE RejectChapter
  BY <1>7, QuietStep DEF RejectChapter, IdleWriter
<1>8. CASE Edit
  BY <1>8, QuietStep DEF Edit
<1> QED
  BY <1>1, <1>2, <1>3, <1>4, <1>5, <1>6, <1>7, <1>8

\* An identity in hand is left, or made strict.
LEMMA ActivateStrictStep ==
  ASSUME MInv, ActivateStrict
  PROVE  MInv' /\ (identity.mode = "event" => identity'.mode = "event") /\ identity'.strict /\ txn' = txn
<1>1. /\ identity' = [identity EXCEPT !.strict = TRUE] /\ Readable /\ direct.pc = "idle"
      /\ UNCHANGED <<changes, src, memory, receipts, intents, plans, approvals, done, told, owner, mig, txn, writer, direct>>
  BY DEF ActivateStrict, MayMutate, MInv, ProcessesPlaced
<1>2. /\ identity'.mode = identity.mode /\ identity'.head = identity.head /\ identity'.proof = identity.proof
      /\ identity'.strict = TRUE /\ (identity' \in Legacies \/ EventId(identity'))
  <2>1. CASE identity \in Legacies
    BY <1>1, <2>1 DEF Legacies
  <2>2. CASE EventId(identity)
    <3>1. identity' \in [mode : {"event"}, head : {identity.head}, proof : {identity.proof}, strict : BOOLEAN]
      BY <1>1, <2>2 DEF EventId
    <3> QED
      BY <1>1, <2>2, <3>1 DEF EventId
  <2> QED
    BY <2>1, <2>2 DEF MInv, IdentityStands
<1>3. PlansKept' /\ ProcessesPlaced' /\ TxnPlaced' /\ ToldTruthfully' /\ StillFrozen' /\ Activating'
  BY <1>1, <1>2 DEF MInv, PlansKept, ProcessesPlaced, TxnPlaced, ToldTruthfully, StillFrozen, Activating, Boot, IsSeq
<1>4. IdentityStands'
  BY <1>1, <1>2 DEF MInv, IdentityStands, EventId, IsSeq, Boot
<1>5. Intended'
  BY <1>1, <1>2 DEF MInv, Intended, Kept, InForce, Readable, Boot
<1> QED
  BY <1>1, <1>2, <1>3, <1>4, <1>5 DEF MInv

LEMMA DirectSteps ==
  ASSUME MInv, (\E h \in Heads : DirectStart(h)) \/ DirectReceipt
  PROVE  MInv' /\ UNCHANGED <<identity, txn>>
<1>1. /\ UNCHANGED <<changes, src, identity, memory, plans, approvals, told, owner, mig, txn, writer>>
      /\ intents \subseteq intents'
  BY DEF DirectStart, DirectReceipt, DirectIntent
<1>2. identity \in Legacies /\ ~IdentityLocked
  BY HeadsAreSeqs, LegacyIds DEF DirectStart, DirectReceipt, MayMutate, MInv, IdentityStands, EventId, Activating,
     ProcessesPlaced, IdentityLocked
<1>3. /\ direct'.pc # "idle" /\ direct'.expected = identity /\ direct'.head \in Heads
      /\ [expected |-> identity, head |-> direct'.head] \in intents'
      /\ direct' = [pc |-> direct'.pc, expected |-> direct'.expected, head |-> direct'.head]
      /\ \/ direct'.pc = "intent" /\ receipts' = receipts
         \/ direct'.pc = "receipt" /\ receipts' = receipts \cup {direct'.head}
  BY DEF DirectStart, DirectReceipt, DirectIntent, MInv, Activating, ProcessesPlaced
<1>4. PlansKept' /\ ProcessesPlaced' /\ ToldTruthfully' /\ StillFrozen' /\ Activating'
  BY <1>1, <1>2, <1>3 DEF MInv, PlansKept, ProcessesPlaced, ToldTruthfully, StillFrozen, Activating, Boot, IsSeq, IdentityLocked
<1>5. TxnPlaced'
  BY <1>1, <1>3, BootOther DEF MInv, TxnPlaced, Boot
<1>6. IdentityStands'
  BY <1>1, <1>2, <1>3, LegacyIds DEF MInv, IdentityStands
<1>7. Intended'
  <2>1. InForce = identity /\ InForce' = identity
    BY <1>1, <1>2, LegacyIds DEF MInv, InForce, IdentityStands
  <2>2. Kept' \subseteq Kept \cup {direct'.head}
    BY <1>1, <1>3 DEF Kept, Boot
  <2> QED
    BY <1>1, <1>3, <2>1, <2>2 DEF MInv, Intended
<1> QED
  BY <1>1, <1>4, <1>5, <1>6, <1>7 DEF MInv

LEMMA DirectIdentityStep ==
  ASSUME MInv, DirectIdentity
  PROVE  /\ MInv' /\ txn' = txn /\ (identity.strict => identity'.strict)
         /\ (identity.mode = "event" => identity'.mode = "event")
<1>1. /\ UNCHANGED <<changes, src, memory, receipts, plans, approvals, told, owner, mig, txn, writer>>
      /\ direct.pc = "receipt" /\ direct'.pc = "idle"
      /\ direct' = [pc |-> direct'.pc, expected |-> direct'.expected, head |-> direct'.head]
  BY DEF DirectIdentity, IdleDirect
<1>2. CASE UNCHANGED <<identity, intents>>
  <2>1. ProcessesPlaced' /\ StillFrozen'
    BY <1>1, <1>2 DEF MInv, ProcessesPlaced, StillFrozen
  <2> QED
    BY <1>1, <1>2, <2>1, QuietStep DEF MInv, PlansKept
<1>3. CASE identity' = Event(identity, direct.head)
  <2>1. identity \in Legacies /\ direct.head \in Heads /\ IsSeq(direct.head) /\ direct.head \in receipts
    BY <1>1, HeadsAreSeqs DEF MInv, Activating
  <2>2. /\ EventId(identity') /\ identity'.mode = "event" /\ identity'.head = direct.head
        /\ identity'.proof = direct.head /\ identity'.strict = identity.strict
    BY <1>3, <2>1, EventIds
  <2>3. identity.mode = "legacy"
    BY <2>1, LegacyIds
  <2>4. PlansKept' /\ ProcessesPlaced' /\ TxnPlaced' /\ StillFrozen' /\ Activating' /\ ToldTruthfully'
    BY <1>1, <2>3 DEF MInv, PlansKept, ProcessesPlaced, TxnPlaced, ToldTruthfully, StillFrozen, Activating, Boot, IsSeq
  <2>5. IdentityStands'
    BY <1>1, <2>1, <2>2, <2>3 DEF MInv, IdentityStands
  <2>6. Intended'
    BY <1>1, <2>2, <2>3 DEF MInv, Intended, InForce, IdentityStands
  <2> QED
    BY <1>1, <2>2, <2>3, <2>4, <2>5, <2>6 DEF MInv
<1> QED
  BY <1>2, <1>3 DEF DirectIdentity

LEMMA BuildPlanStep ==
  ASSUME MInv, BuildPlan
  PROVE  MInv' /\ UNCHANGED <<identity, txn>>
<1> DEFINE new == [identity |-> identity, src |-> src, target |-> Target(src)]
<1>1. /\ plans' = Append(plans, new) /\ new.identity = identity /\ identity.mode = "legacy"
      /\ UNCHANGED <<changes, src, identity, memory, receipts, intents, approvals, told, owner, mig, txn, writer, direct>>
  BY DEF BuildPlan
<1> HIDE DEF new
<1>2. identity \in Legacies
  BY <1>1 DEF MInv, IdentityStands, EventId
<1>3. /\ IsSeq(plans') /\ \A i \in DOMAIN plans : i \in DOMAIN plans' /\ plans'[i] = plans[i]
      /\ \A i \in DOMAIN plans' \ DOMAIN plans : plans'[i] = new
  BY <1>1, Extending DEF MInv, PlansKept
<1>4. PlansKept'
  BY <1>1, <1>2, <1>3 DEF MInv, PlansKept
<1>5. \A a \in approvals : Boot(a)' = Boot(a)
  BY <1>3 DEF MInv, PlansKept, Boot
<1>6. told \subseteq approvals /\ (txn.state # "none" => txn.approval \in approvals)
      /\ (mig.pc = "checked" => txn.state # "none")
  BY DEF MInv, PlansKept, TxnPlaced, ProcessesPlaced
<1>7. TxnPlaced' /\ ToldTruthfully' /\ StillFrozen' /\ ProcessesPlaced'
  <2>1. TxnPlaced'
    <3>1. CASE txn.state = "none"
      BY <1>1, <3>1 DEF TxnPlaced
    <3>2. CASE txn.state # "none"
      <4>1. /\ plans'[txn.approval.plan] = plans[txn.approval.plan]
            /\ Boot(txn.approval)' = Boot(txn.approval)
        BY <1>1, <1>3, <1>5, <1>6, <3>2 DEF MInv, PlansKept
      <4> QED
        BY <1>1, <3>2, <4>1 DEF MInv, TxnPlaced
    <3> QED
      BY <3>1, <3>2
  <2>2. ToldTruthfully' /\ ProcessesPlaced'
    BY <1>1, <1>5, <1>6 DEF MInv, ToldTruthfully, ProcessesPlaced
  <2>3. StillFrozen'
    BY <1>1, <1>3, <1>6 DEF MInv, StillFrozen, PlansKept
  <2> QED
    BY <2>1, <2>2, <2>3
<1>8. IdentityStands' /\ Activating' /\ Intended'
  BY <1>1, <1>5, <1>6 DEF MInv, IdentityStands, Activating, Intended, Kept, InForce
<1> QED
  BY <1>1, <1>4, <1>7, <1>8 DEF MInv

LEMMA AgainStep ==
  ASSUME MInv, Again
  PROVE  MInv' /\ UNCHANGED <<identity, txn>>
<1>1. /\ UNCHANGED <<changes, src, identity, memory, receipts, intents, plans, approvals, txn, writer, direct>>
      /\ mig.pc = "locked" /\ mig' = IdleMig /\ owner' = "none" /\ told' = told \cup {mig.approval}
      /\ Completed(mig.approval)
  BY DEF Again, Leave, Replay
<1>2. /\ txn.state = "none" /\ mig.approval \in approvals
      /\ identity.mode = "event" /\ memory # <<>> /\ memory[1] = Boot(mig.approval)
  BY <1>1 DEF MInv, ProcessesPlaced, Completed
<1>3. PlansKept' /\ ProcessesPlaced' /\ TxnPlaced' /\ ToldTruthfully' /\ StillFrozen'
  BY <1>1, <1>2 DEF MInv, PlansKept, ProcessesPlaced, TxnPlaced, ToldTruthfully, StillFrozen, IdleMig, Boot, IsSeq
<1>4. IdentityStands' /\ Activating' /\ Intended'
  BY <1>1 DEF MInv, IdentityStands, Activating, Intended, Kept, InForce, EventId, IsSeq, Boot
<1> QED
  BY <1>1, <1>3, <1>4 DEF MInv

LEMMA PrepareTxnStep ==
  ASSUME MInv, PrepareTxn
  PROVE  MInv' /\ identity' = identity /\ txn'.state = "prepared"
<1> DEFINE a == mig.approval
<1>1. /\ UNCHANGED <<changes, src, identity, memory, receipts, intents, plans, approvals, told, owner, writer, direct>>
      /\ mig.pc = "locked" /\ mig' = [mig EXCEPT !.pc = "prepared"] /\ txn' = Bootstrap(a)
      /\ receipts = {} /\ identity.mode = "legacy" /\ memory = <<>>
  BY DEF PrepareTxn, Readable, Blank
<1>2. /\ a \in approvals /\ txn.state = "none"
      /\ owner = "mig" /\ writer.pc = "idle"
      /\ mig' = [pc |-> "prepared", approval |-> a, seen |-> mig.seen] /\ mig'.approval = a
  BY <1>1 DEF MInv, ProcessesPlaced
<1>3. /\ txn'.state = "prepared" /\ txn'.step = 0 /\ txn'.approval = a
      /\ txn' = [state |-> "prepared", approval |-> a, before |-> plans[a.plan].identity,
                 after |-> Event(plans[a.plan].identity, <<Boot(a)>>), step |-> 0]
  BY <1>1 DEF Bootstrap
<1>4. told = {}
  BY <1>1 DEF MInv, ToldTruthfully
<1>5. PlansKept' /\ ProcessesPlaced' /\ ToldTruthfully' /\ StillFrozen'
  BY <1>1, <1>2, <1>3, <1>4 DEF MInv, PlansKept, ProcessesPlaced, ToldTruthfully, StillFrozen, IsSeq
<1>6. TxnPlaced'
  BY <1>1, <1>2, <1>3, <1>4 DEF TxnPlaced, Boot
<1>7. IdentityStands' /\ Activating' /\ Intended'
  BY <1>1, <1>2, <1>3 DEF MInv, IdentityStands, Activating, Intended, Kept, InForce, EventId, IsSeq
<1> QED
  BY <1>1, <1>3, <1>5, <1>6, <1>7 DEF MInv

\* A transaction is written one target further: its plan and what it writes stay.
LEMMA Further ==
  ASSUME MInv, txn.state # "none", NEW st, NEW n, txn' = [txn EXCEPT !.state = st, !.step = n]
  PROVE  /\ txn'.state = st /\ txn'.step = n /\ txn'.approval = txn.approval
         /\ txn' = [state |-> st, approval |-> txn.approval, before |-> plans[txn.approval.plan].identity,
                    after |-> Event(plans[txn.approval.plan].identity, <<Boot(txn.approval)>>), step |-> n]
<1> DEFINE b == plans[txn.approval.plan].identity
           e == Event(plans[txn.approval.plan].identity, <<Boot(txn.approval)>>)
<1>1. txn = [state |-> txn.state, approval |-> txn.approval, before |-> b, after |-> e, step |-> txn.step]
  BY DEF MInv, TxnPlaced
<1> HIDE DEF b, e
<1>2. txn' = [state |-> st, approval |-> txn.approval, before |-> b, after |-> e, step |-> n]
  <2> DEFINE u == [txn EXCEPT !.state = st]
  <2>1. u = [state |-> st, approval |-> txn.approval, before |-> b, after |-> e, step |-> txn.step]
    BY <1>1
  <2>2. [txn EXCEPT !.state = st, !.step = n] = [u EXCEPT !.step = n]
    OBVIOUS
  <2> HIDE DEF u
  <2>3. [u EXCEPT !.step = n] = [state |-> st, approval |-> txn.approval, before |-> b, after |-> e, step |-> n]
    BY <2>1
  <2> QED
    BY <2>2, <2>3
<1>3. txn'.state = st /\ txn'.step = n /\ txn'.approval = txn.approval
  BY <1>2
<1> QED
  BY <1>2, <1>3 DEF b, e

\* The targets: nobody activates directly, and the writer is not there.
LEMMA ApplyMemoryStep ==
  ASSUME MInv, ApplyMemory
  PROVE  MInv' /\ identity' = identity /\ txn'.state = "applying"
<1> DEFINE a == txn.approval
<1>1. /\ UNCHANGED <<changes, src, identity, receipts, intents, plans, approvals, told, owner, writer, direct>>
      /\ direct.pc = "idle" /\ txn.state = "prepared" /\ txn.step = 0
      /\ a \in approvals /\ told = {} /\ mig.pc = "prepared" /\ owner = "mig"
      /\ (<<Boot(a)>> \notin receipts)
  BY DEF MInv, ProcessesPlaced, TxnPlaced, ApplyMemory
<1>2. /\ txn' = [txn EXCEPT !.state = "applying", !.step = 1]
      /\ mig' = [mig EXCEPT !.pc = "applying"] /\ memory' = txn.after.head
  BY DEF ApplyMemory
<1>3. memory' = <<Boot(a)>>
  BY <1>1, <1>2, TxnAfter DEF MInv
<1>4. /\ txn'.state = "applying" /\ txn'.step = 1 /\ txn'.approval = a
      /\ txn' = [state |-> "applying", approval |-> a, before |-> plans[a.plan].identity,
                 after |-> Event(plans[a.plan].identity, <<Boot(a)>>), step |-> 1]
  <2>1. txn.state # "none" /\ txn' = [txn EXCEPT !.state = "applying", !.step = 1]
    BY <1>1, <1>2
  <2> QED
    BY <2>1, Further
<1>5. mig' = [pc |-> "applying", approval |-> mig.approval, seen |-> mig.seen] /\ mig'.pc = "applying" /\ mig'.approval = mig.approval
  BY <1>2 DEF MInv, ProcessesPlaced
<1>6. PlansKept' /\ ProcessesPlaced' /\ ToldTruthfully' /\ StillFrozen' /\ Activating'
  BY <1>1, <1>4, <1>5 DEF MInv, PlansKept, ProcessesPlaced, ToldTruthfully, StillFrozen, Activating, IsSeq
<1>7. TxnPlaced'
  BY <1>1, <1>3, <1>4 DEF TxnPlaced, Boot
<1>8. IdentityStands'
  BY <1>1, <1>4 DEF MInv, IdentityStands, EventId, IsSeq
<1>9. Intended'
  BY <1>1, <1>4 DEF MInv, Intended, Kept, InForce, Boot
<1> QED
  BY <1>1, <1>4, <1>6, <1>7, <1>8, <1>9 DEF MInv

LEMMA ApplyReceiptStep ==
  ASSUME MInv, ApplyReceipt
  PROVE  MInv' /\ identity' = identity /\ txn'.state = "applying"
<1> DEFINE a == txn.approval
<1>1. /\ UNCHANGED <<changes, src, identity, memory, intents, plans, approvals, told, owner, mig, writer, direct>>
      /\ direct.pc = "idle" /\ txn.state = "applying" /\ txn.step = 1
      /\ a \in approvals /\ told = {} /\ mig.pc = "applying" /\ memory = <<Boot(a)>>
  BY DEF MInv, ProcessesPlaced, TxnPlaced, ApplyReceipt
<1>2. /\ txn' = [txn EXCEPT !.step = 2] /\ receipts' = receipts \cup {<<Boot(a)>>}
  BY <1>1, TxnAfter DEF MInv, ApplyReceipt
<1>3. txn' = [txn EXCEPT !.state = "applying", !.step = 2]
  <2>1. txn = [txn EXCEPT !.state = "applying"]
    BY <1>1 DEF MInv, TxnPlaced
  <2> QED
    BY <1>2, <2>1
<1>4. /\ txn'.state = "applying" /\ txn'.step = 2 /\ txn'.approval = a
      /\ txn' = [state |-> "applying", approval |-> a, before |-> plans[a.plan].identity,
                 after |-> Event(plans[a.plan].identity, <<Boot(a)>>), step |-> 2]
  BY <1>1, <1>3, Further
<1>5. PlansKept' /\ ProcessesPlaced' /\ ToldTruthfully' /\ StillFrozen' /\ Activating'
  BY <1>1, <1>4 DEF MInv, PlansKept, ProcessesPlaced, ToldTruthfully, StillFrozen, Activating, IsSeq
<1>6. TxnPlaced'
  <2>1. Boot(a)' = Boot(a) /\ <<Boot(a)>> \in receipts'
    BY <1>1, <1>2 DEF Boot
  <2> QED
    BY <1>1, <1>4, <2>1 DEF TxnPlaced
<1>7. IdentityStands'
  BY <1>1, <1>2, <1>4 DEF MInv, IdentityStands, EventId, IsSeq
<1>8. Intended'
  BY <1>1, <1>2, <1>4 DEF MInv, Intended, Kept, InForce, Boot
<1> QED
  BY <1>1, <1>4, <1>5, <1>6, <1>7, <1>8 DEF MInv

LEMMA ApplyIdentityStep ==
  ASSUME MInv, ApplyIdentity
  PROVE  MInv' /\ identity'.mode = "event" /\ identity'.strict = identity.strict /\ txn'.state = "applying"
<1> DEFINE a == txn.approval
<1>1. /\ UNCHANGED <<changes, src, memory, receipts, intents, plans, approvals, told, owner, mig, writer, direct>>
      /\ mig.pc = "applying" /\ direct.pc = "idle" /\ txn.state = "applying" /\ txn.step = 2
      /\ identity = txn.before /\ identity' = txn.after /\ txn' = [txn EXCEPT !.step = 3]
  BY DEF MInv, ProcessesPlaced, ApplyIdentity
<1>2. /\ identity \in Legacies /\ EventId(identity') /\ identity'.mode = "event" /\ identity'.strict = identity.strict
      /\ identity'.head = <<Boot(a)>> /\ identity'.proof = <<Boot(a)>> /\ identity.mode = "legacy"
  BY <1>1, TxnAfter, LegacyIds DEF MInv
<1>3. /\ txn'.state = "applying" /\ txn'.step = 3 /\ txn'.approval = a /\ txn'.before = identity
      /\ txn' = [state |-> "applying", approval |-> a, before |-> plans[a.plan].identity,
                 after |-> Event(plans[a.plan].identity, <<Boot(a)>>), step |-> 3]
  BY <1>1 DEF MInv, TxnPlaced
<1>4. PlansKept' /\ ProcessesPlaced' /\ StillFrozen' /\ Activating'
  BY <1>1, <1>3 DEF MInv, PlansKept, ProcessesPlaced, StillFrozen, Activating, IsSeq
<1>5. TxnPlaced' /\ ToldTruthfully'
  BY <1>1, <1>2, <1>3 DEF MInv, TxnPlaced, ToldTruthfully, Boot
<1>6. IdentityStands'
  BY <1>1, <1>2, <1>3 DEF MInv, IdentityStands, TxnPlaced, Boot
<1>7. Intended'
  BY <1>1, <1>2, <1>3 DEF MInv, Intended, Kept, InForce, Boot
<1> QED
  BY <1>1, <1>2, <1>3, <1>4, <1>5, <1>6, <1>7 DEF MInv

LEMMA MarkTxnStep ==
  ASSUME MInv, MarkTxn
  PROVE  MInv' /\ identity' = identity /\ (src = plans[txn.approval.plan].src \/ changes > mig.seen)
<1> DEFINE a == txn.approval
<1>1. /\ UNCHANGED <<changes, src, identity, memory, receipts, intents, plans, approvals, told, owner, writer, direct>>
      /\ mig.pc = "checked" /\ direct.pc = "idle" /\ txn.state = "applying" /\ txn.step = 3
      /\ txn' = [txn EXCEPT !.state = "marked"] /\ mig' = [mig EXCEPT !.pc = "marked"]
  BY DEF MInv, ProcessesPlaced, MarkTxn
<1>2. /\ txn'.state = "marked" /\ txn'.step = 3 /\ txn'.approval = a
      /\ txn' = [state |-> "marked", approval |-> a, before |-> plans[a.plan].identity,
                 after |-> Event(plans[a.plan].identity, <<Boot(a)>>), step |-> 3]
      /\ mig' = [pc |-> "marked", approval |-> mig.approval, seen |-> mig.seen] /\ mig'.pc = "marked" /\ mig'.approval = mig.approval
  BY <1>1 DEF MInv, TxnPlaced, ProcessesPlaced
<1>3. PlansKept' /\ ProcessesPlaced' /\ StillFrozen' /\ Activating' /\ ToldTruthfully'
  BY <1>1, <1>2 DEF MInv, PlansKept, ProcessesPlaced, StillFrozen, Activating, IsSeq, ToldTruthfully, Boot
<1>4. TxnPlaced' /\ IdentityStands'
  BY <1>1, <1>2 DEF MInv, TxnPlaced, IdentityStands, EventId, IsSeq, Boot
<1>5. identity.mode = "event"
  BY <1>1 DEF MInv, IdentityStands, EventId, Legacies
<1>6. Intended'
  BY <1>1, <1>2, <1>5 DEF Intended, InForce
<1> QED
  BY <1>1, <1>3, <1>4, <1>6 DEF MInv, StillFrozen

\* The transaction ends with what it wrote, or with what was there before.
LEMMA EndedStep ==
  ASSUME MInv, txn.state = "marked", txn' = NoTxn, UNCHANGED <<identity, memory, receipts, intents, plans, approvals>>,
         direct' = direct, told' \subseteq told \cup {txn.approval}, ProcessesPlaced', StillFrozen'
  PROVE  MInv'
<1>1. /\ identity.mode = "event" /\ identity.head = <<Boot(txn.approval)>> /\ memory = <<Boot(txn.approval)>>
      /\ told = {} /\ txn.approval \in approvals
  BY DEF MInv, TxnPlaced, IdentityStands, EventId, Legacies
<1>2. txn'.state = "none"
  BY DEF NoTxn
<1>3. PlansKept' /\ TxnPlaced' /\ Activating'
  BY <1>1, <1>2 DEF MInv, PlansKept, TxnPlaced, Activating, IsSeq
<1>4. ToldTruthfully'
  BY <1>1, HeadsAreSeqs DEF ToldTruthfully, Boot
<1>5. IdentityStands' /\ Intended'
  BY <1>1, <1>2 DEF MInv, IdentityStands, Intended, InForce, EventId, IsSeq
<1> QED
  BY <1>3, <1>4, <1>5 DEF MInv

LEMMA UndoneStep ==
  ASSUME MInv, txn.state \in {"prepared", "applying"}, Undoable, Undo, txn' = NoTxn,
         direct.pc = "idle" \/ txn.step = 0,
         UNCHANGED <<intents, plans, approvals, told, direct>>, ProcessesPlaced', StillFrozen'
  PROVE  MInv' /\ (identity.strict => identity'.strict)
<1> DEFINE a == txn.approval
<1>1. /\ txn.step \in 0..3 /\ a \in approvals /\ told = {}
      /\ txn.before \in Legacies /\ txn.after.proof = <<Boot(a)>> /\ txn.after.head = <<Boot(a)>>
      /\ txn.after.strict = txn.before.strict
  BY TxnAfter DEF MInv, TxnPlaced
<1>2. memory' = <<>> /\ receipts' = Kept /\ identity' = (IF txn.step = 3 THEN txn.before ELSE identity)
  <2>1. /\ memory' = IF txn.step >= 1 THEN <<>> ELSE memory
        /\ receipts' = IF txn.step >= 2 THEN receipts \ {<<Boot(a)>>} ELSE receipts
        /\ identity' = IF txn.step >= 3 THEN txn.before ELSE identity
    BY <1>1 DEF Undo
  <2>2. txn.step = 0 => memory = <<>>
    BY DEF MInv, TxnPlaced
  <2>3. txn.step < 2 => <<Boot(a)>> \notin receipts
    BY <1>1 DEF MInv, TxnPlaced
  <2>4. Kept = receipts \ {<<Boot(a)>>}
    BY DEF Kept
  <2>5. receipts' = Kept
    <3>1. CASE txn.step >= 2
      BY <2>1, <2>4, <3>1
    <3>2. CASE txn.step < 2
      BY <1>1, <2>1, <2>3, <2>4, <3>2
    <3> QED
      BY <1>1, <3>1, <3>2
  <2> QED
    BY <1>1, <2>1, <2>2, <2>5
<1>3. txn'.state = "none"
  BY DEF NoTxn
<1>4. PlansKept' /\ TxnPlaced' /\ ToldTruthfully'
  BY <1>1, <1>3 DEF MInv, PlansKept, TxnPlaced, ToldTruthfully, IsSeq
<1>5. Activating'
  BY <1>1, <1>2, <1>3, BootOther DEF MInv, Activating, Kept
<1>6. IdentityStands'
  <2>1. CASE txn.step = 3
    BY <1>1, <1>2, <1>3, <2>1, LegacyIds DEF IdentityStands
  <2>2. CASE txn.step < 3
    BY <1>1, <1>2, <1>3, <2>2, BootOther DEF MInv, IdentityStands, Kept, EventId, IsSeq
  <2> QED
    BY <1>1, <2>1, <2>2
<1>7. Intended'
  <2>1. InForce' = InForce /\ Kept' = Kept
    BY <1>1, <1>2, <1>3 DEF InForce, Kept, MInv, TxnPlaced
  <2> QED
    BY <2>1 DEF MInv, Intended
<1>8. identity.strict => identity'.strict
  BY <1>1, <1>2 DEF Undoable
<1> QED
  BY <1>4, <1>5, <1>6, <1>7, <1>8 DEF MInv

LEMMA EndSteps ==
  ASSUME MInv, PublishTxn \/ Fail \/ Reconcile
  PROVE  /\ MInv' /\ (identity.strict => identity'.strict) /\ txn'.state = "none"
         /\ (txn.state \in {"none", "marked"} => identity' = identity)
<1>0. txn'.state = "none"
  BY DEF PublishTxn, Fail, Reconcile, NoTxn
<1>1. CASE PublishTxn
  BY <1>0, <1>1, EndedStep DEF PublishTxn, Leave, IdleMig, MInv, ProcessesPlaced, StillFrozen
<1>2. CASE Fail
  <2>1. /\ txn.state \in {"prepared", "applying"} /\ Undoable /\ Undo /\ txn' = NoTxn
        /\ direct.pc = "idle" \/ txn.step = 0
        /\ UNCHANGED <<changes, intents, plans, approvals, told, direct, writer>> /\ owner' = "none" /\ mig' = IdleMig
        /\ mig.pc # "idle"
    BY <1>2 DEF Fail, Leave, MInv, ProcessesPlaced, TxnPlaced
  <2>2. ProcessesPlaced' /\ StillFrozen'
    BY <1>0, <2>1 DEF MInv, ProcessesPlaced, StillFrozen, IdleMig
  <2> QED
    BY <1>0, <2>1, <2>2, UndoneStep
<1>3. CASE Reconcile
  <2>1. /\ txn' = NoTxn /\ direct.pc = "idle" /\ owner = "none"
        /\ UNCHANGED <<changes, src, intents, plans, approvals, told, owner, mig, writer, direct>>
    BY <1>3 DEF Reconcile
  <2>2. ProcessesPlaced' /\ StillFrozen'
    BY <1>0, <2>1 DEF MInv, ProcessesPlaced, StillFrozen
  <2>3. CASE txn.state = "marked" /\ UNCHANGED <<identity, memory, receipts>>
    BY <1>0, <2>1, <2>2, <2>3, EndedStep
  <2>4. CASE txn.state \in {"prepared", "applying"} /\ Undoable /\ Undo
    BY <1>0, <2>1, <2>2, <2>4, UndoneStep
  <2> QED
    BY <1>3, <2>3, <2>4 DEF Reconcile
<1> QED
  BY <1>1, <1>2, <1>3

LEMMA CommitChapterStep ==
  ASSUME MInv, CommitChapter
  PROVE  /\ MInv' /\ (identity.strict => identity'.strict) /\ txn' = txn
         /\ (identity.mode = "event" => identity'.mode = "event")
<1>1. /\ UNCHANGED <<changes, receipts, intents, plans, approvals, told, mig, txn, direct>> /\ owner' = "none"
      /\ writer' = IdleWriter /\ writer.pc # "idle" /\ identity = writer.identity
      /\ owner = "writer" /\ mig.pc = "idle" /\ txn.state = "none"
  BY DEF CommitChapter, Seen, MInv, ProcessesPlaced
<1>2. PlansKept' /\ ProcessesPlaced' /\ TxnPlaced' /\ StillFrozen'
  BY <1>1 DEF MInv, PlansKept, ProcessesPlaced, TxnPlaced, StillFrozen, IdleWriter, IsSeq
<1>3. CASE UNCHANGED <<memory, identity>>
  <2>1. ToldTruthfully' /\ IdentityStands' /\ Activating' /\ Intended'
    BY <1>1, <1>3 DEF MInv, ToldTruthfully, IdentityStands, Activating, Intended, Kept, InForce, EventId, IsSeq, Boot
  <2> QED
    BY <1>1, <1>2, <1>3, <2>1 DEF MInv
<1>4. CASE identity.mode = "event" /\ ~UNCHANGED <<memory, identity>>
  <2>1. PICK batch : /\ memory' = Append(identity.head, batch) /\ identity' = [identity EXCEPT !.head = memory']
                     /\ direct.pc = "idle"
    BY <1>1, <1>4 DEF CommitChapter
  <2>2. EventId(identity)
    BY <1>4, LegacyIds DEF MInv, IdentityStands
  <2>3. /\ IsSeq(memory') /\ memory' # <<>>
        /\ identity.head # <<>> => memory'[1] = identity.head[1]
    BY <2>1, <2>2, Extending DEF EventId
  <2>4. /\ identity' \in [mode : {"event"}, head : {memory'}, proof : {identity.proof}, strict : BOOLEAN]
        /\ identity'.strict = identity.strict
    BY <2>1, <2>2 DEF EventId
  <2>5. /\ EventId(identity') /\ identity'.mode = "event" /\ identity'.head = memory'
        /\ identity'.proof = identity.proof
    BY <2>3, <2>4 DEF EventId
  <2>6. IdentityStands' /\ Activating' /\ Intended'
    BY <1>1, <1>4, <2>1, <2>5 DEF MInv, IdentityStands, Activating, Intended, InForce
  <2>7. ToldTruthfully'
    BY <1>1, <1>4, <2>3, <2>5 DEF MInv, ToldTruthfully, IdentityStands, Boot
  <2> QED
    BY <1>1, <1>2, <2>4, <2>5, <2>6, <2>7 DEF MInv
<1> QED
  BY <1>1, <1>3, <1>4 DEF CommitChapter

-----------------------------------------------------------------------------
\* What no step of the migration undoes.
NothingLost ==
    /\ identity.strict => identity'.strict
    /\ identity.mode = "event" /\ txn.state \in {"none", "marked"} => identity'.mode = "event"
    /\ txn.state = "applying" /\ txn'.state = "marked" =>
         src = plans[txn.approval.plan].src \/ changes > mig.seen

LEMMA MigrationInitInv == MigrationInit => MInv
<1> SUFFICES ASSUME MigrationInit PROVE MInv
  OBVIOUS
<1>1. /\ identity = Legacy /\ memory = <<>> /\ receipts = {} /\ plans = <<>> /\ approvals = {} /\ told = {}
      /\ owner = "none" /\ mig = IdleMig /\ txn.state = "none" /\ writer.pc = "idle" /\ direct = IdleDirect
      /\ changes = 0
  BY DEF MigrationInit, NoTxn, IdleWriter
<1>2. IsSeq(<<>>)
  BY DEF IsSeq
<1>3. PlansKept /\ ProcessesPlaced /\ TxnPlaced /\ Activating /\ ToldTruthfully /\ StillFrozen
  BY <1>1, <1>2 DEF PlansKept, ProcessesPlaced, TxnPlaced, Activating, ToldTruthfully, StillFrozen, IdleMig, IdleDirect
<1>4. IdentityStands /\ Intended
  BY <1>1, LegacyIds DEF IdentityStands, Intended, Kept, InForce
<1> QED
  BY <1>3, <1>4 DEF MInv

LEMMA MigrationNextInv ==
  ASSUME MInv, [MigrationNext]_migrationVars
  PROVE  MInv' /\ NothingLost
<1> USE DEF NothingLost
<1>1. CASE UNCHANGED migrationVars
  BY <1>1, QuietStep DEF migrationVars, MInv, PlansKept, ProcessesPlaced, StillFrozen
<1>2. CASE \/ \E i \in DOMAIN plans : \E d \in Decisions, t \in Times : Approve(i, d, t)
           \/ \E a \in approvals : Lock(a)
           \/ Refuse \/ CheckSources \/ Kill \/ StartChapter \/ RejectChapter \/ Edit
  BY <1>2, QuietSteps
<1>3. CASE ActivateStrict
  BY <1>3, ActivateStrictStep
<1>4. CASE (\E h \in Heads : DirectStart(h)) \/ DirectReceipt
  BY <1>4, DirectSteps
<1>5. CASE DirectIdentity
  BY <1>5, DirectIdentityStep
<1>6. CASE BuildPlan
  BY <1>6, BuildPlanStep
<1>7. CASE Again
  BY <1>7, AgainStep
<1>8. CASE PrepareTxn
  BY <1>8, PrepareTxnStep
<1>9. CASE ApplyMemory
  BY <1>9, ApplyMemoryStep
<1>10. CASE ApplyReceipt
  BY <1>10, ApplyReceiptStep
<1>11. CASE ApplyIdentity
  BY <1>11, ApplyIdentityStep
<1>12. CASE MarkTxn
  BY <1>12, MarkTxnStep
<1>13. CASE PublishTxn \/ Fail \/ Reconcile
  BY <1>13, EndSteps
<1>14. CASE CommitChapter
  BY <1>14, CommitChapterStep
<1> QED
  BY <1>1, <1>2, <1>3, <1>4, <1>5, <1>6, <1>7, <1>8, <1>9, <1>10, <1>11, <1>12, <1>13, <1>14 DEF MigrationNext

LEMMA MInvAgrees == MInv => OneAuthority
<1> SUFFICES ASSUME MInv PROVE Agreeing /\ Recoverable
  BY DEF OneAuthority
<1>1. Agreeing
  BY DEF MInv, Agreeing, Settled, IdentityStands
<1>2. Recoverable
  <2> SUFFICES ASSUME Settled, identity.mode = "legacy", NEW r \in receipts
               PROVE  \E i \in intents : i.expected = identity /\ i.head \in receipts
    BY DEF Recoverable
  <2>1. InForce = identity /\ Kept = receipts
    BY DEF Settled, InForce, Kept
  <2>2. [expected |-> identity, head |-> r] \in intents
    BY <2>1 DEF MInv, Intended
  <2> QED
    BY <2>2
<1> QED
  BY <1>1, <1>2

\* Identity, event store and receipts of a book change together: in every state between two commands,
\* after every crash and rollback of a migration or a direct activation, a legacy book has no batch,
\* an event book has its receipt and its head, and a book that is closed to its readers still has the
\* intent that completes its activation.
THEOREM AuthorityMigrates == MigrationSpec => []OneAuthority
<1>1. MigrationInit => MInv
  BY MigrationInitInv
<1>2. MInv /\ [MigrationNext]_migrationVars => MInv'
  BY MigrationNextInv
<1>3. MInv => OneAuthority
  BY MInvAgrees
<1> QED
  BY <1>1, <1>2, <1>3, PTL DEF MigrationSpec

\* Whenever the author writes: what was reported completed is what the book's memory begins with,
\* strict reading stays on, and event authority is a point of no return behind the marker.
LEMMA MigrationSticks == MigrationSpec => []ToldTruthfully /\ StrictSticks /\ NoDowngrade
<1>1. MInv /\ [MigrationNext]_migrationVars =>
        /\ MInv'
        /\ [identity.strict => identity'.strict]_migrationVars
        /\ [identity.mode = "event" /\ txn.state \in {"none", "marked"} => identity'.mode = "event"]_migrationVars
  BY MigrationNextInv DEF NothingLost
<1>2. MInv => ToldTruthfully
  BY DEF MInv
<1> QED
  BY <1>1, <1>2, MigrationInitInv, PTL DEF MigrationSpec, StrictSticks, NoDowngrade

\* The sources are as planned when the marker is written, but for what the author wrote after the
\* last look at them; nothing is assumed of him.
THEOREM MigrationKept == MigrationSpec => MigrationKeeps
<1>1. MInv /\ [MigrationNext]_migrationVars =>
        /\ MInv'
        /\ [txn.state = "applying" /\ txn'.state = "marked" =>
               src = plans[txn.approval.plan].src \/ changes > mig.seen]_migrationVars
  BY MigrationNextInv DEF NothingLost
<1>2. MigrationSpec => FrozenThroughMarker
  BY <1>1, MigrationInitInv, PTL DEF MigrationSpec, FrozenThroughMarker
<1> QED
  BY <1>2, MigrationSticks DEF MigrationKeeps
=============================================================================
