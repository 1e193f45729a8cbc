--------------------------- MODULE ModelCallProofs ---------------------------
(***************************************************************************)
(* Proofs about ModelCallRuntime: over retries, restarts and several       *)
(* processes a logical call is taken up by the provider at most once, all  *)
(* processes are given its one durable answer, and nothing is sent while   *)
(* an earlier attempt is in doubt.                                         *)
(*                                                                         *)
(* No process looks at another one, and no attempt at another attempt.     *)
(* What relates them is that an intent is made once, and that it is made   *)
(* where every earlier call has succeeded and every earlier attempt of its *)
(* call was not sent (Reached).  So at most one attempt is ever in doubt.  *)
(***************************************************************************)
EXTENDS ModelCallRuntime, WellFoundedInduction, TLAPS

Answered == {"succeeded", "partial_response_failed", "provider_rejected", "request_not_sent"}
Live == {"attempt", "reserve", "send", "respond", "receipt", "settle", "retry", "stage"}
Owning == {"reserve", "send", "respond", "receipt"}

At(s) == <<s.call, s.n>>

IsProcess(s) ==
    s \in [pc : Live \cup {"off", "failed", "done"}, call : {s.call}, n : {s.n}, got : {s.got},
           used : {s.used}, tracker : {s.tracker}]

Shape ==
    /\ intents \subseteq Attempts /\ accepted \subseteq Attempts /\ answers \subseteq Attempts
    /\ receipt \in [Attempts -> Statuses \cup {"none"}] /\ sent \in [Attempts -> Nat] /\ opsDone \in Nat
    /\ proc = [p \in Procs |-> proc[p]] /\ \A p \in Procs : IsProcess(proc[p])

Done(c) == \E n \in 1 .. MaxAttempts : receipt[<<c, n>>] = "succeeded"

\* Every earlier call has its answer, and every earlier attempt of this one was not sent.
Reached(a) ==
    /\ \A c \in Calls : c < a[1] => Done(c)
    /\ \A n \in 1 .. MaxAttempts : n < a[2] => receipt[<<a[1], n>>] = "request_not_sent"

\* What a process in state s knows of its attempt.
StageOK(s) ==
    /\ s.pc \in Live => At(s) \in Attempts /\ Reached(At(s))
    /\ s.pc \in Owning => At(s) \in intents /\ receipt[At(s)] = "none"
    /\ s.pc \in {"reserve", "send"} => sent[At(s)] = 0 /\ At(s) \notin accepted
    /\ s.pc \in {"respond", "receipt"} =>
           /\ s.got \in Answered /\ (At(s) \in accepted <=> s.got # "request_not_sent")
           /\ At(s) \in accepted => sent[At(s)] = 1
    /\ s.pc = "receipt" => At(s) \in response
    /\ s.pc \in {"settle", "stage"} => receipt[At(s)] = "succeeded"
    /\ s.pc = "retry" => receipt[At(s)] = "request_not_sent"
    /\ s.pc = "stage" /\ s.call + 1 \in Calls => OperationOf[s.call + 1] # OperationOf[s.call]

\* Two processes never hold the same attempt.
OneOwner ==
    \A p, q \in Procs : /\ proc[p].pc \in Owning /\ proc[q].pc \in Owning
                        /\ Attempt(p) = Attempt(q)
                        => p = q

\* What the files and the provider hold of an attempt.
Filed(a) ==
    /\ receipt[a] # "none" => a \in intents
    /\ a \in intents => Reached(a)
    /\ receipt[a] = "succeeded" => a \in response
    /\ a \notin intents => sent[a] = 0 /\ a \notin accepted
    /\ a \in accepted => sent[a] = 1 /\ receipt[a] \notin Uncharged
    /\ a \in answers => receipt[a] = "succeeded"

\* A recorded operation has all its answers.
Recorded == \A c \in Calls : OperationOf[c] <= opsDone => Done(c)

IInv ==
    /\ CallAssumption /\ Shape /\ Recorded /\ OneOwner
    /\ \A a \in Attempts : Filed(a)
    /\ \A p \in Procs : StageOK(proc[p])

-----------------------------------------------------------------------------
(* Calls and attempts.                                                     *)

LEMMA CallFacts ==
    ASSUME CallAssumption
    PROVE  /\ Calls = 1 .. Len(OperationOf) /\ Len(OperationOf) \in Nat /\ Calls \subseteq Nat
           /\ \A c \in Calls : OperationOf[c] \in Nat /\ OperationOf[c] > 0
           /\ \A a \in Attempts : a[1] \in Calls /\ a[2] \in 1 .. MaxAttempts /\ a = <<a[1], a[2]>>
BY DEF CallAssumption, Calls, Attempts

LEMMA Least == ASSUME NEW T \in SUBSET Nat, T # {} PROVE \E c \in T : \A d \in T : c <= d
<1>1. PICK c \in T : \A d \in T : <<d, c>> \notin OpToRel(<, Nat)
  BY WFMin, NatLessThanWellFounded, Zenon
<1>2. \A d \in T : ~(d < c)
  BY <1>1, Zenon DEF OpToRel
<1>3. QED
  BY <1>2

\* The next call of a restart is a call, and only recorded operations come before it.
LEMMA FirstCallIs ==
    ASSUME CallAssumption, FirstCall # 0, opsDone \in Nat
    PROVE  FirstCall \in Calls /\ \A c \in Calls : c < FirstCall => OperationOf[c] <= opsDone
<1> DEFINE todo == {c \in Calls : OperationOf[c] > opsDone}
<1>1. todo # {} /\ FirstCall = CHOOSE c \in todo : \A d \in todo : c <= d
  BY DEF FirstCall
<1>2. todo \in SUBSET Nat /\ \A c \in Calls : OperationOf[c] \in Nat
  BY CallFacts
<1>3. \E c \in todo : \A d \in todo : c <= d
  BY <1>1, <1>2, Least
<1>4. FirstCall \in todo /\ \A d \in todo : FirstCall <= d
  BY <1>1, <1>3
<1>5. FirstCall \in Calls /\ FirstCall \in Nat
  BY <1>2, <1>4
<1>6. ASSUME NEW c \in Calls, c < FirstCall PROVE OperationOf[c] <= opsDone
  <2>1. c \in Nat /\ OperationOf[c] \in Nat
    BY <1>2, CallFacts
  <2>2. c \notin todo
    BY <1>4, <1>5, <1>6, <2>1
  <2>3. QED
    BY <2>1, <2>2
<1>7. QED
  BY <1>5, <1>6

-----------------------------------------------------------------------------
(* Intents, responses and receipts are only added.                         *)

Grows ==
    /\ intents \subseteq intents' /\ response \subseteq response'
    /\ \A a \in Attempts : receipt[a] # "none" => receipt'[a] = receipt[a]

Untouched(a) ==
    receipt'[a] = receipt[a] /\ sent'[a] = sent[a] /\ (a \in accepted' <=> a \in accepted)

LEMMA ReachedStays ==
    ASSUME CallAssumption, Grows, NEW a \in Attempts, Reached(a)
    PROVE  Reached(a)'
<1>1. \A c \in Calls, n \in 1 .. MaxAttempts : <<c, n>> \in Attempts
  BY DEF Attempts
<1>2. \A c \in Calls : Done(c) => Done(c)'
  BY <1>1 DEF Done, Grows
<1>3. QED
  BY <1>1, <1>2, CallFacts DEF Reached, Grows

\* A process that does not move, and whose attempt nobody touches while it holds it.
LEMMA Others ==
    ASSUME IInv, Grows, NEW q \in Procs, proc'[q] = proc[q],
           proc[q].pc \in Owning => Untouched(Attempt(q))
    PROVE  StageOK(proc[q])'
<1> DEFINE a == <<proc[q].call, proc[q].n>>
<1>1. StageOK(proc[q]) /\ CallAssumption /\ Attempt(q) = a /\ At(proc[q]) = a
  BY DEF IInv, Attempt, At
<1>2. CASE proc[q].pc \notin Live
  BY <1>2 DEF StageOK, Live, Owning
<1>3. CASE proc[q].pc \in Live
  <2>1. a \in Attempts /\ Reached(a)'
    BY <1>1, <1>3, ReachedStays DEF StageOK
  <2>2. At(proc[q])' = a /\ Reached(At(proc[q]))'
    BY <2>1 DEF At, Reached
  <2>3. CASE proc[q].pc \in Owning
    BY <1>1, <2>1, <2>2, <2>3 DEF StageOK, Live, Owning, Untouched, Grows
  <2>4. CASE proc[q].pc \notin Owning
    BY <1>1, <2>1, <2>2, <2>4 DEF StageOK, Live, Owning, Grows
  <2>5. QED
    BY <2>3, <2>4
<1>4. QED
  BY <1>2, <1>3

LEMMA FiledStays ==
    ASSUME IInv, Grows, NEW a \in Attempts, Untouched(a),
           a \in intents' <=> a \in intents, a \in answers' <=> a \in answers
    PROVE  Filed(a)'
<1>1. CallAssumption /\ Filed(a) /\ (Reached(a) => Reached(a)')
  BY ReachedStays DEF IInv
<1>2. QED
  BY <1>1 DEF Filed, Untouched, Grows

LEMMA RecordedStays ==
    ASSUME IInv, Grows, opsDone' = opsDone
    PROVE  Recorded'
<1>1. \A c \in Calls, n \in 1 .. MaxAttempts : <<c, n>> \in Attempts
  BY DEF Attempts
<1>2. \A c \in Calls : Done(c) => Done(c)'
  BY <1>1 DEF Done, Grows
<1>3. QED
  BY <1>2 DEF IInv, Recorded

\* One process at work on its own attempt: what is left to show of a step.
LEMMA Work ==
    ASSUME IInv, Grows, NEW p \in Procs, NEW b \in Attempts, Attempt(p) = b, Shape', opsDone' = opsDone,
           \A q \in Procs : q # p => proc'[q] = proc[q],
           Untouched(b) \/ proc[p].pc \in Owning \/ b \notin intents,
           \A a \in Attempts : a # b =>
               Untouched(a) /\ (a \in intents' <=> a \in intents) /\ (a \in answers' <=> a \in answers),
           Filed(b)', StageOK(proc[p])', 
           proc'[p].pc \in Owning => Attempt(p)' = b /\ (proc[p].pc \in Owning \/ b \notin intents)
    PROVE  IInv'
<1>1. \A q \in Procs : proc[q].pc \in Owning => Attempt(q) \in intents /\ Attempt(q) \in Attempts
  BY DEF IInv, StageOK, Live, Owning, Attempt, At
<1>2. proc[p].pc \in Owning \/ b \notin intents =>
          \A q \in Procs : q # p /\ proc[q].pc \in Owning => Attempt(q) # b
  BY <1>1 DEF IInv, OneOwner
<1>3. ASSUME NEW q \in Procs PROVE StageOK(proc[q])'
  <2>1. CASE q = p
    BY <2>1
  <2>2. CASE q # p
    <3>1. proc[q].pc \in Owning => Untouched(Attempt(q))
      BY <1>1, <1>2, <2>2
    <3>2. QED
      BY <2>2, <3>1, Others
  <2>3. QED
    BY <2>1, <2>2
<1>4. ASSUME NEW a \in Attempts PROVE Filed(a)'
  <2>1. CASE a = b
    BY <2>1
  <2>2. CASE a # b
    BY <2>2, FiledStays
  <2>3. QED
    BY <2>1, <2>2
<1>5. OneOwner'
  <2>1. \A q \in Procs : q # p => Attempt(q)' = Attempt(q)
    BY DEF Attempt
  <2>2. QED
    BY <1>2, <2>1 DEF IInv, OneOwner
<1>6. QED
  BY <1>3, <1>4, <1>5, RecordedStays DEF IInv

\* A step of one process that writes no evidence; it may use an answer, and record an operation.
LEMMA Moved ==
    ASSUME IInv, NEW p \in Procs, NEW s, IsProcess(s), proc' = [proc EXCEPT ![p] = s], StageOK(s),
           s.pc \in Owning => proc[p].pc \in Owning /\ At(s) = Attempt(p),
           UNCHANGED <<intents, response, receipt, sent, accepted>>, opsDone' \in Nat, Recorded',
           answers' \subseteq answers \cup {a \in Attempts : receipt[a] = "succeeded"}
    PROVE  IInv'
<1>1. Grows /\ \A a \in Attempts : Untouched(a)
  BY DEF Grows, Untouched
<1>2. proc'[p] = s /\ \A q \in Procs : q # p => proc'[q] = proc[q]
  BY DEF IInv, Shape
<1>3. Shape'
  BY <1>2 DEF IInv, Shape
<1>4. ASSUME NEW q \in Procs PROVE StageOK(proc[q])'
  <2>1. CASE q = p
    BY <1>2, <2>1 DEF StageOK, Reached, Done, At
  <2>2. CASE q # p
    <3>1. proc[q].pc \in Owning => Attempt(q) \in Attempts
      BY DEF IInv, StageOK, Live, Owning, Attempt, At
    <3>2. QED
      BY <1>1, <1>2, <2>2, <3>1, Others
  <2>3. QED
    BY <2>1, <2>2
<1>5. ASSUME NEW a \in Attempts PROVE Filed(a)'
  <2>1. Filed(a) /\ (Reached(a) => Reached(a)')
    BY <1>1, ReachedStays DEF IInv
  <2>2. QED
    BY <2>1 DEF Filed
<1>6. OneOwner'
  <2>1. \A q \in Procs : q # p => Attempt(q)' = Attempt(q)
    BY <1>2 DEF Attempt
  <2>2. Attempt(p)' = At(s)
    BY <1>2 DEF Attempt, At
  <2>3. QED
    BY <1>2, <2>1, <2>2 DEF IInv, OneOwner
<1>7. QED
  BY <1>3, <1>4, <1>5, <1>6 DEF IInv

LEMMA Quiet ==
    ASSUME IInv, NEW p \in Procs, NEW s, IsProcess(s), proc' = [proc EXCEPT ![p] = s], StageOK(s),
           s.pc \in Owning => proc[p].pc \in Owning /\ At(s) = Attempt(p),
           UNCHANGED <<intents, response, receipt, opsDone, sent, accepted, answers>>
    PROVE  IInv'
<1>1. Recorded' /\ opsDone' \in Nat
  BY RecordedStays DEF IInv, Shape, Grows
<1>2. QED
  BY <1>1, Moved

-----------------------------------------------------------------------------
(* The steps that only move a process.                                     *)

Still == UNCHANGED <<intents, response, receipt, opsDone, sent, accepted, answers>>

LEMMA InProcess ==
    ASSUME IInv, NEW p \in Procs
    PROVE  /\ CallAssumption /\ Shape /\ IsProcess(proc[p]) /\ StageOK(proc[p])
           /\ Attempt(p) = At(proc[p]) /\ proc = [q \in Procs |-> proc[q]]
           /\ proc[p].pc \in Live => At(proc[p]) \in Attempts /\ Filed(At(proc[p]))
BY DEF IInv, Shape, StageOK, Attempt, At

\* In a state in which it does nothing more a process knows nothing.
LEMMA Passive == ASSUME NEW s, s.pc \in {"off", "failed", "done"} PROVE StageOK(s)
BY DEF StageOK, Live, Owning

LEMMA FailStep == ASSUME IInv, NEW p \in Procs, Fail(p), Still PROVE IInv'
<1> DEFINE s == [proc[p] EXCEPT !.pc = "failed"]
<1>1. proc' = [proc EXCEPT ![p] = s] /\ IsProcess(s) /\ s.pc = "failed"
  BY InProcess DEF Fail, IsProcess
<1> HIDE DEF s
<1>2. StageOK(s)
  BY <1>1, Passive
<1>3. QED
  BY <1>1, <1>2, Quiet DEF Still, Owning

\* A process that comes to a call has all answers of the calls before it.
LEMMA AtCallOK ==
    ASSUME IInv, NEW p \in Procs, NEW c \in Calls, NEW t, AtCall(p, c, t), \A d \in Calls : d < c => Done(d)
    PROVE  \E s : /\ IsProcess(s) /\ s.pc = "attempt" /\ proc' = [proc EXCEPT ![p] = s]
                  /\ StageOK(s) /\ At(s) = <<c, 1>>
<1> DEFINE new == IF OperationOf[c] \in Elastic THEN Authorize(t, OperationOf[c]) ELSE t
           s == [proc[p] EXCEPT !.pc = "attempt", !.call = c, !.n = 1, !.got = "none", !.used = 0,
                                !.tracker = new]
<1>1. proc' = [proc EXCEPT ![p] = s] /\ IsProcess(s) /\ s.pc = "attempt" /\ s.call = c /\ s.n = 1
  BY InProcess DEF AtCall, IsProcess, Live
<1> HIDE DEF s
<1>2. At(s) = <<c, 1>> /\ <<c, 1>> \in Attempts
  <2>1. 1 \in 1 .. MaxAttempts
    BY InProcess DEF CallAssumption
  <2>2. QED
    BY <1>1, <2>1 DEF At, Attempts
<1>3. Reached(<<c, 1>>)
  BY DEF Reached
<1>4. StageOK(s)
  BY <1>1, <1>2, <1>3 DEF StageOK, Owning
<1>5. QED
  BY <1>1, <1>2, <1>4

LEMMA StartStep == ASSUME IInv, NEW p \in Procs, Start(p) PROVE IInv'
<1>1. Still
  BY DEF Start, Still, store, history
<1>2. CASE Fail(p)
  BY <1>1, <1>2, FailStep
<1>3. CASE AtCall(p, FirstCall, Hydrated(NewTracker))
  <2>1. FirstCall \in Calls /\ \A c \in Calls : c < FirstCall => Done(c)
    BY FirstCallIs DEF Start, IInv, Shape, Recorded
  <2>2. PICK s : /\ IsProcess(s) /\ s.pc = "attempt" /\ StageOK(s)
                 /\ proc' = [proc EXCEPT ![p] = s]
    BY <1>3, <2>1, AtCallOK
  <2>3. QED
    BY <1>1, <2>2, Quiet DEF Still, Owning
<1>4. QED
  BY <1>2, <1>3 DEF Start

LEMMA FindUncertainStep == ASSUME IInv, NEW p \in Procs, FindUncertain(p) PROVE IInv'
<1> DEFINE s == [proc[p] EXCEPT !.pc = "failed", !.tracker = Restored(@, Attempt(p))]
<1>1. proc' = [proc EXCEPT ![p] = s] /\ IsProcess(s) /\ s.pc = "failed"
  BY InProcess DEF FindUncertain, IsProcess
<1> HIDE DEF s
<1>2. StageOK(s)
  BY <1>1, Passive
<1>3. QED
  BY <1>1, <1>2, Quiet DEF FindUncertain, Owning, store, history

LEMMA ReplayStep == ASSUME IInv, NEW p \in Procs, Replay(p) PROVE IInv'
<1> DEFINE a == Attempt(p)
           pc == CASE receipt[a] = "succeeded" -> "settle" [] receipt[a] = "request_not_sent" -> "retry"
                   [] OTHER -> "failed"
           t == IF receipt[a] \in {"succeeded", "partial_response_failed"}
                THEN Restored(proc[p].tracker, a) ELSE proc[p].tracker
           s == [proc[p] EXCEPT !.pc = pc, !.got = receipt[a], !.used = usage[a], !.tracker = t]
<1>1. proc' = [proc EXCEPT ![p] = s]
  BY InProcess DEF Replay, IsProcess
<1>2. IsProcess(s) /\ s.pc = pc /\ At(s) = a /\ pc \in {"settle", "retry", "failed"}
  BY InProcess DEF IsProcess, At, Live
<1>3. proc[p].pc = "attempt" /\ a \in Attempts /\ Reached(a)
  BY InProcess DEF Replay, StageOK, Live
<1>4. StageOK(s)
  BY <1>2, <1>3 DEF StageOK, Live, Owning
<1> HIDE DEF s
<1>5. QED
  BY <1>1, <1>2, <1>4, Quiet DEF Replay, Owning, store, history

LEMMA ReserveStep == ASSUME IInv, NEW p \in Procs, ReserveBudget(p) PROVE IInv'
<1> DEFINE s == [proc[p] EXCEPT !.pc = "send", !.tracker = Reserved(@, Attempt(p))]
<1>1. proc' = [proc EXCEPT ![p] = s] /\ IsProcess(s) /\ s.pc = "send" /\ At(s) = At(proc[p])
  BY InProcess DEF ReserveBudget, IsProcess, At, Live
<1>2. proc[p].pc = "reserve"
  BY DEF ReserveBudget
<1>3. StageOK(s)
  BY <1>1, <1>2, InProcess DEF StageOK, Live, Owning
<1> HIDE DEF s
<1>4. QED
  BY <1>1, <1>2, <1>3, InProcess, Quiet DEF ReserveBudget, Owning, store

\* The next attempt of a call is made after the ones before it were not sent.
LEMMA RetryStep == ASSUME IInv, NEW p \in Procs, RetryAgain(p) PROVE IInv'
<1> DEFINE s == [proc[p] EXCEPT !.pc = "attempt", !.n = @ + 1, !.got = "none"]
           c == proc[p].call
           n == proc[p].n
<1>1. proc' = [proc EXCEPT ![p] = s] /\ IsProcess(s) /\ s.pc = "attempt" /\ At(s) = <<c, n + 1>>
  BY InProcess DEF RetryAgain, IsProcess, At, Live
<1>2. proc[p].pc = "retry" /\ n < MaxAttempts /\ <<c, n>> \in Attempts /\ Reached(<<c, n>>)
  BY InProcess DEF RetryAgain, StageOK, Live, At
<1>3. receipt[<<c, n>>] = "request_not_sent"
  BY <1>2, InProcess DEF StageOK, At
<1>4. c \in Calls /\ n \in 1 .. MaxAttempts /\ MaxAttempts \in Nat
  BY <1>2, InProcess DEF Attempts, CallAssumption
<1>5. <<c, n + 1>> \in Attempts
  BY <1>2, <1>4 DEF Attempts
<1>6. Reached(<<c, n + 1>>)
  BY <1>2, <1>3, <1>4 DEF Reached
<1>7. StageOK(s)
  BY <1>1, <1>5, <1>6 DEF StageOK, Owning
<1> HIDE DEF s
<1>8. QED
  BY <1>1, <1>7, Quiet DEF RetryAgain, Owning, store, history

LEMMA StopStep == ASSUME IInv, NEW p \in Procs, Stop(p) PROVE IInv'
<1>1. IsProcess(Off) /\ Off.pc = "off" /\ proc' = [proc EXCEPT ![p] = Off]
  BY DEF Stop, Off, IsProcess
<1>2. StageOK(Off)
  BY <1>1, Passive
<1>3. QED
  BY <1>1, <1>2, Quiet DEF Stop, Owning, store, history

-----------------------------------------------------------------------------
(* The steps that write evidence, or reach the provider.                   *)

\* A process that keeps its attempt.
Keeps(p, pc) ==
    /\ IsProcess(proc'[p]) /\ proc'[p].pc = pc /\ proc'[p].call = proc[p].call /\ proc'[p].n = proc[p].n
    /\ proc' = [q \in Procs |-> proc'[q]] /\ \A q \in Procs : q # p => proc'[q] = proc[q]

LEMMA KeepsFacts ==
    ASSUME IInv, NEW p \in Procs, NEW pc, Keeps(p, pc), NEW b, b = Attempt(p)
    PROVE  /\ Attempt(p)' = b /\ At(proc[p])' = b /\ At(proc[p]) = b
           /\ \A q \in Procs : IsProcess(proc'[q])
BY InProcess DEF Keeps, Attempt, At

LEMMA ClaimStep == ASSUME IInv, NEW p \in Procs, Claim(p) PROVE IInv'
<1>1. Keeps(p, "reserve")
  BY InProcess DEF Claim, Keeps, IsProcess, Live
<1>2. PICK b \in Attempts : b = Attempt(p) /\ Reached(b) /\ Filed(b)
  BY InProcess DEF Claim, StageOK, Live
<1>3. /\ b \notin intents /\ intents' = intents \cup {b}
      /\ UNCHANGED <<response, receipt, opsDone, sent, accepted, answers>>
  BY <1>2 DEF Claim, history
<1>4. Grows /\ \A a \in Attempts : Untouched(a)
  BY <1>3 DEF Grows, Untouched
<1>5. Reached(b)'
  BY <1>2, <1>4, ReachedStays DEF IInv
<1>6. Shape'
  BY <1>1, <1>2, <1>3, KeepsFacts DEF Keeps, IInv, Shape
<1>7. receipt[b] = "none" /\ sent[b] = 0 /\ b \notin accepted /\ b \notin answers
  BY <1>2, <1>3 DEF Filed
<1>8. Filed(b)'
  BY <1>3, <1>5, <1>7 DEF Filed
<1>9. StageOK(proc[p])'
  BY <1>1, <1>2, <1>3, <1>5, <1>7, KeepsFacts DEF Keeps, StageOK, Live, Owning
<1>10. QED
  BY <1>1, <1>2, <1>3, <1>4, <1>6, <1>8, <1>9, KeepsFacts, Work DEF Keeps

LEMMA BudgetRejectsStep == ASSUME IInv, NEW p \in Procs, BudgetRejects(p) PROVE IInv'
<1>1. Keeps(p, "failed") /\ proc[p].pc = "reserve"
  BY InProcess DEF BudgetRejects, Fail, Keeps, IsProcess
<1>2. PICK b \in Attempts : b = Attempt(p) /\ Filed(b)
  BY <1>1, InProcess DEF Live
<1>3. b \in intents /\ receipt[b] = "none" /\ b \notin accepted /\ b \notin answers
  BY <1>1, <1>2, InProcess DEF StageOK, Owning, Filed
<1>4. /\ response' = response \cup {b} /\ receipt' = [receipt EXCEPT ![b] = "budget_rejected"]
      /\ UNCHANGED <<intents, opsDone, sent, accepted, answers>>
  BY <1>2 DEF BudgetRejects, history
<1>5. Grows /\ \A a \in Attempts : a # b => Untouched(a)
  BY <1>3, <1>4, InProcess DEF Grows, Untouched, Shape
<1>6. Shape'
  BY <1>1, <1>2, <1>4, KeepsFacts DEF Keeps, IInv, Shape, Statuses, Uncharged
<1>7. Filed(b)'
  <2>1. Reached(b)'
    BY <1>2, <1>3, <1>5, ReachedStays DEF IInv, Filed
  <2>2. receipt'[b] = "budget_rejected"
    BY <1>4 DEF IInv, Shape
  <2>3. QED
    BY <1>2, <1>3, <1>4, <2>1, <2>2 DEF Filed
<1>8. StageOK(proc[p])'
  BY <1>1 DEF Keeps, StageOK, Live, Owning
<1>9. QED
  BY <1>1, <1>2, <1>4, <1>5, <1>6, <1>7, <1>8, Work DEF Keeps, Owning

\* One invocation of the provider, whatever becomes of it.
LEMMA SendStep == ASSUME IInv, NEW p \in Procs, Send(p) PROVE IInv'
<1>1. PICK b \in Attempts : b = Attempt(p) /\ Filed(b)
  BY InProcess DEF Send, Live
<1>2. PICK got \in Answered \cup {"lost"}, used \in Usages \cup {0} :
          /\ accepted' = IF got = "request_not_sent" THEN accepted ELSE accepted \cup {b}
          /\ proc' = [proc EXCEPT ![p].pc = IF got = "lost" THEN "failed" ELSE "respond",
                                  ![p].got = got, ![p].used = used]
  BY <1>1 DEF Send, Answered
<1> DEFINE pc == IF got = "lost" THEN "failed" ELSE "respond"
<1>3. Keeps(p, pc) /\ proc'[p].got = got
  BY <1>2, InProcess DEF Keeps, IsProcess, Live
<1>4. /\ proc[p].pc = "send" /\ sent' = [sent EXCEPT ![b] = @ + 1]
      /\ UNCHANGED <<intents, response, receipt, opsDone, answers>>
  BY <1>1 DEF Send, store
<1>5. /\ b \in intents /\ receipt[b] = "none" /\ sent[b] = 0 /\ b \notin accepted /\ b \notin answers
      /\ Reached(b)
  BY <1>1, <1>4, InProcess DEF StageOK, Owning, Filed
<1>6. Grows /\ \A a \in Attempts : a # b => Untouched(a)
  BY <1>2, <1>4, InProcess DEF Grows, Untouched, Shape
<1>7. sent'[b] = 1 /\ (b \in accepted' <=> got # "request_not_sent")
  BY <1>2, <1>4, <1>5, InProcess DEF Shape
<1>8. Shape'
  BY <1>1, <1>2, <1>3, <1>4, KeepsFacts DEF Keeps, IInv, Shape
<1>9. Reached(b)'
  BY <1>5, <1>6, ReachedStays DEF IInv
<1>10. Filed(b)'
  BY <1>1, <1>4, <1>5, <1>7, <1>9 DEF Filed, Uncharged
<1>11. StageOK(proc[p])'
  <2>1. CASE got = "lost"
    BY <1>3, <2>1 DEF Keeps, StageOK, Live, Owning
  <2>2. CASE got # "lost"
    BY <1>1, <1>3, <1>4, <1>5, <1>7, <1>9, <2>2, KeepsFacts DEF Keeps, StageOK, Live, Owning, Answered
  <2>3. QED
    BY <2>1, <2>2
<1>12. QED
  BY <1>1, <1>3, <1>4, <1>6, <1>8, <1>10, <1>11, KeepsFacts, Work DEF Keeps, Owning

LEMMA PersistStep == ASSUME IInv, NEW p \in Procs, PersistResponse(p) PROVE IInv'
<1>1. Keeps(p, "receipt") /\ proc'[p].got = proc[p].got /\ proc[p].pc = "respond"
  BY InProcess DEF PersistResponse, Keeps, IsProcess, Live
<1>2. PICK b \in Attempts : b = Attempt(p) /\ Filed(b) /\ Reached(b)
  BY <1>1, InProcess DEF StageOK, Live
<1>3. /\ response' = response \cup {b}
      /\ UNCHANGED <<intents, receipt, opsDone, sent, accepted, answers>>
  BY <1>2 DEF PersistResponse, history
<1>4. Grows /\ \A a \in Attempts : Untouched(a)
  BY <1>3 DEF Grows, Untouched
<1>5. Reached(b)'
  BY <1>2, <1>4, ReachedStays DEF IInv
<1>6. Shape'
  BY <1>1, <1>3, KeepsFacts DEF Keeps, IInv, Shape
<1>7. Filed(b)'
  BY <1>2, <1>3, <1>5 DEF Filed
<1>8. StageOK(proc[p])'
  BY <1>1, <1>2, <1>3, <1>5, InProcess, KeepsFacts DEF Keeps, StageOK, Live, Owning
<1>9. QED
  BY <1>1, <1>2, <1>3, <1>4, <1>6, <1>7, <1>8, KeepsFacts, Work DEF Keeps, Owning

\* The receipt says what the process was told, and is written once.
LEMMA ReceiptStep == ASSUME IInv, NEW p \in Procs, RecordReceipt(p) PROVE IInv'
<1> DEFINE got == proc[p].got
           pc == CASE got = "succeeded" -> "settle" [] got = "request_not_sent" -> "retry"
                   [] OTHER -> "failed"
<1>1. Keeps(p, pc) /\ proc[p].pc = "receipt"
  BY InProcess DEF RecordReceipt, Keeps, IsProcess, Live
<1>2. PICK b \in Attempts : b = Attempt(p) /\ Filed(b) /\ Reached(b)
  BY <1>1, InProcess DEF StageOK, Live
<1>3. /\ receipt' = [receipt EXCEPT ![b] = got]
      /\ UNCHANGED <<intents, response, opsDone, sent, accepted, answers>>
  BY <1>2 DEF RecordReceipt, history
<1>4. /\ b \in intents /\ receipt[b] = "none" /\ b \in response /\ b \notin answers
      /\ got \in Answered /\ (b \in accepted <=> got # "request_not_sent")
      /\ b \in accepted => sent[b] = 1
  BY <1>1, <1>2, InProcess DEF StageOK, Owning, Filed
<1>5. Grows /\ \A a \in Attempts : a # b => Untouched(a)
  BY <1>3, <1>4, InProcess DEF Grows, Untouched, Shape
<1>6. Reached(b)' /\ receipt'[b] = got
  BY <1>2, <1>3, <1>5, ReachedStays DEF IInv, Shape
<1>7. Shape'
  <2>1. got \in Statuses
    BY <1>4 DEF Answered, Statuses, Charged, Uncharged
  <2>2. QED
    BY <1>1, <1>3, <2>1, KeepsFacts DEF Keeps, IInv, Shape
<1>8. Filed(b)'
  BY <1>2, <1>3, <1>4, <1>6 DEF Filed, Answered, Uncharged
<1>9. StageOK(proc[p])'
  BY <1>1, <1>2, <1>4, <1>6, KeepsFacts DEF Keeps, StageOK, Live, Owning
<1>10. QED
  BY <1>1, <1>2, <1>3, <1>5, <1>7, <1>8, <1>9, Work DEF Keeps, Owning

-----------------------------------------------------------------------------
(* The steps that use an answer.                                           *)

\* A call that has its answer: so have it and all before it.
LEMMA AnsweredUpTo ==
    ASSUME CallAssumption, NEW a \in Attempts, Reached(a), receipt[a] = "succeeded"
    PROVE  \A d \in Calls : d <= a[1] => Done(d)
<1>1. Done(a[1])
  BY CallFacts DEF Done
<1>2. QED
  BY <1>1, CallFacts DEF Reached

LEMMA SettleStep == ASSUME IInv, NEW p \in Procs, Settle(p) PROVE IInv'
<1> DEFINE t == Settled(proc[p].tracker, Attempt(p), proc[p].used)
           c == proc[p].call
<1>1. PICK b \in Attempts : /\ b = Attempt(p) /\ b = At(proc[p]) /\ b[1] = c /\ c \in Calls /\ c \in Nat
                            /\ Reached(b) /\ receipt[b] = "succeeded"
  BY InProcess, CallFacts DEF Settle, StageOK, Live, At
<1>2. UNCHANGED <<intents, response, receipt, sent, accepted>> /\ opsDone' \in Nat /\ Recorded'
  BY RecordedStays DEF Settle, store, IInv, Shape, Grows
<1>3. CASE answers' = answers /\ proc' = [proc EXCEPT ![p].pc = "failed", ![p].tracker = t]
  <2> DEFINE s == [proc[p] EXCEPT !.pc = "failed", !.tracker = t]
  <2>1. proc' = [proc EXCEPT ![p] = s] /\ IsProcess(s) /\ s.pc = "failed"
    BY <1>3, InProcess DEF IsProcess
  <2> HIDE DEF s
  <2>2. StageOK(s)
    BY <2>1, Passive
  <2>3. QED
    BY <1>2, <1>3, <2>1, <2>2, Moved DEF Owning
<1>4. CASE /\ answers' = answers \cup {b} /\ c + 1 \in Calls
           /\ AtCall(p, c + 1, t)
  <2>1. \A d \in Calls : d < c + 1 => Done(d)
    BY <1>1, AnsweredUpTo, CallFacts DEF IInv
  <2>2. PICK s : /\ IsProcess(s) /\ s.pc = "attempt" /\ StageOK(s)
                 /\ proc' = [proc EXCEPT ![p] = s]
    BY <1>4, <2>1, AtCallOK
  <2>3. QED
    BY <1>1, <1>2, <1>4, <2>2, Moved DEF Owning
<1>5. CASE /\ answers' = answers \cup {b}
           /\ ~(c + 1 \in Calls /\ OperationOf[c + 1] = OperationOf[c])
           /\ proc' = [proc EXCEPT ![p].pc = "stage", ![p].tracker = t]
  <2> DEFINE s == [proc[p] EXCEPT !.pc = "stage", !.tracker = t]
  <2>1. proc' = [proc EXCEPT ![p] = s] /\ IsProcess(s) /\ s.pc = "stage" /\ s.call = c /\ s.n = proc[p].n
    BY <1>5, InProcess DEF IsProcess, Live
  <2> HIDE DEF s
  <2>2. At(s) = b
    BY <1>1, <2>1 DEF At
  <2>3. StageOK(s)
    BY <1>1, <1>5, <2>1, <2>2 DEF StageOK, Owning
  <2>4. QED
    BY <1>1, <1>2, <1>5, <2>1, <2>3, Moved DEF Owning
<1>6. CallOf(Attempt(p)) = c
  BY <1>1 DEF CallOf
<1>7. QED
  BY <1>1, <1>3, <1>4, <1>5, <1>6 DEF Settle

\* An operation is recorded when its last call has its answer.
LEMMA AfterStageStep == ASSUME IInv, NEW p \in Procs, AfterStage(p) PROVE IInv'
<1> DEFINE c == proc[p].call
<1>1. PICK b \in Attempts : /\ b = At(proc[p]) /\ b[1] = c /\ c \in Calls /\ c \in Nat
                            /\ Reached(b) /\ receipt[b] = "succeeded"
  BY InProcess, CallFacts DEF AfterStage, StageOK, Live, At
<1>2. \A d \in Calls : d <= c => Done(d)
  BY <1>1, AnsweredUpTo DEF IInv
<1>3. \A d \in Calls : OperationOf[d] <= OperationOf[c] => d <= c
  <2>1. SUFFICES ASSUME NEW d \in Calls, OperationOf[d] <= OperationOf[c], ~(d <= c) PROVE FALSE
    OBVIOUS
  <2>2. c + 1 \in Calls /\ c <= c + 1 /\ c + 1 <= d
    BY <1>1, <2>1, CallFacts DEF IInv
  <2>3. OperationOf[c] <= OperationOf[c + 1] /\ OperationOf[c + 1] <= OperationOf[d]
    BY <1>1, <2>1, <2>2 DEF IInv, CallAssumption, Calls
  <2>4. OperationOf[c + 1] = OperationOf[c]
    BY <1>1, <2>1, <2>2, <2>3, CallFacts DEF IInv
  <2>5. QED
    BY <2>2, <2>4, InProcess DEF AfterStage, StageOK
<1>4. /\ opsDone' = IF OperationOf[c] > opsDone THEN OperationOf[c] ELSE opsDone
      /\ UNCHANGED <<intents, response, receipt, sent, accepted, answers>>
  BY DEF AfterStage, store, history
<1>5. opsDone' \in Nat
  BY <1>1, <1>4, CallFacts DEF IInv, Shape
<1>6. Recorded'
  <2>1. ASSUME NEW d \in Calls, OperationOf[d] <= opsDone' PROVE Done(d)
    <3>1. CASE OperationOf[d] <= opsDone
      BY <3>1 DEF IInv, Recorded
    <3>2. CASE OperationOf[d] <= OperationOf[c]
      BY <1>2, <1>3, <3>2
    <3>3. QED
      BY <1>4, <2>1, <3>1, <3>2
  <2>2. QED
    BY <1>4, <2>1 DEF Recorded, Done
<1>7. CASE c + 1 \in Calls /\ AtCall(p, c + 1, proc[p].tracker)
  <2>1. \A d \in Calls : d < c + 1 => Done(d)
    BY <1>1, <1>2, CallFacts DEF IInv
  <2>2. PICK s : /\ IsProcess(s) /\ s.pc = "attempt" /\ StageOK(s)
                 /\ proc' = [proc EXCEPT ![p] = s]
    BY <1>7, <2>1, AtCallOK
  <2>3. QED
    BY <1>4, <1>5, <1>6, <2>2, Moved DEF Owning
<1>8. CASE proc' = [proc EXCEPT ![p].pc = "done"]
  <2> DEFINE s == [proc[p] EXCEPT !.pc = "done"]
  <2>1. proc' = [proc EXCEPT ![p] = s] /\ IsProcess(s) /\ s.pc = "done"
    BY <1>8, InProcess DEF IsProcess
  <2> HIDE DEF s
  <2>2. StageOK(s)
    BY <2>1, Passive
  <2>3. QED
    BY <1>4, <1>5, <1>6, <2>1, <2>2, Moved DEF Owning
<1>9. QED
  BY <1>7, <1>8 DEF AfterStage

-----------------------------------------------------------------------------

LEMMA InitIInv == CallAssumption /\ Init => IInv
<1> SUFFICES ASSUME CallAssumption, Init PROVE IInv
  OBVIOUS
<1>1. IsProcess(Off) /\ StageOK(Off)
  BY Passive DEF Off, IsProcess
<1>2. Shape
  BY <1>1 DEF Init, Shape
<1>3. Recorded
  BY CallFacts DEF Init, Recorded
<1>4. OneOwner
  BY DEF Init, Off, OneOwner, Owning
<1>5. \A a \in Attempts : Filed(a)
  BY DEF Init, Filed
<1>6. \A p \in Procs : StageOK(proc[p])
  BY <1>1 DEF Init
<1>7. QED
  BY <1>2, <1>3, <1>4, <1>5, <1>6 DEF IInv

LEMMA NextIInv == IInv /\ [Next]_vars => IInv'
<1> SUFFICES ASSUME IInv, [Next]_vars PROVE IInv'
  OBVIOUS
<1>1. ASSUME UNCHANGED <<intents, response, receipt, opsDone, proc, sent, accepted, answers>> PROVE IInv'
  BY <1>1 DEF IInv, Shape, Recorded, OneOwner, Filed, StageOK, Reached, Done, At, Attempt
<1>2. CASE UNCHANGED vars
  BY <1>1, <1>2 DEF vars
<1>3. CASE Resolve
  BY <1>1, <1>3 DEF Resolve, store, history
<1>4. ASSUME NEW p \in Procs, EvidenceFails(p) \/ RetryStops(p) PROVE IInv'
  BY <1>4, FailStep DEF EvidenceFails, RetryStops, Still, store, history
<1>5. ASSUME NEW p \in Procs, Step(p) PROVE IInv'
  BY <1>4, <1>5, ClaimStep, FindUncertainStep, ReplayStep, ReserveStep, BudgetRejectsStep, SendStep,
     PersistStep, ReceiptStep, SettleStep, AfterStageStep, RetryStep DEF Step
<1>6. QED
  BY <1>2, <1>3, <1>5, StartStep, StopStep DEF Next

LEMMA Invariance == CallAssumption /\ Spec => []IInv
BY InitIInv, NextIInv, PTL DEF Spec

\* At most one attempt is in doubt, whatever processes ran and died.
LEMMA OneInDoubt == ASSUME IInv, NEW a \in Uncertain, NEW b \in Uncertain PROVE a = b
<1>1. /\ a \in Attempts /\ b \in Attempts /\ Reached(a) /\ Reached(b)
      /\ receipt[a] = "none" /\ receipt[b] = "none"
  BY DEF Uncertain, IInv, Shape, Filed
<1>2. ASSUME NEW x \in Attempts, NEW y \in Attempts, Reached(x), Reached(y), receipt[x] = "none", x[1] < y[1]
      PROVE  FALSE
  <2>1. PICK n \in 1 .. MaxAttempts : receipt[<<x[1], n>>] = "succeeded"
    BY <1>2, CallFacts DEF Reached, Done, IInv
  <2>2. PICK m \in 1 .. MaxAttempts : x = <<x[1], m>> /\ m = x[2]
    BY CallFacts DEF IInv
  <2>3. m # n /\ ~(n < m)
    BY <1>2, <2>1, <2>2 DEF Reached
  <2>4. m < n
    BY <2>3
  <2>5. <<x[1], n>> \in Attempts /\ Filed(<<x[1], n>>)
    BY <2>2, CallFacts DEF Attempts, IInv
  <2>6. Reached(<<x[1], n>>)
    BY <2>1, <2>5 DEF Filed
  <2>7. receipt[<<x[1], m>>] = "request_not_sent"
    BY <2>4, <2>6 DEF Reached
  <2>8. QED
    BY <1>2, <2>2, <2>7
<1>3. a[1] = b[1]
  BY <1>1, <1>2, CallFacts DEF IInv
<1>4. a[2] = b[2]
  BY <1>1, <1>3, CallFacts DEF IInv, Reached
<1>5. QED
  BY <1>1, <1>3, <1>4, CallFacts DEF IInv

\* Two attempts of one call, the later of which was made: the earlier one was not sent.
LEMMA EarlierNotSent ==
    ASSUME IInv, NEW a \in Attempts, NEW b \in Attempts, CallOf(a) = CallOf(b), a # b,
           a \in intents, b \in intents
    PROVE  receipt[a] = "request_not_sent" \/ receipt[b] = "request_not_sent"
<1>1. a[1] = b[1] /\ Reached(a) /\ Reached(b) /\ CallAssumption
  BY DEF CallOf, IInv, Filed
<1>2. QED
  BY <1>1, CallFacts DEF Reached

\* A logical call reaches the provider at most once, over the retries of one process, over
\* restarts and over other processes, and every process that runs it is given the same answer,
\* whose text and receipt are on disk (model_call_runtime.py).
THEOREM OneAnswer == CallAssumption /\ Spec => []AnsweredOnce
<1>1. IInv => AcceptedOnce
  <2> SUFFICES ASSUME IInv, NEW a \in accepted, NEW b \in accepted, CallOf(a) = CallOf(b)
              PROVE  a = b /\ sent[a] = 1
    BY DEF AcceptedOnce
  <2>1. a \in Attempts /\ b \in Attempts /\ Filed(a) /\ Filed(b)
    BY DEF IInv, Shape
  <2>2. QED
    BY <2>1, EarlierNotSent DEF Filed, Uncharged
<1>2. IInv => OneDurableAnswer
  <2> SUFFICES ASSUME IInv, NEW a \in answers
              PROVE  /\ receipt[a] = "succeeded" /\ a \in response
                     /\ \A b \in answers : CallOf(a) = CallOf(b) => a = b
    BY DEF OneDurableAnswer
  <2>1. \A b \in answers : b \in Attempts /\ Filed(b)
    BY DEF IInv, Shape
  <2>2. QED
    BY <2>1, EarlierNotSent DEF Filed
<1>3. IInv => AnsweredOnce
  BY <1>1, <1>2 DEF AnsweredOnce
<1>4. QED
  BY <1>3, Invariance, PTL

\* While the outcome of an attempt whose process is gone is unknown, nothing is sent
\* (_begin_execution_evidence, FindUncertain).
THEOREM NothingBehindDoubt == CallAssumption /\ Spec => [][NothingSentBehindUncertain]_vars
<1>1. IInv /\ [Next]_vars => [NothingSentBehindUncertain]_vars
  <2> SUFFICES ASSUME IInv, Next, NEW a \in Attempts, sent'[a] > sent[a]
              PROVE  Uncertain \subseteq {Attempt(p) : p \in {q \in Procs : Running(q)}}
    BY DEF NothingSentBehindUncertain
  <2>1. sent[a] \in Nat
    BY DEF IInv, Shape
  <2>2. \E p \in Procs : Send(p)
    <3>1. Resolve => UNCHANGED sent
      BY DEF Resolve, history
    <3>2. ASSUME NEW p \in Procs
          PROVE  /\ Start(p) \/ Stop(p) \/ Claim(p) \/ FindUncertain(p) \/ Replay(p) => UNCHANGED sent
                 /\ ReserveBudget(p) \/ BudgetRejects(p) \/ PersistResponse(p) => UNCHANGED sent
                 /\ RecordReceipt(p) \/ EvidenceFails(p) \/ Settle(p) => UNCHANGED sent
                 /\ AfterStage(p) \/ RetryAgain(p) \/ RetryStops(p) => UNCHANGED sent
      <4>1. Start(p) \/ Stop(p) \/ Claim(p) \/ FindUncertain(p) \/ Replay(p) => UNCHANGED sent
        BY DEF Start, Stop, Claim, FindUncertain, Replay, history
      <4>2. ReserveBudget(p) \/ BudgetRejects(p) \/ PersistResponse(p) => UNCHANGED sent
        BY DEF ReserveBudget, BudgetRejects, PersistResponse, history
      <4>3. RecordReceipt(p) \/ EvidenceFails(p) \/ Settle(p) => UNCHANGED sent
        BY DEF RecordReceipt, EvidenceFails, Settle, history
      <4>4. AfterStage(p) \/ RetryAgain(p) \/ RetryStops(p) => UNCHANGED sent
        BY DEF AfterStage, RetryAgain, RetryStops, history
      <4>5. QED
        BY <4>1, <4>2, <4>3, <4>4
    <3>3. sent' # sent
      BY <2>1
    <3>4. QED
      BY <3>1, <3>2, <3>3 DEF Next, Step
  <2>3. PICK p \in Procs : Send(p)
    BY <2>2
  <2>4. Running(p) /\ Attempt(p) \in Uncertain
    BY <2>3, InProcess DEF Send, Running, StageOK, Owning, Uncertain
  <2>5. QED
    BY <2>4, OneInDoubt
<1>2. QED
  BY <1>1, Invariance, PTL DEF Spec

=============================================================================
