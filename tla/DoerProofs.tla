----------------------------- MODULE DoerProofs -----------------------------
(***************************************************************************)
(* Theorems about Doer, for any set of calls and any retry policy: its     *)
(* types, that a write is executed at most once, that a refusal of a write *)
(* is final, and that Do implements the Exchange its callers rely on.      *)
(*                                                                         *)
(* And about the functions that prepare a request and read its answer, for *)
(* all their arguments: errors, queries, hosts, answers, signatures and    *)
(* delays.  Each section ends with the invariant of MCDoer it implies.     *)
(***************************************************************************)
EXTENDS MCDoer, FunctionTheorems, FiniteSetTheorems, TLAPS

(***************************************************************************)
(* A write stays in its first attempt and its one copy is unsent, on its   *)
(* way, or answered.                                                       *)
(***************************************************************************)
OneCopy ==
  \A r \in Requests \ Reads :
    /\ attempt[r] = 0 /\ pc[r] # "backoff" /\ wire[r] \subseteq {0}
    /\ pc[r] \in {"start", "sending"}
         => wire[r] = {} /\ executed[r] = 0 /\ reply[r][0] = "none"
    /\ 0 \in wire[r] => executed[r] = 0 /\ reply[r][0] = "none"
    /\ executed[r] <= 1
    /\ reply[r][0] \in Refused => executed[r] = 0 /\ wire[r] = {}

(***************************************************************************)
(* A copy on its way has no answer yet, and an attempt not sent has none.  *)
(***************************************************************************)
Unanswered ==
  \A r \in Requests, n \in Attempts :
    /\ n \in wire[r] => reply[r][n] = "none" /\ n <= attempt[r]
    /\ n > attempt[r] => reply[r][n] = "none"
    /\ n = attempt[r] /\ pc[r] \in {"start", "sending", "backoff"}
         => reply[r][n] = "none" /\ n \notin wire[r]

(***************************************************************************)
(* A success answered is a success executed.                               *)
(***************************************************************************)
AnsweredAfterExecution ==
  \A r \in Requests, n \in Attempts : reply[r][n] \in Accepted => executed[r] > 0

(***************************************************************************)
(* A call has a result exactly when it has returned; what it reports rests *)
(* on the answer to its last attempt.                                      *)
(***************************************************************************)
ReportsAnswer ==
  \A r \in Requests :
    /\ pc[r] = "done" <=> result[r].kind # "open"
    /\ result[r].kind = "ok" => executed[r] > 0
    /\ result[r].kind \in Refused => reply[r][attempt[r]] = result[r].kind

\* The inductive invariant.
IInv == TypeOK /\ OneCopy /\ Unanswered /\ AnsweredAfterExecution /\ ReportsAnswer

-----------------------------------------------------------------------------
\* There is an attempt to make.
LEMMA LimitPositive == Limit \in Nat /\ Limit >= 1 /\ 0 \in Attempts
  BY AttemptsAssumption DEF Limit, Attempts

\* Nothing has been sent.
LEMMA InitIInv == Init => IInv
  BY LimitPositive
  DEF Init, IInv, TypeOK, OneCopy, Unanswered, AnsweredAfterExecution, ReportsAnswer, NoResult,
      Results, Accepted, Refused, Errors

\* What Return does to the call that returns and to the others.
LEMMA ReturnEffect ==
  ASSUME TypeOK, NEW r \in Requests, NEW kind, NEW last, Return(r, kind, last),
         [kind |-> kind, last |-> last] \in Results
  PROVE  /\ pc' \in [Requests -> {"start", "sending", "awaiting", "backoff", "done"}]
         /\ result' \in [Requests -> Results]
         /\ attempt' = attempt
         /\ pc'[r] = "done" /\ result'[r].kind = kind
         /\ \A q \in Requests : q # r => pc'[q] = pc[q] /\ result'[q] = result[q]
  BY DEF Return, TypeOK

\* A step of Do that returns without an answer of the server behind it.
LEMMA PlainReturn ==
  ASSUME IInv, NEW r \in Requests, NEW kind, NEW last, Return(r, kind, last),
         [kind |-> kind, last |-> last] \in Results, kind \notin Refused, kind # "open",
         kind = "ok" => executed[r] > 0,
         UNCHANGED <<wire, reply, executed, cancelled>>,
         lastErr' \in [Requests -> Errors \cup {"none"}]
  PROVE  IInv'
  <1> USE DEF IInv
  <1>1. /\ pc' \in [Requests -> {"start", "sending", "awaiting", "backoff", "done"}]
        /\ result' \in [Requests -> Results]
        /\ attempt' = attempt
        /\ pc'[r] = "done" /\ result'[r].kind = kind
        /\ \A q \in Requests : q # r => pc'[q] = pc[q] /\ result'[q] = result[q]
    BY ReturnEffect
  <1>2. TypeOK'
    BY <1>1 DEF TypeOK
  <1>3. OneCopy'
    BY <1>1 DEF OneCopy
  <1>4. AnsweredAfterExecution'
    BY DEF AnsweredAfterExecution
  <1>5. ReportsAnswer'
    BY <1>1 DEF ReportsAnswer
  <1>6. Unanswered'
    BY <1>1 DEF Unanswered
  <1> QED BY <1>2, <1>3, <1>4, <1>5, <1>6

\* Whether an attempt that failed with err is followed by another or not.
LEMMA RetryStep ==
  ASSUME IInv, NEW r \in Requests, NEW retry \in BOOLEAN, NEW err \in Errors,
         RetryOrReturn(r, retry, err), pc[r] \in {"sending", "awaiting"},
         retry => r \in Reads,
         err \in Refused => reply[r][attempt[r]] = err,
         UNCHANGED <<wire, reply, executed, cancelled>>
  PROVE  IInv'
  <1> USE DEF IInv
  <1>1. lastErr' \in [Requests -> Errors \cup {"none"}]
    BY DEF RetryOrReturn, TypeOK
  <1>2. CASE retry /\ attempt[r] < Limit - 1
    <2>1. /\ pc' = [pc EXCEPT ![r] = "backoff"]
          /\ attempt' = [attempt EXCEPT ![r] = @ + 1]
          /\ UNCHANGED result /\ r \in Reads
      BY <1>2 DEF RetryOrReturn
    <2>2. TypeOK'
      BY <1>1, <1>2, <2>1, LimitPositive DEF TypeOK, Attempts
    <2>3. \A q \in Requests \ Reads : pc'[q] = pc[q] /\ attempt'[q] = attempt[q]
      BY <2>1 DEF TypeOK
    <2>4. OneCopy'
      BY <2>3 DEF OneCopy
    <2>5. AnsweredAfterExecution'
      BY DEF AnsweredAfterExecution
    <2>6. /\ result[r].kind = "open"
          /\ \A q \in Requests : q # r => pc'[q] = pc[q] /\ attempt'[q] = attempt[q]
          /\ pc'[r] = "backoff"
      BY <2>1 DEF TypeOK, ReportsAnswer
    <2>7. ReportsAnswer'
      BY <2>1, <2>6 DEF ReportsAnswer, Refused
    <2>8. /\ attempt'[r] = attempt[r] + 1 /\ attempt[r] \in Nat
          /\ \A n \in Attempts : n \in Nat
      BY <2>1 DEF TypeOK, Attempts
    <2>9. Unanswered'
      BY <2>6, <2>8 DEF Unanswered
    <2> QED BY <2>2, <2>4, <2>5, <2>7, <2>9
  <1>3. CASE ~(retry /\ attempt[r] < Limit - 1)
    <2>1. Return(r, err, "none")
      BY <1>3 DEF RetryOrReturn
    <2>2. [kind |-> err, last |-> "none"] \in Results
      BY DEF Results
    <2>3. /\ pc' \in [Requests -> {"start", "sending", "awaiting", "backoff", "done"}]
          /\ result' \in [Requests -> Results]
          /\ attempt' = attempt
          /\ pc'[r] = "done" /\ result'[r].kind = err
          /\ \A q \in Requests : q # r => pc'[q] = pc[q] /\ result'[q] = result[q]
      BY <2>1, <2>2, ReturnEffect
    <2>4. TypeOK'
      BY <1>1, <2>3 DEF TypeOK
    <2>5. OneCopy'
      BY <2>3 DEF OneCopy
    <2>6. AnsweredAfterExecution'
      BY DEF AnsweredAfterExecution
    <2>7. err # "open" /\ err # "ok"
      BY DEF Errors, Refused
    <2>8. ReportsAnswer'
      BY <2>3, <2>7 DEF ReportsAnswer
    <2>9. Unanswered'
      BY <2>3 DEF Unanswered
    <2> QED BY <2>4, <2>5, <2>6, <2>8, <2>9
  <1> QED BY <1>2, <1>3

\* Every step of Do, the network and the server keeps the invariant.
LEMMA NextIInv == IInv /\ [Next]_vars => IInv'
  <1> SUFFICES ASSUME IInv, [Next]_vars PROVE IInv'
    OBVIOUS
  <1>1. ASSUME NEW r \in Requests, RefuseRequest(r) \/ AuthorizerFails(r)
        PROVE  IInv'
    <2>1. PICK kind \in {"encode", "authorize"} : Return(r, kind, "none")
      BY <1>1 DEF RefuseRequest, AuthorizerFails
    <2>2. [kind |-> kind, last |-> "none"] \in Results
      BY DEF Results
    <2>3. UNCHANGED <<wire, reply, executed, cancelled, lastErr>>
      BY <1>1 DEF RefuseRequest, AuthorizerFails
    <2>4. lastErr' \in [Requests -> Errors \cup {"none"}]
      BY <2>3 DEF IInv, TypeOK
    <2>5. kind \notin Refused /\ kind # "open" /\ kind # "ok"
      BY DEF Refused
    <2> QED BY <2>1, <2>2, <2>3, <2>4, <2>5, PlainReturn
  <1>2. ASSUME NEW r \in Requests, BackoffCancelled(r) PROVE IInv'
    <2>1. /\ Return(r, "context", lastErr[r])
          /\ UNCHANGED <<wire, reply, executed, cancelled, lastErr>>
      BY <1>2 DEF BackoffCancelled
    <2>2. [kind |-> "context", last |-> lastErr[r]] \in Results
      BY DEF Results, IInv, TypeOK
    <2>3. lastErr' \in [Requests -> Errors \cup {"none"}]
      BY <2>1 DEF IInv, TypeOK
    <2>4. "context" \notin Refused
      BY DEF Refused
    <2> QED BY <2>1, <2>2, <2>3, <2>4, PlainReturn
  <1>3. ASSUME NEW r \in Requests, ReceiveSuccess(r) PROVE IInv'
    <2>1. PICK kind \in {"ok", "body", "decode"} : Return(r, kind, "none")
      BY <1>3 DEF ReceiveSuccess
    <2>2. /\ UNCHANGED <<wire, reply, executed, cancelled, lastErr>>
          /\ reply[r][attempt[r]] \in Accepted
      BY <1>3 DEF ReceiveSuccess, Answer
    <2>3. executed[r] > 0
      BY <2>2 DEF IInv, TypeOK, AnsweredAfterExecution
    <2>4. [kind |-> kind, last |-> "none"] \in Results
      BY DEF Results
    <2>5. lastErr' \in [Requests -> Errors \cup {"none"}]
      BY <2>2 DEF IInv, TypeOK
    <2>6. kind \notin Refused /\ kind # "open"
      BY DEF Refused
    <2> QED BY <2>1, <2>2, <2>3, <2>4, <2>5, <2>6, PlainReturn
  <1>4. ASSUME NEW r \in Requests,
               TransportFails(r) \/ ReceiveUnusable(r) \/ ReceiveError(r)
        PROVE  IInv'
    <2>1. /\ pc[r] \in {"sending", "awaiting"}
          /\ UNCHANGED <<wire, reply, executed, cancelled>>
      BY <1>4 DEF TransportFails, ReceiveUnusable, ReceiveError
    <2>2. CASE TransportFails(r) \/ ReceiveUnusable(r)
      <3>1. RetryOrReturn(r, RetryTransport(r), "transport")
        BY <2>2 DEF TransportFails, ReceiveUnusable
      <3>2. RetryTransport(r) \in BOOLEAN /\ (RetryTransport(r) => r \in Reads)
        BY DEF RetryTransport, Idempotent
      <3>3. "transport" \in Errors /\ "transport" \notin Refused
        BY DEF Errors, Refused
      <3> QED BY <2>1, <3>1, <3>2, <3>3, RetryStep
    <2>3. CASE ReceiveError(r)
      <3>1. RetryOrReturn(r, RetryStatus(r, Answer(r)), Answer(r))
        BY <2>3 DEF ReceiveError
      <3>2. /\ RetryStatus(r, Answer(r)) \in BOOLEAN
            /\ RetryStatus(r, Answer(r)) => r \in Reads
        BY DEF RetryStatus, Idempotent
      <3>3. Answer(r) \in Errors /\ reply[r][attempt[r]] = Answer(r)
        BY <2>3 DEF ReceiveError, Errors, Answer
      <3> QED BY <2>1, <3>1, <3>2, <3>3, RetryStep
    <2> QED BY <1>4, <2>2, <2>3
  <1> USE DEF IInv
  <1>5. ASSUME NEW r \in Requests, Authorized(r) \/ BackoffEnds(r) PROVE IInv'
    <2>1. /\ UNCHANGED <<attempt, wire, reply, executed, cancelled, lastErr, result>>
          /\ pc[r] \in {"start", "backoff"} /\ pc' = [pc EXCEPT ![r] = "sending"]
      BY <1>5 DEF Authorized, BackoffEnds
    <2>2. TypeOK'
      BY <2>1 DEF TypeOK
    <2>3. OneCopy'
      BY <2>1 DEF OneCopy, TypeOK
    <2>4. AnsweredAfterExecution' /\ ReportsAnswer'
      BY <2>1 DEF AnsweredAfterExecution, ReportsAnswer, TypeOK
    <2>5. Unanswered'
      BY <2>1 DEF Unanswered, TypeOK, Attempts
    <2> QED BY <2>2, <2>3, <2>4, <2>5
  <1>6. ASSUME NEW r \in Requests, Send(r) PROVE IInv'
    <2>1. /\ UNCHANGED <<attempt, reply, executed, cancelled, lastErr, result>>
          /\ pc[r] = "sending" /\ pc' = [pc EXCEPT ![r] = "awaiting"]
          /\ wire' = [wire EXCEPT ![r] = @ \cup {attempt[r]}]
      BY <1>6 DEF Send
    <2>2. TypeOK'
      BY <2>1 DEF TypeOK
    <2>3. OneCopy'
      BY <2>1 DEF OneCopy, TypeOK, Refused
    <2>4. AnsweredAfterExecution' /\ ReportsAnswer'
      BY <2>1 DEF AnsweredAfterExecution, ReportsAnswer, TypeOK
    <2>5. Unanswered'
      BY <2>1 DEF Unanswered, TypeOK, Attempts
    <2> QED BY <2>2, <2>3, <2>4, <2>5
  <1>7. ASSUME NEW r \in Requests, Cancel(r) PROVE IInv'
    <2>1. /\ UNCHANGED <<pc, attempt, wire, reply, executed, lastErr, result>>
          /\ cancelled' = [cancelled EXCEPT ![r] = TRUE]
      BY <1>7 DEF Cancel
    <2>2. TypeOK'
      BY <2>1 DEF TypeOK
    <2>3. OneCopy' /\ Unanswered' /\ AnsweredAfterExecution' /\ ReportsAnswer'
      BY <2>1 DEF OneCopy, Unanswered, AnsweredAfterExecution, ReportsAnswer
    <2> QED BY <2>2, <2>3
  <1>8. ASSUME NEW r \in Requests, NEW n \in Attempts,
               ServerExecutes(r, n) \/ ServerRefuses(r, n)
        PROVE  IInv'
    <2>1. PICK s \in Statuses :
            /\ reply' = [reply EXCEPT ![r][n] = s]
            /\ s \in Accepted => ServerExecutes(r, n)
            /\ s \in Refused => ServerRefuses(r, n)
      BY <1>8 DEF ServerExecutes, ServerRefuses, Statuses, Accepted, Refused
    <2>2. /\ UNCHANGED <<pc, attempt, cancelled, lastErr, result>>
          /\ n \in wire[r] /\ wire' = [wire EXCEPT ![r] = @ \ {n}]
          /\ \/ executed' = [executed EXCEPT ![r] = @ + 1] /\ s \notin Refused
             \/ executed' = executed /\ s \notin Accepted
      BY <1>8, <2>1 DEF ServerExecutes, ServerRefuses, Accepted, Refused
    <2>3. TypeOK'
      BY <2>1, <2>2 DEF TypeOK
    <2>4. \A q \in Requests, m \in Attempts :
            /\ reply'[q][m] = IF q = r /\ m = n THEN s ELSE reply[q][m]
            /\ executed'[q] >= executed[q]
            /\ q = r /\ s \in Accepted => executed'[q] > 0
      BY <2>1, <2>2 DEF TypeOK, Accepted, Refused
    <2>5. AnsweredAfterExecution'
      BY <2>3, <2>4 DEF AnsweredAfterExecution, TypeOK
    <2>6. OneCopy'
      <3> SUFFICES ASSUME NEW q \in Requests \ Reads
                   PROVE  /\ attempt'[q] = 0 /\ pc'[q] # "backoff"
                          /\ wire'[q] \subseteq {0}
                          /\ pc'[q] \in {"start", "sending"}
                               => wire'[q] = {} /\ executed'[q] = 0
                                  /\ reply'[q][0] = "none"
                          /\ 0 \in wire'[q] => executed'[q] = 0
                                               /\ reply'[q][0] = "none"
                          /\ executed'[q] <= 1
                          /\ reply'[q][0] \in Refused => executed'[q] = 0
                                                         /\ wire'[q] = {}
        BY DEF OneCopy
      <3>1. CASE q # r
        <4>1. wire'[q] = wire[q] /\ executed'[q] = executed[q]
              /\ reply'[q][0] = reply[q][0]
          BY <2>2, <2>4, <3>1, LimitPositive DEF TypeOK
        <4> QED BY <2>2, <4>1 DEF OneCopy
      <3>2. CASE q = r
        <4>1. n = 0 /\ executed[r] = 0 /\ wire[r] = {0}
              /\ pc[r] \notin {"start", "sending"}
          BY <2>2, <3>2 DEF OneCopy
        <4>2. wire'[r] = {} /\ reply'[r][0] = s
          BY <2>2, <2>4, <4>1, LimitPositive DEF TypeOK
        <4>3. executed'[r] = 0 \/ (executed'[r] = 1 /\ s \notin Refused)
          <5>1. CASE executed' = [executed EXCEPT ![r] = @ + 1] /\ s \notin Refused
            BY <4>1, <5>1 DEF TypeOK
          <5>2. CASE executed' = executed
            BY <4>1, <5>2
          <5> QED BY <2>2, <5>1, <5>2
        <4> QED BY <2>2, <3>2, <4>1, <4>2, <4>3 DEF OneCopy
      <3> QED BY <3>1, <3>2
    <2>7. ReportsAnswer'
      <3> SUFFICES ASSUME NEW q \in Requests
                   PROVE  /\ result'[q].kind = "ok" => executed'[q] > 0
                          /\ result'[q].kind \in Refused
                               => reply'[q][attempt'[q]] = result'[q].kind
        BY <2>2 DEF ReportsAnswer
      <3>1. reply[r][n] = "none"
        BY <2>2 DEF Unanswered
      <3>2. result'[q].kind = "ok" => executed'[q] > 0
        BY <2>2, <2>3, <2>4 DEF ReportsAnswer, TypeOK
      <3>3. ASSUME result'[q].kind \in Refused
            PROVE  reply'[q][attempt'[q]] = result'[q].kind
        <4>1. reply[q][attempt[q]] = result[q].kind /\ attempt[q] \in Attempts
          BY <2>2, <3>3 DEF ReportsAnswer, TypeOK
        <4>2. ~(q = r /\ attempt[q] = n)
          BY <2>2, <3>1, <3>3, <4>1 DEF Refused
        <4> QED BY <2>2, <2>4, <4>1, <4>2
      <3> QED BY <3>2, <3>3
    <2>8. Unanswered'
      <3>1. \A q \in Requests : wire'[q] \subseteq wire[q] /\ (q = r => n \notin wire'[q])
        BY <2>2 DEF TypeOK
      <3>2. \A q \in Requests, m \in Attempts :
              m > attempt[q] => m \notin wire[q]
        BY DEF Unanswered, TypeOK, Attempts
      <3> QED BY <2>2, <2>4, <3>1, <3>2 DEF Unanswered
    <2> QED BY <2>3, <2>5, <2>6, <2>7, <2>8
  <1>9. CASE UNCHANGED vars
    BY <1>9
    DEF vars, TypeOK, OneCopy, Unanswered, AnsweredAfterExecution, ReportsAnswer
  <1> QED
    BY <1>1, <1>2, <1>3, <1>4, <1>5, <1>6, <1>7, <1>8, <1>9 DEF Next, DoSteps

\* Every reachable state has its type: in particular no call of Do makes more
\* attempts than its policy allows, whatever that policy says.
THEOREM TypeCorrect == Spec => []TypeOK
  <1>1. IInv => TypeOK
    BY DEF IInv
  <1> QED BY <1>1, InitIInv, NextIInv, PTL DEF Spec

\* No failure makes Do send a write twice: whatever is lost, delayed or refused,
\* the server executes a POST, PUT or DELETE at most once.
THEOREM WritesExecuteAtMostOnce == Spec => []WriteAtMostOnce
  <1>1. ASSUME IInv, NEW r \in Requests \ Reads
        PROVE  (wire[r] = {} \/ executed[r] = 0) /\ executed[r] <= 1
    <2>1. wire[r] = {} \/ 0 \in wire[r]
      BY <1>1 DEF IInv, OneCopy
    <2> QED BY <1>1, <2>1 DEF IInv, OneCopy
  <1>2. IInv => WriteAtMostOnce
    BY <1>1, Zenon DEF WriteAtMostOnce
  <1> QED BY <1>2, InitIInv, NextIInv, PTL DEF Spec

\* When Do reports that the server refused a write (429 or another 4xx), no copy
\* of it was executed or can still be.
THEOREM RefusedWritesNeverExecute == Spec => []RefusalIsFinal
  <1>1. ASSUME IInv, NEW r \in Requests \ Reads, result[r].kind \in Refused
        PROVE  executed[r] = 0 /\ wire[r] = {}
    BY <1>1 DEF IInv, OneCopy, ReportsAnswer
  <1>2. IInv => RefusalIsFinal
    BY <1>1 DEF RefusalIsFinal
  <1> QED BY <1>2, InitIInv, NextIInv, PTL DEF Spec

\* Do reports success only for a request the server executed, whichever of its
\* attempts the answer belongs to and whatever other copies are on their way.
THEOREM SuccessMeansExecuted == Spec => []SuccessWasExecuted
  <1>1. IInv => SuccessWasExecuted
    BY DEF IInv, ReportsAnswer, SuccessWasExecuted
  <1> QED BY <1>1, InitIInv, NextIInv, PTL DEF Spec

-----------------------------------------------------------------------------
(* What Do waits for. *)

(***************************************************************************)
(* Every backoff follows a failure that the policy repeats, and lastErr    *)
(* still has it when the context ends the backoff.                         *)
(***************************************************************************)
WaitsAfterFailure ==
  /\ \A r \in Requests : pc[r] = "backoff" => lastErr[r] \in {"5xx", "transport"}
  /\ CancelKeepsLastError

\* Whether an attempt that failed is followed by another or not.
LEMMA RetryKeepsFailure ==
  ASSUME TypeOK, WaitsAfterFailure, NEW r \in Requests, NEW retry \in BOOLEAN, NEW err \in Errors,
         RetryOrReturn(r, retry, err), retry => err \in {"5xx", "transport"}
  PROVE  WaitsAfterFailure'
  <1>1. /\ lastErr'[r] = err
        /\ \A q \in Requests : q # r => lastErr'[q] = lastErr[q]
    BY DEF RetryOrReturn, TypeOK
  <1>2. CASE retry /\ attempt[r] < Limit - 1
    <2>1. UNCHANGED result /\ \A q \in Requests : q # r => pc'[q] = pc[q]
      BY <1>2 DEF RetryOrReturn, TypeOK
    <2> QED BY <1>1, <1>2, <2>1 DEF WaitsAfterFailure, CancelKeepsLastError
  <1>3. CASE ~(retry /\ attempt[r] < Limit - 1)
    <2>1. Return(r, err, "none")
      BY <1>3 DEF RetryOrReturn
    <2>2. [kind |-> err, last |-> "none"] \in Results /\ err # "context"
      BY DEF Results, Errors, Refused
    <2> QED BY <1>1, <2>1, <2>2, ReturnEffect DEF WaitsAfterFailure, CancelKeepsLastError
  <1> QED BY <1>2, <1>3

\* A step that returns without a look at lastErr.
LEMMA ReturnKeepsFailure ==
  ASSUME TypeOK, WaitsAfterFailure, NEW r \in Requests,
         NEW kind \in {"encode", "authorize", "ok", "body", "decode"},
         Return(r, kind, "none"), UNCHANGED lastErr
  PROVE  WaitsAfterFailure'
  <1>1. [kind |-> kind, last |-> "none"] \in Results
    BY DEF Results
  <1> QED BY <1>1, ReturnEffect DEF WaitsAfterFailure, CancelKeepsLastError

\* A call backs off from a failure alone.
LEMMA NextWaits == TypeOK /\ WaitsAfterFailure /\ [Next]_vars => WaitsAfterFailure'
  <1> SUFFICES ASSUME TypeOK, WaitsAfterFailure, [Next]_vars
               PROVE  WaitsAfterFailure'
    OBVIOUS
  <1>1. ASSUME NEW r \in Requests, RefuseRequest(r) \/ AuthorizerFails(r) \/ ReceiveSuccess(r)
        PROVE  WaitsAfterFailure'
    BY <1>1, ReturnKeepsFailure DEF RefuseRequest, AuthorizerFails, ReceiveSuccess
  <1>2. ASSUME NEW r \in Requests, Authorized(r) \/ Send(r) \/ BackoffEnds(r)
        PROVE  WaitsAfterFailure'
    BY <1>2 DEF Authorized, Send, BackoffEnds, WaitsAfterFailure, CancelKeepsLastError, TypeOK
  <1>3. ASSUME NEW r \in Requests, TransportFails(r) \/ ReceiveUnusable(r)
        PROVE  WaitsAfterFailure'
    <2>1. RetryTransport(r) \in BOOLEAN /\ "transport" \in Errors
      BY DEF RetryTransport, Idempotent, Errors
    <2>2. RetryOrReturn(r, RetryTransport(r), "transport")
      BY <1>3 DEF TransportFails, ReceiveUnusable
    <2> QED BY <2>1, <2>2, RetryKeepsFailure
  <1>4. ASSUME NEW r \in Requests, ReceiveError(r)
        PROVE  WaitsAfterFailure'
    <2>1. Answer(r) \in Errors
      BY <1>4 DEF ReceiveError, Errors
    <2>2. /\ RetryStatus(r, Answer(r)) \in BOOLEAN
          /\ RetryStatus(r, Answer(r)) => Answer(r) = "5xx"
      BY DEF RetryStatus, Idempotent
    <2>3. RetryOrReturn(r, RetryStatus(r, Answer(r)), Answer(r))
      BY <1>4 DEF ReceiveError
    <2> QED BY <2>1, <2>2, <2>3, RetryKeepsFailure
  <1>5. ASSUME NEW r \in Requests, BackoffCancelled(r)
        PROVE  WaitsAfterFailure'
    <2>1. lastErr[r] \in {"5xx", "transport"} /\ UNCHANGED lastErr
      BY <1>5 DEF BackoffCancelled, WaitsAfterFailure
    <2>2. [kind |-> "context", last |-> lastErr[r]] \in Results
      BY <2>1 DEF Results, Errors
    <2>3. result'[r].last = lastErr[r]
      BY <1>5 DEF BackoffCancelled, Return, TypeOK
    <2> QED BY <1>5, <2>1, <2>2, <2>3, ReturnEffect
            DEF BackoffCancelled, WaitsAfterFailure, CancelKeepsLastError
  <1>6. ASSUME NEW r \in Requests, Cancel(r)
        PROVE  WaitsAfterFailure'
    BY <1>6 DEF Cancel, WaitsAfterFailure, CancelKeepsLastError
  <1>7. ASSUME NEW r \in Requests, NEW n \in Attempts, ServerExecutes(r, n) \/ ServerRefuses(r, n)
        PROVE  WaitsAfterFailure'
    BY <1>7 DEF ServerExecutes, ServerRefuses, WaitsAfterFailure, CancelKeepsLastError
  <1>8. CASE UNCHANGED vars
    BY <1>8 DEF vars, WaitsAfterFailure, CancelKeepsLastError
  <1> QED BY <1>1, <1>2, <1>3, <1>4, <1>5, <1>6, <1>7, <1>8 DEF Next, DoSteps

\* A context that ends a backoff returns the failure Do was retrying for with its
\* own error, and nothing but a lost read or a server failure is waited for.
THEOREM BackoffKeepsFailure == Spec => []CancelKeepsLastError
  <1>1. Init => WaitsAfterFailure
    BY DEF Init, WaitsAfterFailure, CancelKeepsLastError, NoResult
  <1>2. IInv => TypeOK
    BY DEF IInv
  <1>3. WaitsAfterFailure => CancelKeepsLastError
    BY DEF WaitsAfterFailure
  <1> QED BY <1>1, <1>2, <1>3, InitIInv, NextIInv, NextWaits, PTL DEF Spec

-----------------------------------------------------------------------------
(* Do implements Exchange. *)

\* A step that leaves results and executions alone is invisible to the caller.
LEMMA SilentStep ==
  ASSUME UNCHANGED <<result, executed>>
  PROVE  UNCHANGED <<executed, [r \in Requests |-> Outcome(r)]>>
  <1>1. \A r \in Requests : Outcome(r)' = Outcome(r)
    BY DEF Outcome
  <1> QED BY <1>1

\* A call that returns reports its outcome, and no other call changes.
LEMMA ReportStep ==
  ASSUME IInv, IInv', NEW r \in Requests, UNCHANGED <<executed, wire, reply>>,
         result[r].kind = "open", result'[r].kind # "open",
         \A q \in Requests : q # r => result'[q] = result[q]
  PROVE  Abstract!Report(r, Outcome(r)') /\ Outcome(r)' \in {"ok", "refused", "unknown"}
  <1> DEFINE out == [q \in Requests |-> Outcome(q)]
  <1>1. Outcome(r) = "open"
    BY DEF Outcome, Refused
  <1>2. \A q \in Requests : q # r => Outcome(q)' = Outcome(q)
    BY DEF Outcome
  <1>3. out' = [out EXCEPT ![r] = Outcome(r)']
    BY <1>2
  <1>4. /\ Outcome(r)' \in {"ok", "refused", "unknown"}
        /\ Outcome(r)' = "ok" => result'[r].kind = "ok"
        /\ Outcome(r)' = "refused" => result'[r].kind \in Refused
    BY DEF Outcome
  <1>5. Outcome(r)' = "ok" => executed[r] > 0
    BY <1>4 DEF IInv, ReportsAnswer
  <1>6. Outcome(r)' = "refused" /\ r \notin Reads => executed[r] = 0
    BY <1>4 DEF IInv, OneCopy, ReportsAnswer
  <1> QED BY <1>1, <1>3, <1>4, <1>5, <1>6 DEF Abstract!Report

\* Executing a copy is the abstract Execute.
LEMMA ExecuteStep ==
  ASSUME IInv, NEW r \in Requests, NEW n \in Attempts, ServerExecutes(r, n)
  PROVE  Abstract!Execute(r)
  <1>1. /\ n \in wire[r] /\ UNCHANGED result
        /\ executed' = [executed EXCEPT ![r] = @ + 1]
    BY DEF ServerExecutes
  <1>2. \A q \in Requests : Outcome(q)' = Outcome(q)
    BY <1>1 DEF Outcome
  <1>3. Outcome(r) = "refused" => result[r].kind \in Refused
    BY DEF Outcome
  <1>4. r \notin Reads => executed[r] = 0 /\ result[r].kind \notin Refused
    BY <1>1 DEF IInv, OneCopy, ReportsAnswer
  <1> QED BY <1>1, <1>2, <1>3, <1>4 DEF Abstract!Execute

\* A step of Do is one of Exchange, or none.
LEMMA StepRefines ==
  ASSUME IInv, IInv', [Next]_vars
  PROVE  [Abstract!Next]_<<executed, [r \in Requests |-> Outcome(r)]>>
  <1>1. ASSUME NEW r \in Requests, DoSteps(r)
        PROVE  \/ UNCHANGED <<result, executed>>
               \/ /\ UNCHANGED <<executed, wire, reply>>
                  /\ result[r].kind = "open" /\ result'[r].kind # "open"
                  /\ \A q \in Requests : q # r => result'[q] = result[q]
    <2>1. CASE Authorized(r) \/ Send(r) \/ BackoffEnds(r)
      BY <2>1 DEF Authorized, Send, BackoffEnds
    <2>2. CASE ~(Authorized(r) \/ Send(r) \/ BackoffEnds(r))
      <3>1. UNCHANGED <<executed, wire, reply>> /\ pc[r] # "done"
        BY <1>1, <2>2
        DEF DoSteps, RefuseRequest, AuthorizerFails, TransportFails, ReceiveUnusable,
            ReceiveSuccess, ReceiveError, BackoffCancelled
      <3>2. \/ UNCHANGED result
            \/ \E kind, last : Return(r, kind, last)
        BY <1>1, <2>2
        DEF DoSteps, RefuseRequest, AuthorizerFails, TransportFails, ReceiveUnusable,
            ReceiveSuccess, ReceiveError, BackoffCancelled, RetryOrReturn
      <3>3. CASE \E kind, last : Return(r, kind, last)
        <4>1. /\ pc'[r] = "done"
              /\ \A q \in Requests : q # r => result'[q] = result[q]
          BY <3>3 DEF Return, IInv, TypeOK
        <4>2. result[r].kind = "open" /\ result'[r].kind # "open"
          BY <3>1, <4>1 DEF IInv, ReportsAnswer
        <4> QED BY <3>1, <4>1, <4>2
      <3> QED BY <3>1, <3>2, <3>3
    <2> QED BY <2>1, <2>2
  <1>2. ASSUME NEW r \in Requests, DoSteps(r)
        PROVE  [Abstract!Next]_<<executed, [q \in Requests |-> Outcome(q)]>>
    BY <1>1, <1>2, SilentStep, ReportStep DEF Abstract!Next
  <1>3. ASSUME NEW r \in Requests, NEW n \in Attempts, ServerExecutes(r, n)
        PROVE  Abstract!Next
    BY <1>3, ExecuteStep DEF Abstract!Next
  <1>4. ASSUME \/ \E r \in Requests : Cancel(r) \/ \E n \in Attempts : ServerRefuses(r, n)
               \/ UNCHANGED vars
        PROVE  UNCHANGED <<executed, [q \in Requests |-> Outcome(q)]>>
    BY <1>4, SilentStep DEF Cancel, ServerRefuses, vars
  <1> QED BY <1>2, <1>3, <1>4 DEF Next

\* Do, with its attempts, its network and its server, implements Exchange: its
\* callers may count on a write executing at most once and on a refusal of it.
THEOREM DoImplementsExchange == Spec => ImplementsExchange
  <1>1. Init => Abstract!Init
    <2>1. ASSUME Init, NEW r \in Requests PROVE Outcome(r) = "open"
      BY <2>1 DEF Init, NoResult, Outcome, Refused
    <2> QED BY <2>1 DEF Init, Abstract!Init
  <1>2. IInv /\ IInv' /\ [Next]_vars
          => [Abstract!Next]_<<executed, [r \in Requests |-> Outcome(r)]>>
    BY StepRefines
  <1> QED
    BY <1>1, <1>2, InitIInv, NextIInv, PTL DEF Spec, ImplementsExchange, Abstract!Spec

-----------------------------------------------------------------------------
(***************************************************************************)
(* Errors.                                                                 *)
(***************************************************************************)

\* What Do retries, what Temporary reports and what Is names agree on every status.
THEOREM EveryStatusAgrees == StatusesAgree(Int)
  <1> SUFFICES ASSUME NEW status \in Int
      PROVE  /\ \A s, t \in Sentinels : Is(status, s) /\ Is(status, t) => s = t
             /\ Retried(status) => Temporary(status)
             /\ Is(status, "rateLimited") => Temporary(status) /\ ~Retried(status)
    BY DEF StatusesAgree
  <1>1. ASSUME NEW s \in Sentinels, NEW t \in Sentinels, Is(status, s), Is(status, t)
        PROVE  s = t
    <2>1. /\ Is(status, "authentication") => status = 401
          /\ Is(status, "permission") => status = 403
          /\ Is(status, "invalid") => status \in {400, 417}
          /\ Is(status, "notFound") => status = 404
          /\ Is(status, "rateLimited") => status = 429
          /\ Is(status, "server") => status >= 500
      BY DEF Is
    <2> QED BY <1>1, <2>1 DEF Sentinels
  <1>2. Is(status, "rateLimited") => status = 429
    BY DEF Is
  <1> QED BY <1>1, <1>2 DEF Retried, Temporary

\* What an error is classified by depends on its code alone, and no code is none of
\* those that have a name.
LEMMA CodeClassifies ==
  ASSUME NEW operation, NEW e, NEW f
  PROVE  /\ e.code = f.code => Classified(operation, e) = Classified(operation, f)
         /\ e.code = Missing => Classified(operation, e) = "error"
  <1>1. ASSUME e.code = f.code
        PROVE  Classified(operation, e) = Classified(operation, f)
    BY <1>1 DEF Classified, HasCode
  <1>2. ASSUME e.code = Missing
        PROVE  ~HasCode(e, DuplicateOrder) /\ ~HasCode(e, NotSubscribed) /\ ~HasCode(e, AlreadyDone)
    BY <1>2 DEF HasCode, DuplicateOrder, NotSubscribed, AlreadyDone, Missing
  <1>3. ASSUME e.code = Missing
        PROVE  Classified(operation, e) = "error"
    BY <1>2, <1>3 DEF Classified
  <1> QED BY <1>1, <1>3

\* The code of an answer decides, whatever the fields beside it are; without one, or
\* with a body that is damaged, the error is a plain one.
THEOREM EveryCodeDecides == \A bodies, operations : CodeDecides(bodies, operations)
  <1> TAKE bodies, operations
  <1> SUFFICES ASSUME NEW body \in bodies, NEW operation \in operations
      PROVE  LET err == Decoded(417, body)
                 sent == body.fields["error_code"] IN
               /\ body.json /\ ~err.truncated /\ sent # WrongType =>
                    Classified(operation, err) = Classified(operation, [err EXCEPT !.code = sent])
               /\ ~body.json \/ err.truncated \/ sent \in {Missing, WrongType} =>
                    Classified(operation, err) = "error"
    BY DEF CodeDecides
  <1> DEFINE err == Decoded(417, body)
             sent == body.fields["error_code"]
             same == [err EXCEPT !.code = sent]
  <1>1. err.code = Field(body, "error_code") /\ err.truncated = body.cut
    BY DEF Decoded
  <1>2. same.code = sent
    BY DEF Decoded
  <1> HIDE DEF err, same
  <1>3. ASSUME body.json, ~err.truncated, sent # WrongType
        PROVE  Classified(operation, err) = Classified(operation, same)
    <2>1. err.code = same.code
      BY <1>1, <1>2, <1>3 DEF Field, Whole
    <2> QED BY <2>1, CodeClassifies
  <1>4. ASSUME ~body.json \/ err.truncated \/ sent \in {Missing, WrongType}
        PROVE  Classified(operation, err) = "error"
    <2>1. err.code = Missing
      BY <1>1, <1>4 DEF Field, Whole
    <2> QED BY <2>1, CodeClassifies
  <1> QED BY <1>3, <1>4 DEF err, same

\* ErrorsAreClassified: what Do retries, Temporary reports and Is names agree, and an
\* error is classified by the code that was sent or as none that has a name.
THEOREM ErrorsClassified == Spec => []ErrorsAreClassified
  <1>1. StatusesAgree(300..599)
    BY EveryStatusAgrees DEF StatusesAgree
  <1>2. ErrorsAreClassified
    BY <1>1, EveryCodeDecides DEF ErrorsAreClassified
  <1> QED BY <1>2, PTL

-----------------------------------------------------------------------------
(***************************************************************************)
(* Queries.                                                                *)
(***************************************************************************)

RealTime == <<"real_time_required", "false">>

\* No other part of a query asks for real time.
LEMMA NotRealTime ==
  ASSUME NEW a, NEW c
  PROVE  /\ \A keys : "real_time_required" \notin keys => RealTime \notin Opts(a, keys)
         /\ \A keys : "real_time_required" \notin keys => RealTime \notin Required(a, keys)
         /\ RealTime \notin Fixed(c) /\ RealTime \notin Category(a)
  BY DEF RealTime, Opts, Required, Fixed, Category

\* Completed asks for completed bars in every operation, whatever its arguments.
THEOREM EveryCompletedHonoured == \A calls : CompletedIsHonoured(calls)
  <1> SUFFICES ASSUME NEW a, NEW operation \in DOMAIN BarQueries(a)
      PROVE  "completed" \in a.flags <=> RealTime \in BarQueries(a)[operation]
    BY DEF CompletedIsHonoured, RealTime
  <1>1. <<"real_time_required", Truth("completed" \notin a.flags)>> = RealTime
          <=> "completed" \in a.flags
    BY DEF Truth, RealTime
  <1>2. CASE operation = "Bars"
    BY <1>2, NotRealTime DEF BarQueries, BarsBody, RealTime
  <1>3. ASSUME NEW c, \A x : x \in c => x # RealTime
        PROVE  RealTime \in FootprintParams(a, c) <=> "completed" \in a.flags
    BY <1>1, <1>3, NotRealTime DEF FootprintParams
  <1>4. ASSUME NEW c \in {"US_OPTION", "US_CRYPTO", "US_EVENT"}
        PROVE  RealTime \in AssetBarsParams(a, c) <=> "completed" \in a.flags
    BY <1>1, NotRealTime DEF AssetBarsParams, RealTime
  <1>5. CASE operation = "Footprints"
    BY <1>3, <1>5, NotRealTime DEF BarQueries
  <1>6. CASE operation = "FuturesFootprints"
    BY <1>3, <1>6, NotRealTime DEF BarQueries, FuturesQuery
  <1>7. CASE operation \in {"OptionBars", "CryptoBars", "EventBars"}
    BY <1>4, <1>7 DEF BarQueries, OptionQuery, CryptoQuery, EventQuery
  <1> QED BY <1>2, <1>5, <1>6, <1>7 DEF BarQueries

\* The categories a query asks for.
Asked(query) == {pair[2] : pair \in {p \in query : p[1] = "category"}}

\* The categories asked for by the parts of a query.
LEMMA AskedOf ==
  /\ \A p, q : Asked(p \cup q) = Asked(p) \cup Asked(q)
  /\ \A c : Asked(Fixed(c)) = {c}
  /\ \A a, keys : "category" \notin keys => Asked(Opts(a, keys)) = {}
  /\ \A k, v : k # "category" => Asked({<<k, v>>}) = {}
  /\ Asked({}) = {}
  <1>1. \A p, q : Asked(p \cup q) = Asked(p) \cup Asked(q)
    BY DEF Asked
  <1>2. \A k, v : k # "category" => Asked({<<k, v>>}) = {}
    BY DEF Asked
  <1>3. \A c : Asked(Fixed(c)) = {c}
    <2> SUFFICES ASSUME NEW c PROVE Asked({<<"category", c>>}) = {c}
      BY DEF Fixed
    <2>1. {p \in {<<"category", c>>} : p[1] = "category"} = {<<"category", c>>}
      OBVIOUS
    <2>2. {pair[2] : pair \in {<<"category", c>>}} = {c}
      OBVIOUS
    <2> QED BY <2>1, <2>2, Zenon DEF Asked
  <1>4. \A a, keys : "category" \notin keys => Asked(Opts(a, keys)) = {}
    BY DEF Asked, Opts
  <1>5. Asked({}) = {}
    BY DEF Asked
  <1> QED BY <1>1, <1>2, <1>3, <1>4, <1>5

\* Three parts of a query ask for what each asks for.
LEMMA AskedOfThree ==
  ASSUME NEW p, NEW q, NEW r
  PROVE  Asked((p \cup q) \cup r) = (Asked(p) \cup Asked(q)) \cup Asked(r)
  <1>1. Asked((p \cup q) \cup r) = Asked(p \cup q) \cup Asked(r)
    BY AskedOf, Zenon
  <1>2. Asked(p \cup q) = Asked(p) \cup Asked(q)
    BY AskedOf, Zenon
  <1> QED BY <1>1, <1>2

\* An operation of one asset class asks for no other.
THEOREM EveryAssetFixed == \A calls : AssetIsFixed(calls)
  <1> SUFFICES ASSUME NEW a
      PROVE  /\ \A operation \in {"FuturesSnapshots", "FuturesTicks", "FuturesDepth", "FuturesBars",
                                  "FuturesFootprints"} :
                  Asked(FuturesQuery(operation, a)) = {"US_FUTURES"}
             /\ \A operation \in {"CryptoSnapshots", "CryptoBars"} :
                  Asked(CryptoQuery(operation, a)) = {"US_CRYPTO"}
             /\ \A operation \in {"OptionSnapshots", "OptionTicks", "OptionBars"} :
                  Asked(OptionQuery(operation, a)) = {"US_OPTION"}
             /\ Asked(ImbalanceParams(a)) = Asked(SymbolParams(a))
    BY DEF AssetIsFixed, Asked
  <1>1. ASSUME NEW c, NEW keys, "category" \notin keys
        PROVE  Asked(AssetParams(a, keys, c)) = {c}
    <2>1. Asked(Opts(a, keys)) = {} /\ Asked(Fixed(c)) = {c}
      BY <1>1, AskedOf
    <2> QED BY <2>1, AskedOf DEF AssetParams
  <1>2. ASSUME NEW c PROVE Asked(AssetBarsParams(a, c)) = {c}
    <2> DEFINE keys == {"symbols", "timespan", "count"}
               q == CASE c \in {"US_CRYPTO", "US_EVENT"} ->
                           {<<"real_time_required", Truth("completed" \notin a.flags)>>}
                      [] c = "US_OPTION" /\ "completed" \in a.flags ->
                           {<<"real_time_required", "false">>}
                      [] OTHER -> {}
    <2>1. Asked(Opts(a, keys)) = {} /\ Asked(Fixed(c)) = {c}
      BY AskedOf
    <2>2. Asked(q) = {}
      <3>1. q = {} \/ \E v : q = {<<"real_time_required", v>>}
        OBVIOUS
      <3> QED BY <3>1, AskedOf
    <2>3. AssetBarsParams(a, c) = (Opts(a, keys) \cup Fixed(c)) \cup q
      BY DEF AssetBarsParams
    <2> HIDE DEF keys, q
    <2>4. Asked((Opts(a, keys) \cup Fixed(c)) \cup q)
            = (Asked(Opts(a, keys)) \cup Asked(Fixed(c))) \cup Asked(q)
      BY AskedOfThree
    <2> QED BY <2>1, <2>2, <2>3, <2>4
  <1>3. Asked(FootprintParams(a, Fixed("US_FUTURES"))) = {"US_FUTURES"}
    <2> DEFINE keys == {"symbols", "timespan", "count", "trading_sessions"}
               v == Truth("completed" \notin a.flags)
               q == {<<"real_time_required", v>>}
               c == Fixed("US_FUTURES")
    <2>1. Asked(Opts(a, keys)) = {} /\ Asked(c) = {"US_FUTURES"}
      BY AskedOf
    <2>2. FootprintParams(a, c) = (Opts(a, keys) \cup c) \cup q
      BY DEF FootprintParams
    <2> HIDE DEF keys, c, v
    <2>3. Asked(q) = {}
      BY AskedOf
    <2> HIDE DEF q
    <2>4. Asked((Opts(a, keys) \cup c) \cup q) = (Asked(Opts(a, keys)) \cup Asked(c)) \cup Asked(q)
      BY AskedOfThree
    <2> QED BY <2>1, <2>2, <2>3, <2>4 DEF c
  <1>4. Asked(ImbalanceParams(a)) = Asked(SymbolParams(a))
    <2>1. /\ Asked(Opts(a, {"symbol", "imbalance_action_type"})) = {}
          /\ Asked(Opts(a, {"symbol"})) = {}
      BY AskedOf
    <2> DEFINE c == Category(a)
    <2>2. \A keys : Asked(Opts(a, keys) \cup c) = Asked(Opts(a, keys)) \cup Asked(c)
      BY AskedOf, Zenon
    <2> HIDE DEF c
    <2>3. /\ ImbalanceParams(a) = Opts(a, {"symbol", "imbalance_action_type"}) \cup c
          /\ SymbolParams(a) = Opts(a, {"symbol"}) \cup c
      BY DEF ImbalanceParams, SymbolParams, c
    <2> QED BY <2>1, <2>2, <2>3
  <1>5. \A operation \in {"FuturesSnapshots", "FuturesTicks", "FuturesDepth", "FuturesBars",
                          "FuturesFootprints"} :
          Asked(FuturesQuery(operation, a)) = {"US_FUTURES"}
    BY <1>1, <1>2, <1>3 DEF FuturesQuery
  <1>6. \A operation \in {"CryptoSnapshots", "CryptoBars"} :
          Asked(CryptoQuery(operation, a)) = {"US_CRYPTO"}
    BY <1>1, <1>2 DEF CryptoQuery
  <1>7. \A operation \in {"OptionSnapshots", "OptionTicks", "OptionBars"} :
          Asked(OptionQuery(operation, a)) = {"US_OPTION"}
    BY <1>1, <1>2 DEF OptionQuery
  <1> QED BY <1>4, <1>5, <1>6, <1>7

\* Whatever has an effect goes out by a method Do does not resend.
LEMMA EffectsAreSent == \A op \in Effects : Method(op) \notin IdempotentMethods
  BY DEF Effects, Method, IdempotentMethods, WatchlistPosts, OrderPosts, ComboPosts, StreamPosts,
         TokenPosts, GrantPosts

-----------------------------------------------------------------------------
(***************************************************************************)
(* The configuration.                                                      *)
(***************************************************************************)

\* Every operation is of a service.
LEMMA ServicesOf ==
  ASSUME NEW operation \in Operations
  PROVE  ServiceOf(operation) \in Services
  BY DEF Operations, RootOperations, ServiceOf, Services

\* Where a client sends a request is where the service's host resolves to, whatever
\* its caller's map of overrides holds by then.
LEMMA SentWhereResolved ==
  ASSUME NEW K, NEW S, NEW E, NEW T, NEW O,
         NEW cfg \in [key : K, secret : S, environment : E, token : T, overrides : O],
         NEW callers, NEW operation \in Operations
  PROVE  Destination(NewClient(cfg), operation, callers) = Host(cfg, ServiceOf(operation))
  <1> DEFINE client == NewClient(cfg)
  <1>1. /\ client.cfg = cfg
        /\ client.trade = Host(cfg, "trading") /\ client.marketData = Host(cfg, "marketdata")
        /\ client.events.host = Host(cfg, "events")
        /\ client.streaming.http = Host(cfg, "marketdata")
        /\ client.streaming.broker = Host(cfg, "streaming")
    BY DEF NewClient
  <1>2. CASE operation \in RootOperations
    <2>1. [cfg EXCEPT !.overrides = cfg.overrides] = cfg
      OBVIOUS
    <2>2. OverridesOf(client, callers) = cfg.overrides
      BY <1>1 DEF OverridesOf
    <2> HIDE DEF client
    <2>3. ServiceOf(operation) = "trading"
      BY <1>2 DEF ServiceOf, RootOperations
    <2>4. Destination(client, operation, callers) = Host(cfg, "trading")
      <3>1. Destination(client, operation, callers)
              = Host([client.cfg EXCEPT !.overrides = OverridesOf(client, callers)], "trading")
        BY <1>2 DEF Destination, RootOperations
      <3>2. [client.cfg EXCEPT !.overrides = OverridesOf(client, callers)] = cfg
        BY <1>1, <2>1, <2>2, Zenon
      <3> QED BY <3>1, <3>2
    <2> QED BY <2>3, <2>4 DEF client
  <1>3. CASE operation \in {"trade", "marketdata", "subscribe", "stream", "events"}
    <2> HIDE DEF client
    <2>1. operation \notin RootOperations
      BY <1>3 DEF RootOperations
    <2> QED BY <1>1, <1>3, <2>1 DEF Destination, ServiceOf, client
  <1> QED BY <1>2, <1>3 DEF Operations

\* A client keeps to its hosts, whatever its configuration.
THEOREM EveryClientStays ==
  ASSUME NEW K, NEW S, NEW E, NEW T, NEW O,
         NEW configs \in SUBSET [key : K, secret : S, environment : E, token : T, overrides : O]
  PROVE  StaysWhereBuilt(configs)
  BY SentWhereResolved DEF StaysWhereBuilt

\* The hosts of the sandbox are its own.
LEMMA HostNames ==
  ASSUME NEW r \in Services
  PROVE  /\ \E s \in Services : hosts["sandbox"][r] = hosts["sandbox"][s]
         /\ \A s \in Services : hosts["sandbox"][r] # hosts["production"][s]
  BY DEF hosts, Services

\* A sandbox client leaves the sandbox only through an override, whatever the others.
THEOREM EverySandboxIsolated ==
  ASSUME NEW K, NEW S, NEW E, NEW T, NEW O,
         NEW configs \in SUBSET [key : K, secret : S, environment : E, token : T, overrides : O]
  PROVE  SandboxIsIsolated(configs)
  <1> SUFFICES ASSUME NEW cfg \in configs, cfg.environment = "sandbox", NEW operation \in Operations,
                      Destination(NewClient(cfg), operation, cfg.overrides)
                        # cfg.overrides[ServiceOf(operation)]
      PROVE  LET host == Destination(NewClient(cfg), operation, cfg.overrides) IN
             /\ \E s \in Services : host = hosts["sandbox"][s]
             /\ \A s \in Services : host # hosts["production"][s]
    BY Zenon DEF SandboxIsIsolated
  <1> DEFINE service == ServiceOf(operation)
  <1>1. Destination(NewClient(cfg), operation, cfg.overrides) = Host(cfg, service)
    BY SentWhereResolved
  <1>2. Host(cfg, service) = hosts["sandbox"][service]
    BY <1>1 DEF Host
  <1>3. service \in Services
    BY ServicesOf
  <1> HIDE DEF service
  <1> QED BY <1>1, <1>2, <1>3, HostNames

\* The token goes out with every request, over HTTP and gRPC.
THEOREM EveryRequestCarriesToken == \A configs : TokenOnEveryRequest(configs)
  BY DEF TokenOnEveryRequest, SentToken, NewClient

\* A configuration is a record of its fields.
LEMMA ConfigType ==
  Configs \subseteq [key : {"k"}, secret : {Unset, "s"}, environment : {"sandbox", "production"},
                     token : {Unset, "t"}, overrides : [Services -> {Unset, "proxy.local"}]]
  BY DEF Configs

\* RequestsAreAsAsked: a request goes where NewClient resolved it to, with its token,
\* by a method fit for it, and asks for what the call says.
THEOREM RequestsAsked == Spec => []RequestsAreAsAsked
  <1>1. \A S \in SUBSET Configs : StaysWhereBuilt(S)
    BY ConfigType, EveryClientStays
  <1>2. SandboxIsIsolated(Configs)
    BY ConfigType, EverySandboxIsolated
  <1>3. {c \in Configs : c.token = Unset} \in SUBSET Configs
    OBVIOUS
  <1>4. RequestsAreAsAsked
    BY <1>1, <1>2, <1>3, EveryRequestCarriesToken, EffectsAreSent, EveryCompletedHonoured,
       EveryAssetFixed
    DEF RequestsAreAsAsked
  <1> QED BY <1>4, PTL

-----------------------------------------------------------------------------
(***************************************************************************)
(* Answers.                                                                *)
(***************************************************************************)

\* A decoding is of one kind.
LEMMA Kinds ==
  /\ Error # Nothing
  /\ \A n : Value(n) # Error /\ Value(n) # Nothing
  /\ \A n : Value(n).kind = "value" /\ Value(n).n = n
  /\ Nothing.kind = "nothing" /\ Error.kind = "error"
  BY DEF Value, Nothing, Error

\* Each decoder takes a field left out for nothing, and makes no value of anything
\* that is none.
LEMMA DecodersAgree ==
  ASSUME NEW s
  PROVE  /\ Decimal(s) \in {Nothing, Error, Value(s.n)}
         /\ Millis(s) \in {Nothing, Error, Value(s.n)}
         /\ FlexInt(s) \in {Nothing, Error, Value(s.n)}
         /\ Blank(s) => /\ Decimal(s) = Nothing /\ Time(s) = Nothing
                        /\ Millis(s) = Nothing /\ FlexInt(s) = Nothing
         /\ ~Blank(s) => /\ Decimal(s) # Nothing /\ Time(s) # Nothing /\ FlexInt(s) # Nothing
                         /\ Millis(s) = Nothing => FlexInt(s) = Value(0)
         /\ s.form = "structure" \/ (~Blank(s) /\ s.what = "garbage") =>
              /\ Decimal(s) = Error /\ Time(s) = Error /\ Millis(s) = Error /\ FlexInt(s) = Error
         /\ Time(s).kind = "value" /\ Decimal(s).kind = "value" => s.what = "compact"
  <1> DEFINE time == {"timestamp", "date"}
             number == Integral \cup {"fraction"}
  <1>1. \A denotes : Literal(s, denotes) => ~Blank(s) /\ s.what \in denotes
    BY DEF Literal, Blank
  <1>2. s.form = "structure" => ~Blank(s)
    BY DEF Blank
  <1>3. s.form = "structure" \/ s.what = "garbage" =>
          /\ ~Literal(s, number) /\ ~Literal(s, time)
          /\ ~Literal(s, Integral) /\ ~Literal(s, {"compact"})
    BY DEF Literal, Integral
  <1>4. \A x : Value(x) # Nothing /\ Value(x) # Error /\ Error # Nothing
    BY DEF Value, Error, Nothing
  <1>5. /\ Blank(s) => Decimal(s) = Nothing
        /\ ~Blank(s) => Decimal(s) \in {Error, Value(s.n)}
        /\ ~Blank(s) /\ ~Literal(s, number) => Decimal(s) = Error
    BY <1>1 DEF Decimal
  <1>6. /\ Blank(s) => Time(s) = Nothing
        /\ ~Blank(s) => Time(s) \in {Error, Value(s.n), Value(Midnight(s.n))}
        /\ ~Blank(s) /\ ~Literal(s, time) /\ ~Literal(s, {"compact"}) => Time(s) = Error
    BY <1>1 DEF Time
  <1>7. /\ Blank(s) => FlexInt(s) = Nothing
        /\ ~Blank(s) => FlexInt(s) \in {Error, Value(s.n)}
        /\ ~Blank(s) /\ Literal(s, Integral) => FlexInt(s) = Value(s.n)
        /\ ~Blank(s) /\ ~Literal(s, Integral) => FlexInt(s) = Error
    BY <1>1 DEF FlexInt
  <1>8. /\ Blank(s) => Millis(s) = Nothing
        /\ ~Blank(s) => Millis(s) \in {Error, Value(s.n), Nothing}
        /\ ~Blank(s) /\ Millis(s) = Nothing => Literal(s, Integral) /\ s.n = 0
        /\ ~Blank(s) /\ ~Literal(s, Integral) => Millis(s) = Error
    BY <1>1, <1>4 DEF Millis
  <1>9. Time(s).kind = "value" /\ Decimal(s).kind = "value" => s.what = "compact"
    <2> SUFFICES ASSUME Time(s).kind = "value", Decimal(s).kind = "value"
                 PROVE  s.what = "compact"
      OBVIOUS
    <2>1. Time(s) \notin {Error, Nothing} /\ Decimal(s) \notin {Error, Nothing}
      BY DEF Error, Nothing
    <2>2. Literal(s, number) /\ (Literal(s, time) \/ Literal(s, {"compact"}))
      BY <2>1, <1>5, <1>6
    <2> QED BY <2>2 DEF Literal, Integral
  <1> HIDE DEF time, number
  <1>10. ~Blank(s) /\ Millis(s) = Nothing => FlexInt(s) = Value(0)
    BY <1>7, <1>8
  <1>11. Decimal(s) \in {Nothing, Error, Value(s.n)}
    BY <1>5
  <1>12. Millis(s) \in {Nothing, Error, Value(s.n)}
    BY <1>8
  <1>13. FlexInt(s) \in {Nothing, Error, Value(s.n)}
    BY <1>7
  <1>14. Blank(s) => /\ Decimal(s) = Nothing /\ Time(s) = Nothing
                     /\ Millis(s) = Nothing /\ FlexInt(s) = Nothing
    BY <1>5, <1>6, <1>7, <1>8
  <1>15. ~Blank(s) => Decimal(s) # Nothing /\ Time(s) # Nothing /\ FlexInt(s) # Nothing
    BY <1>4, <1>5, <1>6, <1>7
  <1>16. s.form = "structure" \/ (~Blank(s) /\ s.what = "garbage") =>
           /\ Decimal(s) = Error /\ Time(s) = Error /\ Millis(s) = Error /\ FlexInt(s) = Error
    BY <1>2, <1>3, <1>5, <1>6, <1>7, <1>8
  <1> QED BY <1>9, <1>10, <1>11, <1>12, <1>13, <1>14, <1>15, <1>16

\* A field left out costs nothing, what is no value is an error, and no two number
\* decoders read two values from one text, for any scalar.
THEOREM EveryScalarRead == \A scalars : AbsentIsNotAnError(scalars)
  <1> SUFFICES ASSUME NEW s
      PROVE
        /\ \A d \in DOMAIN Decoders(s) :
             /\ Blank(s) => Decoders(s)[d] = Nothing
             /\ ~Blank(s) /\ Decoders(s)[d] = Nothing => d = "millis" /\ FlexInt(s) = Value(0)
             /\ s.form = "structure" \/ (~Blank(s) /\ s.what = "garbage") => Decoders(s)[d] = Error
        /\ \A d, e \in DOMAIN Decoders(s) \ {"time"} :
             Decoders(s)[d].kind = "value" /\ Decoders(s)[e].kind = "value"
               => Decoders(s)[d] = Decoders(s)[e]
        /\ Time(s).kind = "value" /\ Decimal(s).kind = "value" => s.what = "compact"
    BY Zenon DEF AbsentIsNotAnError
  <1>1. DOMAIN Decoders(s) = {"decimal", "time", "millis", "int"}
    BY DEF Decoders
  <1>2. /\ Decoders(s)["decimal"] = Decimal(s) /\ Decoders(s)["time"] = Time(s)
        /\ Decoders(s)["millis"] = Millis(s) /\ Decoders(s)["int"] = FlexInt(s)
    BY DEF Decoders
  <1>3. ASSUME NEW d \in DOMAIN Decoders(s)
        PROVE  /\ Blank(s) => Decoders(s)[d] = Nothing
               /\ ~Blank(s) /\ Decoders(s)[d] = Nothing => d = "millis" /\ FlexInt(s) = Value(0)
               /\ s.form = "structure" \/ (~Blank(s) /\ s.what = "garbage")
                    => Decoders(s)[d] = Error
    BY <1>1, <1>2, <1>3, DecodersAgree
  <1>4. ASSUME NEW d \in DOMAIN Decoders(s) \ {"time"}, Decoders(s)[d].kind = "value"
        PROVE  Decoders(s)[d] = Value(s.n)
    <2>1. Decoders(s)[d] \in {Nothing, Error, Value(s.n)}
      BY <1>1, <1>2, <1>4, DecodersAgree
    <2>2. Nothing.kind # "value" /\ Error.kind # "value"
      BY DEF Nothing, Error
    <2> QED BY <1>4, <2>1, <2>2
  <1>5. Time(s).kind = "value" /\ Decimal(s).kind = "value" => s.what = "compact"
    BY DecodersAgree
  <1>6. \A d, e \in DOMAIN Decoders(s) \ {"time"} :
          Decoders(s)[d].kind = "value" /\ Decoders(s)[e].kind = "value"
            => Decoders(s)[d] = Decoders(s)[e]
    BY <1>4
  <1> QED BY <1>3, <1>5, <1>6

\* Both shapes of a list are the same list, whatever it holds.
THEOREM EveryListAgrees == \A lists : ListShapesAgree(lists)
  <1> SUFFICES ASSUME NEW items
      PROVE  /\ BarsList(List(items)) = BarsList(Object([result |-> items]))
             /\ ScreenerList(List(items)) = ScreenerList(Object([data |-> items]))
             /\ SectorsPage(List(items)) = SectorsPage(Object([data |-> items]))
             /\ SectorsPage(List(items)).n.key = <<>>
    BY Zenon DEF ListShapesAgree
  <1>1. List(items).form = "list" /\ List(items).items = items
    BY DEF List
  <1>2. \A fields : Object(fields).form = "object" /\ Object(fields).fields = fields
    BY DEF Object
  <1>3. Member(Object([result |-> items]), "result") = items
    BY <1>2 DEF Member
  <1>4. /\ Member(Object([data |-> items]), "data") = items
        /\ Member(Object([data |-> items]), "pagination_key") = <<>>
    BY <1>2 DEF Member
  <1>5. \A name : Wrapped(List(items), name) = Value(items)
    BY <1>1 DEF Wrapped
  <1>6. \A fields, name : Wrapped(Object(fields), name) = Value(Member(Object(fields), name))
    BY <1>2 DEF Wrapped
  <1>7. SectorsPage(List(items)) = Value([sectors |-> items, key |-> <<>>])
    BY <1>1 DEF SectorsPage
  <1>8. SectorsPage(Object([data |-> items])) = Value([sectors |-> items, key |-> <<>>])
    <2>1. Object([data |-> items]).form = "object"
      BY <1>2
    <2> QED BY <1>4, <2>1 DEF SectorsPage
  <1>9. SectorsPage(List(items)).n.key = <<>>
    BY <1>7 DEF Value
  <1>10. BarsList(List(items)) = BarsList(Object([result |-> items]))
    BY <1>3, <1>5, <1>6, Zenon DEF BarsList
  <1>11. ScreenerList(List(items)) = ScreenerList(Object([data |-> items]))
    BY <1>4, <1>5, <1>6, Zenon DEF ScreenerList
  <1> QED BY <1>7, <1>8, <1>9, <1>10, <1>11

\* Of what a change of a watchlist is told: done means an explicit receipt.
LEMMA ReceiptSays ==
  ASSUME NEW body, body.form = "boolean" => body.value \in BOOLEAN,
         WatchlistResult(body) = "done"
  PROVE  \/ body.form = "boolean" /\ body.value
         \/ /\ body.form = "object" /\ "success" \in DOMAIN body.fields
            /\ body.fields["success"] = <<TRUE>>
  <1>1. Succeeded(body) # Error /\ Succeeded(body) # Value(FALSE)
    BY DEF WatchlistResult
  <1>2. CASE body.form = "boolean"
    <2>1. Succeeded(body) = Value(body.value)
      BY <1>2 DEF Succeeded
    <2>2. body.value # FALSE
      BY <1>1, <2>1
    <2> QED BY <1>2, <2>2
  <1>3. CASE body.form # "boolean"
    <2>1. body.form = "object" /\ Member(body, "success") \in {<<TRUE>>, <<FALSE>>}
      BY <1>1, <1>3 DEF Succeeded
    <2>2. Succeeded(body) = Value(Member(body, "success") = <<TRUE>>)
      BY <2>1 DEF Succeeded
    <2>3. Member(body, "success") = <<TRUE>>
      <3>1. (Member(body, "success") = <<TRUE>>) # FALSE
        BY <1>1, <2>2
      <3> QED BY <3>1
    <2>4. "success" \in DOMAIN body.fields /\ Member(body, "success") = body.fields["success"]
      <3>1. <<TRUE>> # <<>>
        OBVIOUS
      <3> QED BY <2>3, <3>1 DEF Member
    <2> QED BY <2>1, <2>3, <2>4
  <1> QED BY <1>2, <1>3

\* The object a failed mutation is answered with.
Refusal == Object([success |-> <<FALSE>>])

\* It is a failure to every change of a watchlist, and an ID to none.
LEMMA RefusalSays ==
  WatchlistResult(Refusal) = "watchlist failed" /\ CreateResult(Refusal).id = NoID
  <1>1. Refusal.form = "object" /\ Refusal.fields = [success |-> <<FALSE>>]
    BY DEF Refusal, Object
  <1>2. Member(Refusal, "success") = <<FALSE>> /\ Member(Refusal, "watchlist_id") = <<>>
    <2>1. DOMAIN Refusal.fields = {"success"} /\ Refusal.fields["success"] = <<FALSE>>
      <3>1. \A v : DOMAIN [success |-> v] = {"success"} /\ [success |-> v]["success"] = v
        OBVIOUS
      <3> QED BY <1>1, <3>1, Zenon
    <2>2. "watchlist_id" \notin DOMAIN Refusal.fields
      BY <2>1
    <2> QED BY <1>1, <2>1, <2>2, Zenon DEF Member
  <1>3. Succeeded(Refusal) = Value(FALSE)
    <2>1. <<FALSE>> # <<TRUE>>
      OBVIOUS
    <2>2. (Member(Refusal, "success") = <<TRUE>>) = FALSE
      BY <1>2, <2>1
    <2>3. Succeeded(Refusal) = Value(Member(Refusal, "success") = <<TRUE>>)
      BY <1>1, <1>2 DEF Succeeded
    <2> QED BY <2>2, <2>3
  <1>4. Value(FALSE) # Error
    BY DEF Value, Error
  <1>5. <<>> # <<NotText>>
    OBVIOUS
  <1> QED BY <1>1, <1>2, <1>3, <1>4, <1>5 DEF WatchlistResult, CreateResult

\* A change is reported done on an explicit receipt alone, and an ID is the body's.
THEOREM EveryReceiptExplicit ==
  ASSUME NEW bodies,
         \A body \in bodies : /\ body.form = "boolean" => body.value \in BOOLEAN
                              /\ \/ Member(body, "watchlist_id") = <<>>
                                 \/ \E v : Member(body, "watchlist_id") = <<v>>
  PROVE  ReceiptIsExplicit(bodies)
  <1>1. ASSUME NEW body \in bodies, CreateResult(body).id # NoID
        PROVE  /\ CreateResult(body).err = "none"
               /\ body.form = "object" /\ "watchlist_id" \in DOMAIN body.fields
               /\ body.fields["watchlist_id"] = <<CreateResult(body).id>>
    <2> DEFINE id == Member(body, "watchlist_id")
    <2>1. /\ id # <<>>
          /\ CreateResult(body) = [err |-> "none", id |-> id[1]]
      BY <1>1 DEF CreateResult
    <2>2. PICK v : id = <<v>>
      BY <2>1
    <2>3. CreateResult(body).id = v /\ CreateResult(body).err = "none"
      BY <2>1, <2>2
    <2>4. /\ body.form = "object" /\ "watchlist_id" \in DOMAIN body.fields
          /\ id = body.fields["watchlist_id"]
      BY <2>1 DEF Member
    <2> QED BY <2>2, <2>3, <2>4
  <1>2. ASSUME NEW body \in bodies, body = Object([success |-> <<FALSE>>])
        PROVE  WatchlistResult(body) = "watchlist failed" /\ CreateResult(body).id = NoID
    BY <1>2, RefusalSays, Zenon DEF Refusal
  <1> QED BY <1>1, <1>2, ReceiptSays DEF ReceiptIsExplicit

\* A token that was just issued is usable, whenever that is and whatever the leeway.
THEOREM EveryFreshTokenUsable ==
  ASSUME NEW bodies, NEW now \in Int, NEW leeway \in Int,
         \A body \in bodies : body.expires_in.n \in Int /\ body.rt_expires_in.n \in Int
  PROVE  FreshTokenIsUsable(bodies, now, leeway)
  <1> SUFFICES ASSUME NEW body \in bodies, TokenDecodes(body),
                      Time(body.created_at) \in {Nothing, Value(now)},
                      Or0(FlexInt(body.expires_in)) > leeway, Or0(FlexInt(body.rt_expires_in)) > 0
      PROVE  LET tok == TokenOf(body, now) IN
             /\ now + leeway < tok.createdAt + tok.accessLife
             /\ now < tok.createdAt + tok.refreshLife
    BY Zenon DEF FreshTokenIsUsable
  <1> DEFINE tok == TokenOf(body, now)
  <1>1. ASSUME NEW s, s.n \in Int
        PROVE  Or0(FlexInt(s)) \in Int
    <2>1. FlexInt(s) \in {Nothing, Error, Value(s.n)}
      BY DecodersAgree
    <2> QED BY <1>1, <2>1, Kinds DEF Or0
  <1>2. tok.createdAt = now
    BY Kinds DEF TokenOf, Or0
  <1>3. /\ tok.accessLife = Or0(FlexInt(body.expires_in))
        /\ tok.refreshLife = Or0(FlexInt(body.rt_expires_in))
    BY DEF TokenOf
  <1>4. tok.accessLife \in Int /\ tok.refreshLife \in Int
    BY <1>1, <1>3
  <1> HIDE DEF tok
  <1>5. now + leeway < tok.createdAt + tok.accessLife
    BY <1>2, <1>3, <1>4
  <1>6. now < tok.createdAt + tok.refreshLife
    BY <1>2, <1>3, <1>4
  <1> QED BY <1>5, <1>6 DEF tok

\* AnswersAreRead: the wire types, the list types, successBody and the token response
\* are read for what they say.
THEOREM AnswersRead == Spec => []AnswersAreRead
  <1>1. \A body \in Receipts :
          /\ body.form = "boolean" => body.value \in BOOLEAN
          /\ \/ Member(body, "watchlist_id") = <<>>
             \/ \E v : Member(body, "watchlist_id") = <<v>>
    <2> SUFFICES ASSUME NEW body \in Receipts
                 PROVE  /\ body.form = "boolean" => body.value \in BOOLEAN
                        /\ \/ Member(body, "watchlist_id") = <<>>
                           \/ \E v : Member(body, "watchlist_id") = <<v>>
      OBVIOUS
    <2>1. CASE body \in {[form |-> "boolean", value |-> b] : b \in BOOLEAN}
      BY <2>1 DEF Member
    <2>2. CASE \E v : body = Object([success |-> <<v>>])
      BY <2>2 DEF Member, Object
    <2>3. CASE \E v : body = Object([watchlist_id |-> <<v>>])
      BY <2>3 DEF Member, Object
    <2>4. CASE body = Object([error_code |-> <<"no">>])
      BY <2>4 DEF Member, Object
    <2>5. CASE body = NullBody \/ body = List(<<>>)
      BY <2>5 DEF Member, NullBody, List
    <2> QED BY <2>1, <2>2, <2>3, <2>4, <2>5, Zenon DEF Receipts
  <1> DEFINE issued == [created_at : Created, expires_in : Lives, rt_expires_in : Lives]
  <1>2. \A body \in issued : body.expires_in.n \in Int /\ body.rt_expires_in.n \in Int
    <2>1. \A s \in Lives : s.n \in Int
      BY DEF Lives, Scalar
    <2> QED BY <2>1
  <1>3. ReceiptIsExplicit(Receipts)
    BY <1>1, EveryReceiptExplicit
  <1>4. FreshTokenIsUsable(issued, 20, 1)
    <2> HIDE DEF issued
    <2> QED BY <1>2, EveryFreshTokenUsable
  <1>5. AnswersAreRead
    BY <1>3, <1>4, EveryScalarRead, EveryListAgrees DEF AnswersAreRead
  <1> QED BY <1>5, PTL

-----------------------------------------------------------------------------
(***************************************************************************)
(* The signature.                                                          *)
(***************************************************************************)

\* Merge is g, and f beside it.
LEMMA MergedFields ==
  ASSUME NEW f, NEW g
  PROVE  /\ \A k \in DOMAIN g : Merge(f, g)[k] = g[k] /\ k \in DOMAIN Merge(f, g)
         /\ \A k \in DOMAIN f \ DOMAIN g : Merge(f, g)[k] = f[k] /\ k \in DOMAIN Merge(f, g)
  BY DEF Merge

\* The headers attempt sets of its own are none of the signature's.
LEMMA ClientHeadersApart ==
  ASSUME NEW req
  PROVE  ClientHeaders(req) \cap SignatureHeaders = {}
  BY DEF ClientHeaders, SignatureHeaders

\* What attempt signs is what the server reads from what it sends, whatever headers
\* the authorizer adds; they arrive unless they collide.
THEOREM EverySignatureVerifies ==
  ASSUME NEW requests, NEW auths,
         \A req \in requests, auth \in auths : DOMAIN auth \cap ClientHeaders(req) = {}
  PROVE  Verifies(requests, auths)
  <1> DEFINE headers == NewHeaders("app", "s1")
  <1>1. DOMAIN headers = SignatureHeaders /\ headers = [h \in SignatureHeaders |-> headers[h]]
    BY DEF NewHeaders
  <1> HIDE DEF headers
  <1>2. ASSUME NEW req \in requests, NEW auth \in auths
        PROVE  LET sent == Attempt(req, auth, "app", "s1") IN
               /\ sent.signature = Canonical(sent.req, Received(sent.headers))
               /\ \A h \in DOMAIN auth \ SignatureHeaders : sent.headers[h] = auth[h]
    <2> DEFINE rest == [h \in ClientHeaders(req) |-> <<"client">>]
               sent == Attempt(req, auth, "app", "s1")
    <2>1. sent.req = req /\ sent.signature = Canonical(req, headers)
          /\ sent.headers = Merge(Merge(auth, headers), rest)
      BY DEF Attempt, SentHeaders, headers
    <2>2. DOMAIN rest = ClientHeaders(req)
      OBVIOUS
    <2> HIDE DEF sent, rest
    <2>3. \A h \in SignatureHeaders : sent.headers[h] = headers[h]
      BY <1>1, <2>1, <2>2, MergedFields, ClientHeadersApart
    <2>4. Received(sent.headers) = headers
      BY <1>1, <2>3 DEF Received
    <2>5. \A h \in DOMAIN auth \ SignatureHeaders : sent.headers[h] = auth[h]
      BY <1>1, <2>1, <2>2, MergedFields
    <2> QED BY <2>1, <2>4, <2>5 DEF sent
  <1>3. ASSUME NEW body, NEW token
        PROVE  LET sent == StreamAttempt(body, token, "app", "s1") IN
               /\ sent.signature = CanonicalStream(sent.body, Received(sent.metadata))
               /\ token # Empty => sent.metadata["x-access-token"] = <<token>>
    <2> DEFINE extra == IF token = Empty THEN <<>> ELSE [k \in {"x-access-token"} |-> <<token>>]
               sent == StreamAttempt(body, token, "app", "s1")
    <2>1. sent.body = body /\ sent.signature = CanonicalStream(body, headers)
          /\ sent.metadata = Merge(headers, extra)
      BY DEF StreamAttempt, headers
    <2>2. /\ DOMAIN extra \subseteq {"x-access-token"}
          /\ token # Empty => "x-access-token" \in DOMAIN extra /\ extra["x-access-token"] = <<token>>
      OBVIOUS
    <2> HIDE DEF sent, extra
    <2>3. "x-access-token" \notin SignatureHeaders
      BY DEF SignatureHeaders
    <2>4. \A h \in SignatureHeaders : sent.metadata[h] = headers[h]
      BY <1>1, <2>1, <2>2, <2>3, MergedFields
    <2>5. Received(sent.metadata) = headers
      BY <1>1, <2>4 DEF Received
    <2>6. token # Empty => sent.metadata["x-access-token"] = <<token>>
      BY <2>1, <2>2, MergedFields
    <2> QED BY <2>1, <2>5, <2>6 DEF sent
  <1> QED BY <1>2, <1>3, Zenon DEF Verifies

\* SignatureVerifies: whatever headers the authorizer adds, in every state.
THEOREM SignaturesVerify == Spec => []SignatureVerifies
  <1>1. \A auth \in AuthHeaders : DOMAIN auth \subseteq {"x-access-token", "x-signature-nonce"}
    BY DEF AuthHeaders
  <1>2. \A req : ClientHeaders(req) \cap {"x-access-token", "x-signature-nonce"} = {}
    BY DEF ClientHeaders
  <1>3. \A req \in SignedRequests, auth \in AuthHeaders : DOMAIN auth \cap ClientHeaders(req) = {}
    BY <1>1, <1>2
  <1>4. SignatureVerifies
    BY <1>3, EverySignatureVerifies DEF SignatureVerifies
  <1> QED BY <1>4, PTL

-----------------------------------------------------------------------------
(***************************************************************************)
(* Delays: positive and capped, also where the doubling overflows, never   *)
(* shrinking; and a Retry-After that fits a Duration is kept.              *)
(***************************************************************************)

\* The powers of two are what the retries take them for: subsets are counted, as `^`
\* is the provers' only through the number of them.
LEMMA PowersDouble ==
  ASSUME NEW n \in Nat
  PROVE  2^n \in Nat \ {0} /\ 2^(n + 1) = 2 * 2^n
  <1> DEFINE S == 1..n
             T == 1..(n + 1)
             Half == (SUBSET S) \X (1..2)
             split == [X \in SUBSET T |-> <<X \ {n + 1}, IF n + 1 \in X THEN 2 ELSE 1>>]
  <1>1. /\ IsFiniteSet(S) /\ Cardinality(S) = n
        /\ IsFiniteSet(T) /\ Cardinality(T) = n + 1
        /\ IsFiniteSet(1..2) /\ Cardinality(1..2) = 2
    <2>1. ASSUME NEW k \in Nat
          PROVE  IsFiniteSet(1..k) /\ Cardinality(1..k) = k
      <3>1. /\ IsFiniteSet(1..k)
            /\ Cardinality(1..k) = IF 1 > k THEN 0 ELSE k - 1 + 1
        BY FS_Interval
      <3> QED BY <3>1
    <2> QED BY <2>1
  <1>2. S \subseteq T /\ n + 1 \in T /\ n + 1 \notin S /\ T \ {n + 1} = S
    OBVIOUS
  <1> HIDE DEF S, T
  <1>3. /\ IsFiniteSet(SUBSET S) /\ Cardinality(SUBSET S) = 2^n
        /\ IsFiniteSet(SUBSET T) /\ Cardinality(SUBSET T) = 2^(n + 1)
    BY <1>1, FS_SUBSET
  <1>4. 2^n \in Nat \ {0}
    <2>1. SUBSET S # {}
      OBVIOUS
    <2> QED BY <1>3, <2>1, FS_CardinalityType, FS_EmptySet
  <1>5. Cardinality(Half) = 2^n * 2
    <2>1. Cardinality((SUBSET S) \X (1..2)) = Cardinality(SUBSET S) * Cardinality(1..2)
      BY <1>1, <1>3, FS_Product
    <2> QED BY <1>1, <1>3, <2>1
  <1>6. split \in Bijection(SUBSET T, Half)
    <2>1. split \in [SUBSET T -> Half]
      BY <1>2
    <2>2. ASSUME NEW X \in SUBSET T, NEW Y \in SUBSET T, split[X] = split[Y]
          PROVE  X = Y
      <3>1. X \ {n + 1} = Y \ {n + 1} /\ (n + 1 \in X <=> n + 1 \in Y)
        BY <2>2
      <3> QED BY <3>1
    <2>3. ASSUME NEW h \in Half
          PROVE  \E X \in SUBSET T : split[X] = h
      <3>1. PICK Y \in SUBSET S, i \in 1..2 : h = <<Y, i>>
        OBVIOUS
      <3> DEFINE X == IF i = 2 THEN Y \cup {n + 1} ELSE Y
      <3>2. X \in SUBSET T /\ X \ {n + 1} = Y /\ (n + 1 \in X <=> i = 2)
        BY <1>2
      <3>3. split[X] = h
        BY <3>1, <3>2
      <3> QED BY <3>2, <3>3
    <2> HIDE DEF split, Half
    <2> QED BY <2>1, <2>2, <2>3, Fun_IsBij
  <1>7. Cardinality(Half) = Cardinality(SUBSET T)
    BY <1>3, <1>6, FS_Bijection DEF ExistsBijection
  <1> QED BY <1>3, <1>4, <1>5, <1>7

USE DurationAssumption

\* What a conversion gives is a Duration, whether or not its argument fits one.
LEMMA ConvertedIsDuration ==
  ASSUME NEW f, NEW d \in Converted(f)
  PROVE  d \in Durations
  <1>1. CASE f \in Durations
    BY <1>1 DEF Converted
  <1>2. CASE f \notin Durations
    <2>1. d \in {-MaxDuration - 1, MaxDuration}
      BY <1>2 DEF Converted
    <2> QED BY <2>1 DEF Durations
  <1> QED BY <1>1, <1>2

\* backoff's last test: what it returns is positive and no more than the cap.
LEMMA CappedIsBounded ==
  ASSUME NEW d \in Durations, NEW max \in Durations, max > 0
  PROVE  0 < Capped(d, max) /\ Capped(d, max) <= max
  BY DEF Capped, Durations

\* RetryPolicy.backoff waits, and no longer than its cap, for all settings and
\* any number of attempts: `d > max || d <= 0` catches every overflow.
THEOREM DelaysAreBounded == DelayBounded(Durations, Durations, Nat \ {0})
  <1> SUFFICES ASSUME NEW base \in Durations, NEW max \in Durations, NEW n \in Nat \ {0},
                      NEW d \in Delays(base, max, n)
               PROVE  0 < d /\ d <= MaxDelay(max)
    BY DEF DelayBounded
  <1>1. MaxDelay(max) \in Durations /\ MaxDelay(max) > 0
    BY DEF MaxDelay, Durations
  <1>2. PICK c \in Converted(BaseDelay(base) * 2 ^ (n - 1)) : d = Capped(c, MaxDelay(max))
    BY DEF Delays
  <1>3. c \in Durations
    BY <1>2, ConvertedIsDuration
  <1> QED BY <1>1, <1>2, <1>3, CappedIsBounded

\* The remainder of a number below the divisor is the number.
LEMMA RemainderOfSmaller ==
  ASSUME NEW a \in Nat, NEW b \in Nat, a < b
  PROVE  a % b = a
  BY Z3

\* A Duration does not wrap.
LEMMA NoWrap ==
  ASSUME NEW n \in 0..MaxDuration
  PROVE  WrapAround(n) = n
  <1> DEFINE a == n + MaxDuration + 1
             b == 2 * (MaxDuration + 1)
  <1>1. a \in Nat /\ b \in Nat /\ a < b
    OBVIOUS
  <1>2. a % b = a
    <2> HIDE DEF a, b
    <2> QED BY <1>1, RemainderOfSmaller
  <1> QED BY <1>2 DEF WrapAround

\* A product is no smaller than its factor.
LEMMA FactorIsSmaller ==
  ASSUME NEW s \in Nat, NEW k \in Nat \ {0}
  PROVE  s * k \in Nat /\ s <= s * k
  <1>1. s * k = s + s * (k - 1)
    OBVIOUS
  <1>2. s * (k - 1) \in Nat
    OBVIOUS
  <1> QED BY <1>1, <1>2

\* retryAfterOf gives the seconds of the header, for any number of them that a
\* Duration holds.
THEOREM RetryAfterIsKept == RetryAfterIsWhatWasAsked(Nat)
  <1> SUFFICES ASSUME NEW s \in Nat, s * Second <= MaxDuration
               PROVE  RetryAfter([kind |-> "seconds", value |-> s], 0) = s * Second
    BY DEF RetryAfterIsWhatWasAsked
  <1>1. s * Second \in Nat /\ s <= s * Second
    BY FactorIsSmaller
  <1>2. s * Second \in 0..MaxDuration /\ s \in 0..MaxDuration
    BY <1>1
  <1>3. RetryAfter([kind |-> "seconds", value |-> s], 0) = WrapAround(s * Second)
    BY <1>2 DEF RetryAfter
  <1> QED BY <1>2, <1>3, NoWrap

\* The delay before an attempt is the doubled base, capped; past the overflow it is
\* the cap, whichever way the conversion goes.
LEMMA DelayOf ==
  ASSUME NEW base \in Durations, NEW max \in Durations, NEW n \in Nat \ {0},
         NEW d \in Delays(base, max, n)
  PROVE  LET f == BaseDelay(base) * 2 ^ (n - 1) IN
         d = IF f > MaxDelay(max) THEN MaxDelay(max) ELSE f
  <1> DEFINE p == 2 ^ (n - 1)
             b == BaseDelay(base)
             m == MaxDelay(max)
             f == b * p
  <1>1. b \in Nat \ {0} /\ m \in 1..MaxDuration
    BY DEF BaseDelay, MaxDelay, Durations
  <1>2. p \in Nat \ {0}
    <2>1. n - 1 \in Nat
      OBVIOUS
    <2> QED BY <2>1, PowersDouble
  <1>3. PICK c \in Converted(f) : d = Capped(c, m)
    BY DEF Delays
  <1> HIDE DEF p, b, m
  <1>4. f \in Nat \ {0}
    BY <1>1, <1>2
  <1> HIDE DEF f
  <1>5. CASE f <= MaxDuration
    <2>1. c = f
      BY <1>1, <1>3, <1>4, <1>5 DEF Converted, Durations
    <2> QED BY <1>1, <1>3, <1>4, <2>1 DEF Capped, f, p, b, m
  <1>6. CASE f > MaxDuration
    <2>1. c \in {-MaxDuration - 1, MaxDuration}
      BY <1>1, <1>3, <1>4, <1>6 DEF Converted, Durations
    <2>2. d = m
      BY <1>1, <1>3, <2>1 DEF Capped
    <2> QED BY <1>1, <1>4, <1>6, <2>2 DEF f, p, b, m
  <1> QED BY <1>1, <1>4, <1>5, <1>6

\* The delays never shrink, for all settings and however often they are doubled.
THEOREM DelaysNeverShrink == DelayGrows(Durations, Durations, Nat \ {0})
  <1> SUFFICES ASSUME NEW base \in Durations, NEW max \in Durations, NEW n \in Nat \ {0},
                      NEW d \in Delays(base, max, n), NEW e \in Delays(base, max, n + 1)
               PROVE  d <= e
    BY DEF DelayGrows
  <1> DEFINE p == 2 ^ (n - 1)
             q == 2 ^ n
             b == BaseDelay(base)
             m == MaxDelay(max)
  <1>1. b \in Nat \ {0} /\ m \in Nat \ {0}
    BY DEF BaseDelay, MaxDelay, Durations
  <1>2. p \in Nat /\ q = 2 * p
    <2>1. n - 1 \in Nat /\ (n - 1) + 1 = n
      OBVIOUS
    <2> QED BY <2>1, PowersDouble
  <1>3. d = IF b * p > m THEN m ELSE b * p
    BY DelayOf
  <1>4. e = IF b * q > m THEN m ELSE b * q
    <2>1. n + 1 \in Nat \ {0} /\ (n + 1) - 1 = n
      OBVIOUS
    <2> QED BY <2>1, DelayOf
  <1> HIDE DEF p, q, b, m
  <1>5. b * p \in Nat /\ b * q = b * p + b * p
    BY <1>1, <1>2
  <1> DEFINE x == b * p
             y == b * q
  <1> HIDE DEF x, y
  <1>6. x \in Nat /\ y = x + x /\ d = (IF x > m THEN m ELSE x) /\ e = (IF y > m THEN m ELSE y)
    BY <1>3, <1>4, <1>5 DEF x, y
  <1> QED BY <1>1, <1>6

\* DelaysAreSound: RetryPolicy.backoff and APIError.RetryAfter on the settings tried.
THEOREM DelaysSound == Spec => []DelaysAreSound
  <1>1. DelayBounded(Settings, Settings, 1..14)
    BY DelaysAreBounded DEF DelayBounded, Settings
  <1>2. DelayGrows(Settings, Settings, 1..14)
    BY DelaysNeverShrink DEF DelayGrows, Settings
  <1>3. RetryAfterIsWhatWasAsked(0..200)
    BY RetryAfterIsKept DEF RetryAfterIsWhatWasAsked
  <1>4. DelaysAreSound
    BY <1>1, <1>2, <1>3 DEF DelaysAreSound
  <1> QED BY <1>4, PTL

=============================================================================
