-------------------------------- MODULE Doer --------------------------------
(***************************************************************************)
(* transport.Doer: one signed HTTP request with its attempts.  Each call   *)
(* of Do is a process; the network holds the copies its attempts sent, the *)
(* server executes or refuses a copy at any time, also after the client    *)
(* stopped waiting for it, and answers with a status.                      *)
(*                                                                         *)
(* A status is abstracted to the classes Do tells apart.  "empty" and      *)
(* "garbled" are 2xx answers whose body is missing or does not decode.     *)
(* A redirect (the client refuses to follow it) and an oversized success   *)
(* body are transport failures of a copy the server answered: "unusable".  *)
(***************************************************************************)
EXTENDS Integers

CONSTANTS
  Requests,     \* calls of Do
  Reads,        \* those whose method is GET, HEAD or OPTIONS
  MaxAttempts   \* RetryPolicy.MaxAttempts

ASSUME RequestsAssumption == Reads \subseteq Requests
ASSUME AttemptsAssumption == MaxAttempts \in Int

VARIABLES
  pc,        \* where each call is in Do
  attempt,   \* the attempt it is in, from 0
  wire,      \* the attempts whose copy is on its way to the server
  reply,     \* the server's answer to each attempt
  executed,  \* how often the server executed the request
  cancelled, \* the context of the call is done
  lastErr,   \* Do's lastErr
  result     \* what Do returned

vars == <<pc, attempt, wire, reply, executed, cancelled, lastErr, result>>

\* attempts := max(d.Retry.MaxAttempts, 1)
Limit == IF MaxAttempts > 1 THEN MaxAttempts ELSE 1
Attempts == 0..(Limit - 1)

Accepted == {"ok", "empty", "garbled"}
Refused  == {"429", "4xx"}
Statuses == Accepted \cup Refused \cup {"5xx", "unusable"}
Errors   == {"transport"} \cup Refused \cup {"5xx"}

NoResult == [kind |-> "open", last |-> "none"]
Results  == [kind : {"open", "ok", "body", "decode", "authorize", "encode", "context"}
                     \cup Errors,
             last : {"none"} \cup Errors]

Idempotent(r) == r \in Reads

\* Faulty variant of RetryTransport: every lost request is sent again.
RetryLost(r) == TRUE

RetryTransport(r) == Idempotent(r)

\* Faulty variants of RetryStatus: throttling is retried; a write is retried.
RetryThrottled(r, status) == Idempotent(r) /\ status \in {"5xx", "429"}
RetryServerError(r, status) == status = "5xx"

RetryStatus(r, status) == Idempotent(r) /\ status = "5xx"

-----------------------------------------------------------------------------
(* Steps of Do. *)

Return(r, kind, last) ==
  /\ pc' = [pc EXCEPT ![r] = "done"]
  /\ result' = [result EXCEPT ![r] = [kind |-> kind, last |-> last]]
  /\ UNCHANGED attempt

\* Body and Form together, or a body that does not marshal.
RefuseRequest(r) ==
  /\ pc[r] = "start"
  /\ Return(r, "encode", "none")
  /\ UNCHANGED <<wire, reply, executed, cancelled, lastErr>>

\* The Authorizer is called once, before the loop; its error ends the request.
AuthorizerFails(r) ==
  /\ pc[r] = "start"
  /\ Return(r, "authorize", "none")
  /\ UNCHANGED <<wire, reply, executed, cancelled, lastErr>>

Authorized(r) ==
  /\ pc[r] = "start"
  /\ pc' = [pc EXCEPT ![r] = "sending"]
  /\ UNCHANGED <<attempt, wire, reply, executed, cancelled, lastErr, result>>

\* The attempt is signed and handed to the HTTP client.
Send(r) ==
  /\ pc[r] = "sending" /\ ~cancelled[r]
  /\ wire' = [wire EXCEPT ![r] = @ \cup {attempt[r]}]
  /\ pc' = [pc EXCEPT ![r] = "awaiting"]
  /\ UNCHANGED <<attempt, reply, executed, cancelled, lastErr, result>>

\* Faulty variant of RetryOrReturn: one attempt too many.
RetryOnceMore(r, retry, err) ==
  /\ lastErr' = [lastErr EXCEPT ![r] = err]
  /\ IF retry /\ attempt[r] < Limit
       THEN /\ pc' = [pc EXCEPT ![r] = "backoff"]
            /\ attempt' = [attempt EXCEPT ![r] = @ + 1]
            /\ UNCHANGED result
       ELSE Return(r, err, "none")

\* Another attempt after a backoff if one is allowed and left, else the error.
RetryOrReturn(r, retry, err) ==
  /\ lastErr' = [lastErr EXCEPT ![r] = err]
  /\ IF retry /\ attempt[r] < Limit - 1
       THEN /\ pc' = [pc EXCEPT ![r] = "backoff"]
            /\ attempt' = [attempt EXCEPT ![r] = @ + 1]
            /\ UNCHANGED result
       ELSE Return(r, err, "none")

\* Faulty variant of TransportFails: the HTTP client has no timeout.
NoTimeout(r) ==
  /\ pc[r] \in {"sending", "awaiting"} /\ cancelled[r]
  /\ RetryOrReturn(r, RetryTransport(r), "transport")
  /\ UNCHANGED <<wire, reply, executed, cancelled>>

\* No connection, a timeout, a broken response or the context: the copy may be
\* on its way, executed, or never sent.
TransportFails(r) ==
  /\ pc[r] \in {"sending", "awaiting"}
  /\ RetryOrReturn(r, RetryTransport(r), "transport")
  /\ UNCHANGED <<wire, reply, executed, cancelled>>

Answer(r) == reply[r][attempt[r]]

ReceiveUnusable(r) ==
  /\ pc[r] = "awaiting" /\ Answer(r) = "unusable"
  /\ RetryOrReturn(r, RetryTransport(r), "transport")
  /\ UNCHANGED <<wire, reply, executed, cancelled>>

\* Faulty variant of ReceiveSuccess: a redirect counts as success.
RedirectIsSuccess(r) ==
  /\ pc[r] = "awaiting" /\ Answer(r) \in Accepted \cup {"unusable"}
  /\ Return(r, "ok", "none")
  /\ UNCHANGED <<wire, reply, executed, cancelled, lastErr>>

\* A caller that passes no out does not look at the body.
ReceiveSuccess(r) ==
  /\ pc[r] = "awaiting" /\ Answer(r) \in Accepted
  /\ \/ Return(r, "ok", "none")
     \/ Answer(r) = "empty" /\ Return(r, "body", "none")
     \/ Answer(r) = "garbled" /\ Return(r, "decode", "none")
  /\ UNCHANGED <<wire, reply, executed, cancelled, lastErr>>

ReceiveError(r) ==
  /\ pc[r] = "awaiting" /\ Answer(r) \in Refused \cup {"5xx"}
  /\ RetryOrReturn(r, RetryStatus(r, Answer(r)), Answer(r))
  /\ UNCHANGED <<wire, reply, executed, cancelled>>

BackoffEnds(r) ==
  /\ pc[r] = "backoff"
  /\ pc' = [pc EXCEPT ![r] = "sending"]
  /\ UNCHANGED <<attempt, wire, reply, executed, cancelled, lastErr, result>>

\* Faulty variant of BackoffCancelled: only the context's error is returned.
ForgetLastError(r) ==
  /\ pc[r] = "backoff" /\ cancelled[r]
  /\ Return(r, "context", "none")
  /\ UNCHANGED <<wire, reply, executed, cancelled, lastErr>>

\* Join(ctx.Err(), lastErr)
BackoffCancelled(r) ==
  /\ pc[r] = "backoff" /\ cancelled[r]
  /\ Return(r, "context", lastErr[r])
  /\ UNCHANGED <<wire, reply, executed, cancelled, lastErr>>

-----------------------------------------------------------------------------
(* The environment. *)

Cancel(r) ==
  /\ ~cancelled[r] /\ pc[r] # "done"
  /\ cancelled' = [cancelled EXCEPT ![r] = TRUE]
  /\ UNCHANGED <<pc, attempt, wire, reply, executed, lastErr, result>>

\* A copy arrives and is executed: the answer is a success, unless the server
\* fails after executing it.
ServerExecutes(r, n) ==
  /\ n \in wire[r]
  /\ wire' = [wire EXCEPT ![r] = @ \ {n}]
  /\ executed' = [executed EXCEPT ![r] = @ + 1]
  /\ \E s \in Accepted \cup {"5xx", "unusable"} : reply' = [reply EXCEPT ![r][n] = s]
  /\ UNCHANGED <<pc, attempt, cancelled, lastErr, result>>

\* A copy arrives and is not executed.
ServerRefuses(r, n) ==
  /\ n \in wire[r]
  /\ wire' = [wire EXCEPT ![r] = @ \ {n}]
  /\ \E s \in Refused \cup {"5xx", "unusable"} : reply' = [reply EXCEPT ![r][n] = s]
  /\ UNCHANGED <<pc, attempt, executed, cancelled, lastErr, result>>

Init ==
  /\ pc = [r \in Requests |-> "start"]
  /\ attempt = [r \in Requests |-> 0]
  /\ wire = [r \in Requests |-> {}]
  /\ reply = [r \in Requests |-> [n \in Attempts |-> "none"]]
  /\ executed = [r \in Requests |-> 0]
  /\ cancelled = [r \in Requests |-> FALSE]
  /\ lastErr = [r \in Requests |-> "none"]
  /\ result = [r \in Requests |-> NoResult]

DoSteps(r) ==
  \/ RefuseRequest(r) \/ AuthorizerFails(r) \/ Authorized(r) \/ Send(r)
  \/ TransportFails(r) \/ ReceiveUnusable(r) \/ ReceiveSuccess(r) \/ ReceiveError(r)
  \/ BackoffEnds(r) \/ BackoffCancelled(r)

Next ==
  \E r \in Requests :
    \/ DoSteps(r) \/ Cancel(r)
    \/ \E n \in Attempts : ServerExecutes(r, n) \/ ServerRefuses(r, n)

Spec == Init /\ [][Next]_vars

(***************************************************************************)
(* A call keeps running: the HTTP client's timeout ends a silent attempt   *)
(* and a backoff is a timer.  Nothing obliges the server to answer.        *)
(***************************************************************************)
FairSpec == Spec /\ \A r \in Requests : WF_vars(DoSteps(r))

-----------------------------------------------------------------------------
(* Properties. *)

\* Every variable has its type; an attempt never passes the policy's limit.
TypeOK ==
  /\ pc \in [Requests -> {"start", "sending", "awaiting", "backoff", "done"}]
  /\ attempt \in [Requests -> Attempts]
  /\ wire \in [Requests -> SUBSET Attempts]
  /\ reply \in [Requests -> [Attempts -> Statuses \cup {"none"}]]
  /\ executed \in [Requests -> Nat]
  /\ cancelled \in [Requests -> BOOLEAN]
  /\ lastErr \in [Requests -> Errors \cup {"none"}]
  /\ result \in [Requests -> Results]

\* A POST, PUT or DELETE is executed at most once, counting the copies still on
\* their way: no failure makes Do send a write again.
WriteAtMostOnce ==
  \A r \in Requests \ Reads :
    /\ wire[r] = {} \/ executed[r] = 0
    /\ executed[r] <= 1

\* A write the server refused was not executed and never will be: its caller
\* may correct it and send another.
RefusalIsFinal ==
  \A r \in Requests \ Reads :
    result[r].kind \in Refused => executed[r] = 0 /\ wire[r] = {}

\* Do reports success only for a request the server executed.
SuccessWasExecuted ==
  \A r \in Requests : result[r].kind = "ok" => executed[r] > 0

\* A context that ends a backoff does not hide why Do was retrying: the error
\* it returns joins the failure of the last attempt.  Nothing else is waited
\* for: a throttled request or a refused one is never on its way to be repeated.
CancelKeepsLastError ==
  \A r \in Requests :
    result[r].kind = "context" => result[r].last \in {"5xx", "transport"}

\* Every call of Do returns, with the server silent and the context never done.
EveryDoReturns == \A r \in Requests : <>(pc[r] = "done")

-----------------------------------------------------------------------------
(* Do implements the exchange a caller may rely on. *)

Outcome(r) ==
  CASE result[r].kind = "open" -> "open"
    [] result[r].kind = "ok" -> "ok"
    [] result[r].kind \in Refused -> "refused"
    [] OTHER -> "unknown"

Abstract == INSTANCE Exchange WITH outcome <- [r \in Requests |-> Outcome(r)]

\* Do, its network and its server implement Exchange: a write is executed at
\* most once, and never after a refusal was reported.
ImplementsExchange == Abstract!Spec

=============================================================================
