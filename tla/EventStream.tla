----------------------------- MODULE EventStream -----------------------------
(***************************************************************************)
(* events.Stream: the trade event subscription over gRPC.  One goroutine   *)
(* runs Subscribe and then calls Recv over and over; Close may run in any  *)
(* goroutine at any moment, and so may the cancellation of the context.    *)
(*                                                                         *)
(* Connections are numbered in the order connect() dials them; the one     *)
(* connect() works on is always the newest.  Errors are abstracted to what *)
(* Recv tells apart: "retryable" (retryable() is true), "fatal" (a status  *)
(* that is not, a local failure, an unexpected first response), the two    *)
(* control events "auth" and "limit", and "ctx".  The heartbeats and the   *)
(* repeated acknowledgements Recv reads over change nothing and are        *)
(* stuttering steps.  gRPC, the network and the server are external.       *)
(***************************************************************************)
EXTENDS Integers

CONSTANTS
  Closers,               \* goroutines that call Close
  MaxReconnectAttempts,  \* SubscribeRequest.MaxReconnectAttempts
  MaxConns,              \* bound: connections dialled
  MaxRecvs               \* bound: calls of Recv

ASSUME EventBounds ==
  MaxReconnectAttempts \in Int /\ MaxConns \in Nat /\ MaxRecvs \in Nat

VARIABLES
  done,      \* Stream.ctx is done
  conn,      \* Stream.conn
  rpc,       \* Stream.rpc, as the connection it runs on
  open,      \* connections dialled and not closed
  dials,     \* connections dialled so far; the newest is connect's local conn
  end,       \* how the rpc of each connection ended
  pc,        \* where the receiver is
  mode,      \* which function called connect
  failures,  \* Recv's failures
  recvs,     \* calls of Recv so far
  ret,       \* what the last Recv returned
  closer,    \* where each call of Close is
  by,        \* history: the call of Recv that dialled each connection
  failed     \* history: delayed reconnects of this Recv that failed since the
             \* last acknowledgement

stream == <<conn, rpc, open, dials, end, by>>
call   == <<pc, mode, failures, recvs, ret, failed>>
vars   == <<done, stream, call, closer>>

None  == 0
Conns == 1..MaxConns
Refusals == {"auth", "limit"}
Terminal == Refusals \cup {"fatal", "gaveup"}

-----------------------------------------------------------------------------
(* How a call of connect or Recv ends. *)

RecvReturns(kind) ==
  /\ pc' = "idle"
  /\ ret' = kind
  /\ UNCHANGED <<mode, failures, recvs, failed>>

\* Faulty variant of IsTerminal: the connection limit is retried.
RetryLimit(err) == err \notin {"retryable", "limit"}

IsTerminal(err) == err # "retryable"

\* The caller of connect deals with its error.
ConnectFails(err) ==
  IF mode = "subscribe"
    THEN pc' = "failed" /\ UNCHANGED <<mode, failures, recvs, ret, failed>>
    ELSE IF IsTerminal(err)
      THEN RecvReturns(err)
      ELSE /\ pc' = "charging"
           /\ mode' = "reconnect"
           /\ failed' = IF mode = "reconnect" THEN failed + 1 ELSE failed
           /\ UNCHANGED <<failures, recvs, ret>>

\* dropConn
DropConn == open' = open \ {conn} /\ conn' = None

-----------------------------------------------------------------------------
(* connect *)

\* grpc.NewClient or marshalling the request fails.
DialFails ==
  /\ pc = "dialing"
  /\ ConnectFails("fatal")
  /\ UNCHANGED <<done, stream, closer>>

Dial ==
  /\ pc = "dialing" /\ dials < MaxConns
  /\ dials' = dials + 1
  /\ open' = open \cup {dials + 1}
  /\ by' = [by EXCEPT ![dials + 1] = recvs]
  /\ pc' = "subscribing"
  /\ UNCHANGED <<done, conn, rpc, end, mode, failures, recvs, ret, failed, closer>>

\* The rpc or its first response fails, or the response is not the
\* acknowledgement.
NotAcknowledged(err) ==
  /\ pc = "subscribing"
  /\ open' = open \ {dials}
  /\ end' = [end EXCEPT ![dials] = err]
  /\ ConnectFails(err)
  /\ UNCHANGED <<done, conn, rpc, dials, by, closer>>

Acknowledged ==
  /\ pc = "subscribing"
  /\ pc' = "publishing"
  /\ UNCHANGED <<done, stream, mode, failures, recvs, ret, failed, closer>>

\* connect's last critical section, when Close or the context got there first.
PublishFails ==
  /\ pc = "publishing" /\ done
  /\ open' = open \ {dials}
  /\ ConnectFails("ctx")
  /\ UNCHANGED <<done, conn, rpc, dials, end, by, closer>>

\* Faulty variants of Publish: a concurrent Close is not looked for; the
\* acknowledgement does not reset the budget.
PublishAnyway ==
  /\ pc = "publishing"
  /\ conn' = dials /\ rpc' = dials
  /\ pc' = IF mode = "subscribe" THEN "idle" ELSE "receiving"
  /\ failures' = IF mode = "reconnect" THEN 0 ELSE failures
  /\ failed' = 0
  /\ UNCHANGED <<done, open, dials, end, by, mode, recvs, ret, closer>>

KeepBudget ==
  /\ pc = "publishing" /\ ~done
  /\ conn' = dials /\ rpc' = dials
  /\ pc' = IF mode = "subscribe" THEN "idle" ELSE "receiving"
  /\ failed' = 0
  /\ UNCHANGED <<done, open, dials, end, by, mode, failures, recvs, ret, closer>>

\* connect's last critical section.  Only reconnect resets the budget.
Publish ==
  /\ pc = "publishing" /\ ~done
  /\ conn' = dials /\ rpc' = dials
  /\ pc' = IF mode = "subscribe" THEN "idle" ELSE "receiving"
  /\ failures' = IF mode = "reconnect" THEN 0 ELSE failures
  /\ failed' = 0
  /\ UNCHANGED <<done, open, dials, end, by, mode, recvs, ret, closer>>

-----------------------------------------------------------------------------
(* Recv, renew and reconnect *)

Recv ==
  /\ pc = "idle" /\ recvs < MaxRecvs
  /\ recvs' = recvs + 1
  /\ failures' = 0 /\ failed' = 0
  /\ pc' = "receiving"
  /\ UNCHANGED <<done, stream, mode, ret, closer>>

\* A response is read from the rpc; one may still be buffered when the context
\* is done or the connection closed.
Readable == pc = "receiving" /\ end[rpc] = "live"

ReceiveEvent ==
  /\ Readable
  /\ RecvReturns("event")
  /\ UNCHANGED <<done, stream, closer>>

ReceiveRefusal(err) ==
  /\ Readable
  /\ RecvReturns(err)
  /\ UNCHANGED <<done, stream, closer>>

\* Faulty variant of ReceiveExpired: renews beside the old connection.
RenewBeside ==
  /\ Readable
  /\ mode' = "renew" /\ pc' = "dialing"
  /\ UNCHANGED <<done, stream, failures, recvs, ret, failed, closer>>

\* SubscribeExpired: renewed without a delay and without a charge.
ReceiveExpired ==
  /\ Readable
  /\ DropConn
  /\ mode' = "renew" /\ pc' = "dialing"
  /\ UNCHANGED <<done, rpc, dials, end, by, failures, recvs, ret, failed, closer>>

\* rpc.Recv fails.  A finished rpc keeps failing with the same error.
RpcFails(err) ==
  /\ pc = "receiving" /\ end[rpc] \in {"live", err}
  /\ end' = [end EXCEPT ![rpc] = err]
  /\ IF done THEN RecvReturns("ctx")
     ELSE IF err = "fatal" THEN RecvReturns("fatal")
     ELSE /\ pc' = "charging" /\ mode' = "reconnect"
          /\ UNCHANGED <<failures, recvs, ret, failed>>
  /\ UNCHANGED <<done, conn, rpc, open, dials, by, closer>>

\* Faulty variant of BudgetSpent: one attempt is not counted.
BudgetOffByOne == MaxReconnectAttempts > 0 /\ failures > MaxReconnectAttempts

\* The budget once this attempt is charged.
BudgetSpent == MaxReconnectAttempts > 0 /\ failures + 1 > MaxReconnectAttempts

GiveUp ==
  /\ pc = "charging" /\ BudgetSpent
  /\ RecvReturns("gaveup")
  /\ UNCHANGED <<done, stream, closer>>

Charge ==
  /\ pc = "charging" /\ ~BudgetSpent
  /\ failures' = failures + 1
  /\ DropConn
  /\ pc' = "delaying"
  /\ UNCHANGED <<done, rpc, dials, end, by, mode, recvs, ret, failed, closer>>

DelayEnds ==
  /\ pc = "delaying"
  /\ pc' = "dialing"
  /\ UNCHANGED <<done, stream, mode, failures, recvs, ret, failed, closer>>

DelayCancelled ==
  /\ pc = "delaying" /\ done
  /\ RecvReturns("ctx")
  /\ UNCHANGED <<done, stream, closer>>

-----------------------------------------------------------------------------
(* The context and Close *)

\* The caller's own context ends.
Cancel ==
  /\ ~done
  /\ done' = TRUE
  /\ UNCHANGED <<stream, call, closer>>

\* There is a Stream to close once Subscribe has returned it.
CloseCancels(c) ==
  /\ closer[c] = "idle" /\ rpc # None
  /\ done' = TRUE
  /\ closer' = [closer EXCEPT ![c] = "cancelled"]
  /\ UNCHANGED <<stream, call>>

\* Faulty variant of CloseReleases: the connection is left to the receiver.
CloseOnlyCancels(c) ==
  /\ closer[c] = "cancelled"
  /\ closer' = [closer EXCEPT ![c] = "closed"]
  /\ UNCHANGED <<done, stream, call>>

CloseReleases(c) ==
  /\ closer[c] = "cancelled"
  /\ DropConn
  /\ closer' = [closer EXCEPT ![c] = "closed"]
  /\ UNCHANGED <<done, rpc, dials, end, by, call>>

-----------------------------------------------------------------------------

Init ==
  /\ done = FALSE
  /\ conn = None /\ rpc = None /\ open = {} /\ dials = 0
  /\ end = [k \in Conns |-> "live"]
  /\ by = [k \in Conns |-> 0]
  /\ pc = "dialing" /\ mode = "subscribe"
  /\ failures = 0 /\ failed = 0 /\ recvs = 0 /\ ret = "none"
  /\ closer = [c \in Closers |-> "idle"]

\* Steps the receiver takes by itself.
Runs ==
  \/ DialFails \/ Dial \/ PublishFails \/ Publish
  \/ GiveUp \/ Charge \/ DelayEnds \/ DelayCancelled

\* Steps that take an answer, or a failure, from the network.
Hears ==
  \/ Acknowledged \/ ReceiveEvent \/ ReceiveExpired
  \/ \E err \in Refusals : ReceiveRefusal(err)
  \/ \E err \in Refusals \cup {"retryable", "fatal"} : NotAcknowledged(err)
  \/ \E err \in {"retryable", "fatal"} : RpcFails(err)

Next ==
  \/ Recv \/ Runs \/ Hears \/ Cancel
  \/ \E c \in Closers : CloseCancels(c) \/ CloseReleases(c)

Spec == Init /\ [][Next]_vars

(***************************************************************************)
(* The receiver keeps running and a Close that began ends.  The server may *)
(* stay silent forever, but gRPC ends what waits on a context that is done.*)
(***************************************************************************)
Fairness ==
  /\ WF_vars(Runs) /\ WF_vars(done /\ Hears)
  /\ \A c \in Closers : WF_vars(CloseReleases(c))

FairSpec == Spec /\ Fairness

-----------------------------------------------------------------------------
(* Properties. *)

\* Every variable has its type; no attempt is charged beyond the budget.
TypeOK ==
  /\ done \in BOOLEAN
  /\ conn \in 0..MaxConns /\ rpc \in 0..MaxConns /\ dials \in 0..MaxConns
  /\ open \subseteq Conns
  /\ end \in [Conns -> {"live", "retryable", "fatal"} \cup Refusals]
  /\ pc \in {"idle", "dialing", "subscribing", "publishing", "receiving",
             "charging", "delaying", "failed"}
  /\ mode \in {"subscribe", "renew", "reconnect"}
  /\ failures \in Nat /\ failed \in Nat
  /\ MaxReconnectAttempts > 0 => failures <= MaxReconnectAttempts
  /\ recvs \in 0..MaxRecvs
  /\ ret \in {"none", "event", "ctx"} \cup Terminal
  /\ closer \in [Closers -> {"idle", "cancelled", "closed"}]
  /\ by \in [Conns -> 0..MaxRecvs]

Closed == \E c \in Closers : closer[c] = "closed"
Connecting == pc \in {"subscribing", "publishing"}

\* No connection leaks: each open one is the Stream's own or the one connect is
\* working on, and once Close has returned the Stream never owns one again,
\* also when Close ran while the acknowledgement was on its way.
NoLeak ==
  /\ open \subseteq {conn} \cup (IF Connecting THEN {dials} ELSE {})
  /\ Closed => conn = None

\* A Stream holds one connection at a time against the key's limit, whether it
\* renews or reconnects.
OneConnection == \A k, l \in open : k = l

\* Recv gives up after exactly MaxReconnectAttempts consecutive failures: a
\* renewal is not charged and an acknowledgement resets the count.
GivesUpAtBudget ==
  MaxReconnectAttempts > 0 =>
    /\ failed <= MaxReconnectAttempts
    /\ pc = "idle" /\ ret = "gaveup" => failed = MaxReconnectAttempts

\* A server that rejects the credentials or the number of connections is not
\* dialled again, unless the caller calls Recv again.
RefusalNotRetried ==
  \A k, l \in 1..dials : end[k] \in Refusals /\ k < l => by[k] < by[l]

\* A terminal error ends the stream: a Recv after it dials no connection and
\* returns no event.
TerminalEndsStream ==
  [][(ret \in Terminal) => dials' = dials /\ ret' # "event"]_vars

\* Close ends the stream from any goroutine: a Recv under way returns, and no
\* connection stays open behind it.
CloseEndsStream == Closed ~> (pc = "idle" /\ open = {})

=============================================================================
