---------------------------- MODULE MessageQueue ----------------------------
(***************************************************************************)
(* The buffer of streaming.Stream: paho's message goroutine decodes and    *)
(* enqueues, one goroutine calls Recv, and any goroutine may call Close.   *)
(* enqueue never blocks: it tries to send, evicts the oldest message if    *)
(* the channel was full, and tries once more, while Recv may take messages *)
(* between any two of these steps.  Messages are numbered as they decode.  *)
(* resubscribe, on the goroutine of a reconnect, counts its failed requests *)
(* in the same counter.                                                    *)
(***************************************************************************)
EXTENDS Integers, Sequences

CONSTANTS
  QueueSize,    \* ConnectOptions.QueueSize
  MaxMessages,  \* bound: messages that decode
  MaxGarbled,   \* bound: payloads that do not
  MaxUnreplayed \* bound: requests of resubscribe that fail

ASSUME QueueAssumption ==
  /\ QueueSize \in Nat \ {0}
  /\ MaxMessages \in Nat /\ MaxGarbled \in Nat /\ MaxUnreplayed \in Nat

VARIABLES
  queue,     \* Stream.queue
  dropped,   \* Stream.dropped
  closed,    \* Stream.closed
  step,      \* where the message goroutine is in enqueue
  arrived,   \* messages decoded; the newest is the one enqueue works on
  garbled,   \* payloads that failed to decode
  unreplayed, \* requests of resubscribe that failed
  recv,      \* Recv is "waiting" or has returned
  received   \* what Recv has returned so far

producer == <<step, arrived, garbled, unreplayed>>
consumer == <<recv, received>>
vars == <<queue, dropped, closed, producer, consumer>>

Full == Len(queue) = QueueSize

-----------------------------------------------------------------------------
(* The message goroutine. *)

DecodeFails ==
  /\ step = "idle" /\ garbled < MaxGarbled
  /\ garbled' = garbled + 1 /\ dropped' = dropped + 1
  /\ UNCHANGED <<queue, closed, step, arrived, unreplayed, consumer>>

Decoded ==
  /\ step = "idle" /\ arrived < MaxMessages
  /\ arrived' = arrived + 1
  /\ step' = "send"
  /\ UNCHANGED <<queue, dropped, closed, garbled, unreplayed, consumer>>

\* Faulty variant of Send: a message that finds the queue full is itself lost.
DropNewest ==
  /\ step = "send"
  /\ IF Full THEN dropped' = dropped + 1 /\ UNCHANGED queue
             ELSE queue' = Append(queue, arrived) /\ UNCHANGED dropped
  /\ step' = "idle"
  /\ UNCHANGED <<closed, arrived, garbled, unreplayed, consumer>>

Send ==
  /\ step = "send"
  /\ IF Full THEN step' = "evict" /\ UNCHANGED queue
             ELSE step' = "idle" /\ queue' = Append(queue, arrived)
  /\ UNCHANGED <<dropped, closed, arrived, garbled, unreplayed, consumer>>

\* Faulty variant of Evict: the eviction is not counted.
EvictUncounted ==
  /\ step = "evict"
  /\ queue' = IF queue = <<>> THEN queue ELSE Tail(queue)
  /\ step' = "resend"
  /\ UNCHANGED <<dropped, closed, arrived, garbled, unreplayed, consumer>>

\* Faulty variant of Evict: it is counted although Recv left nothing to evict.
CountRegardless ==
  /\ step = "evict"
  /\ queue' = IF queue = <<>> THEN queue ELSE Tail(queue)
  /\ step' = "count"
  /\ UNCHANGED <<dropped, closed, arrived, garbled, unreplayed, consumer>>

\* The oldest message goes; Recv may have emptied the queue meanwhile.
Evict ==
  /\ step = "evict"
  /\ IF queue = <<>> THEN step' = "resend" /\ UNCHANGED queue
                     ELSE step' = "count" /\ queue' = Tail(queue)
  /\ UNCHANGED <<dropped, closed, arrived, garbled, unreplayed, consumer>>

Count ==
  /\ step = "count"
  /\ dropped' = dropped + 1
  /\ step' = "resend"
  /\ UNCHANGED <<queue, closed, arrived, garbled, unreplayed, consumer>>

\* The second attempt is silent when there is no room.
Resend ==
  /\ step = "resend"
  /\ queue' = IF Full THEN queue ELSE Append(queue, arrived)
  /\ step' = "idle"
  /\ UNCHANGED <<dropped, closed, arrived, garbled, unreplayed, consumer>>

-----------------------------------------------------------------------------
(* The goroutine of a reconnect. *)

\* A request of resubscribe failed: dropped is counted up, although no message was
\* discarded, so that "a persistent one is not silent".
ReplayFails ==
  /\ unreplayed < MaxUnreplayed
  /\ unreplayed' = unreplayed + 1 /\ dropped' = dropped + 1
  /\ UNCHANGED <<queue, closed, step, arrived, garbled, consumer>>

-----------------------------------------------------------------------------
(* Recv and Close.  A select with several ready cases takes any of them. *)

Recv ==
  /\ recv # "waiting"
  /\ recv' = "waiting"
  /\ UNCHANGED <<queue, dropped, closed, producer, received>>

Receive ==
  /\ recv = "waiting" /\ queue # <<>>
  /\ queue' = Tail(queue)
  /\ received' = Append(received, Head(queue))
  /\ recv' = "message"
  /\ UNCHANGED <<dropped, closed, producer>>

RecvCancelled ==
  /\ recv = "waiting"
  /\ recv' = "ctx"
  /\ UNCHANGED <<queue, dropped, closed, producer, received>>

\* Faulty variant of RecvClosed: it is noticed only at the start of Recv.
ClosedAtStart ==
  /\ recv # "waiting" /\ closed
  /\ recv' = "closed"
  /\ UNCHANGED <<queue, dropped, closed, producer, received>>

RecvClosed ==
  /\ recv = "waiting" /\ closed
  /\ recv' = "closed"
  /\ UNCHANGED <<queue, dropped, closed, producer, received>>

Close ==
  /\ ~closed
  /\ closed' = TRUE
  /\ UNCHANGED <<queue, dropped, producer, consumer>>

-----------------------------------------------------------------------------

Init ==
  /\ queue = <<>> /\ dropped = 0 /\ closed = FALSE
  /\ step = "idle" /\ arrived = 0 /\ garbled = 0 /\ unreplayed = 0
  /\ recv = "none" /\ received = <<>>

Enqueue == Send \/ Evict \/ Count \/ Resend

Next ==
  \/ DecodeFails \/ Decoded \/ Enqueue \/ ReplayFails
  \/ Recv \/ Receive \/ RecvCancelled \/ RecvClosed \/ Close

Spec == Init /\ [][Next]_vars

(***************************************************************************)
(* Both goroutines keep running; nothing obliges a message to arrive, a    *)
(* context to end or the application to call Recv.                         *)
(***************************************************************************)
FairSpec == Spec /\ WF_vars(Enqueue) /\ WF_vars(Receive \/ RecvClosed)

-----------------------------------------------------------------------------
(* Properties. *)

\* Every variable has its type and the queue its capacity.
TypeOK ==
  /\ queue \in Seq(1..MaxMessages) /\ Len(queue) <= QueueSize
  /\ dropped \in Nat /\ closed \in BOOLEAN
  /\ step \in {"idle", "send", "evict", "count", "resend"}
  /\ arrived \in 0..MaxMessages /\ garbled \in 0..MaxGarbled
  /\ unreplayed \in 0..MaxUnreplayed
  /\ recv \in {"none", "waiting", "message", "ctx", "closed"}
  /\ received \in Seq(1..MaxMessages)

\* Dropped accounts for every gap, and for the failed requests of resubscribe on
\* top of that: whatever Recv does between the steps of enqueue, a message is
\* received, queued or counted, once.  In particular the second, silent attempt to
\* send never finds the queue full.
Accounted ==
  step = "idle" =>
    dropped = (arrived + garbled - Len(received) - Len(queue)) + unreplayed

\* "Dropped returns the number of messages discarded because the queue was full or
\* a payload failed to decode", and nothing else.
DroppedIsMessages ==
  step = "idle" => dropped = arrived + garbled - Len(received) - Len(queue)

\* A slow consumer loses the oldest messages, never the latest: what is queued
\* is an unbroken run up to the newest message, which is queued or received.
NewestKept ==
  step = "idle" =>
    /\ \A i \in 1..Len(queue) : queue[i] = arrived - Len(queue) + i
    /\ queue = <<>> /\ received # <<>> => received[Len(received)] = arrived
    /\ arrived > 0 => queue # <<>> \/ received # <<>>

\* Close unblocks Recv, with messages queued or without.
CloseEndsRecv == closed /\ recv = "waiting" ~> recv # "waiting"

-----------------------------------------------------------------------------
(* The queue implements the feed a caller of Recv may rely on. *)

\* The newest message that enqueue is done with.
Newest == IF step = "idle" THEN arrived ELSE arrived - 1

Promise == INSTANCE Feed
  WITH Capacity <- QueueSize,
       sent <- Newest,
       oldest <- Newest - Len(queue) + 1,
       pressed <- step = "evict",
       read <- received,
       spoiled <- garbled,
       unreplayed <- unreplayed,
       counted <- dropped + (IF step = "count" THEN 1 ELSE 0)

\* The non-blocking steps of enqueue, with Recv and resubscribe between any two of
\* them, implement Feed: a message costs the oldest one at most, only if it found
\* the queue full, and is then itself delivered, in order; Dropped, once enqueue is
\* past Count, shows every loss, and beside them the failed replays alone.
ImplementsFeed == Promise!Spec

=============================================================================
