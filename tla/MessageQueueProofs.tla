------------------------ MODULE MessageQueueProofs ------------------------
(***************************************************************************)
(* Theorems about MessageQueue, for any capacity and any number of         *)
(* messages: its types, that every message is received, queued or counted  *)
(* as dropped (beside the failed replays), and that the newest messages    *)
(* are the ones that are kept.                                             *)
(* They follow from one inductive invariant, which says where the message  *)
(* under way in enqueue is between its steps.  The last section is about   *)
(* what decode makes of a payload, for any payload.                        *)
(***************************************************************************)
EXTENDS MCMessageQueue, SequenceTheorems, TLAPS

(***************************************************************************)
(* A message is under way until enqueue is idle again; from its eviction   *)
(* to Count the oldest message is neither queued nor counted.              *)
(***************************************************************************)
UnderWay == IF step = "idle" THEN 0 ELSE IF step = "count" THEN 2 ELSE 1

(***************************************************************************)
(* The eviction left room, and Recv only ever makes more: the second       *)
(* attempt to send succeeds.                                               *)
(***************************************************************************)
RoomMade == step \in {"count", "resend"} => Len(queue) < QueueSize

AllCounted ==
  /\ step # "idle" => arrived > 0
  /\ RoomMade
  /\ arrived + garbled + unreplayed = Len(received) + Len(queue) + dropped + UnderWay

(***************************************************************************)
(* The queue is a run up to the newest message that was sent.  The         *)
(* eviction may take that one too, if the queue holds one message.         *)
(***************************************************************************)
UnbrokenRun ==
  /\ \A i \in 1..Len(queue) : queue[i] = Newest - Len(queue) + i
  /\ step \in {"idle", "send", "evict"} =>
       /\ queue = <<>> /\ received # <<>> => received[Len(received)] = Newest
       /\ Newest > 0 => queue # <<>> \/ received # <<>>

IInv == TypeOK /\ AllCounted /\ UnbrokenRun

USE QueueAssumption

\* An empty queue loses nothing.
LEMMA InitIInv == Init => IInv
  <1> SUFFICES ASSUME Init PROVE IInv
    OBVIOUS
  <1>1. TypeOK
    <2>1. <<>> \in Seq(1..MaxMessages) /\ Len(<<>>) = 0
      BY EmptySeq
    <2>2. /\ QueueSize \in Nat /\ 0 \in 0..MaxMessages /\ 0 \in 0..MaxGarbled
          /\ 0 \in 0..MaxUnreplayed
      OBVIOUS
    <2>3. queue \in Seq(1..MaxMessages) /\ Len(queue) = 0 /\ received \in Seq(1..MaxMessages)
      BY <2>1 DEF Init
    <2>4. /\ dropped = 0 /\ closed = FALSE /\ step = "idle" /\ arrived = 0 /\ garbled = 0
          /\ unreplayed = 0 /\ recv = "none"
      BY DEF Init
    <2>5. Len(queue) <= QueueSize /\ dropped \in Nat
      BY <2>2, <2>3, <2>4
    <2> QED BY <2>2, <2>3, <2>4, <2>5, Zenon DEF TypeOK
  <1>2. AllCounted
    BY DEF Init, AllCounted, RoomMade, UnderWay
  <1>3. UnbrokenRun
    BY DEF Init, UnbrokenRun, Newest
  <1> QED BY <1>1, <1>2, <1>3 DEF IInv

\* What Evict and Receive do to a queue.
LEMMA TailOfRun ==
  ASSUME NEW S, NEW q \in Seq(S), q # <<>>
  PROVE  /\ Tail(q) \in Seq(S) /\ Len(Tail(q)) = Len(q) - 1 /\ Len(q) > 0
         /\ Head(q) = q[1] /\ q[1] \in S
         /\ \A i \in 1..Len(q) - 1 : Tail(q)[i] = q[i + 1]
  BY EmptySeq, HeadTailProperties, ElementOfSeq, LenProperties

\* What the sends and Receive do to a sequence.
LEMMA AppendToRun ==
  ASSUME NEW S, NEW q \in Seq(S), NEW x \in S
  PROVE  /\ Append(q, x) \in Seq(S) /\ Len(Append(q, x)) = Len(q) + 1
         /\ Append(q, x) # <<>>
         /\ Append(q, x)[Len(q) + 1] = x
         /\ \A i \in 1..Len(q) : Append(q, x)[i] = q[i]
  BY AppendProperties, LenProperties

(***************************************************************************)
(* A step of the message goroutine, or of Recv, that leaves the queue and  *)
(* what was received as they are.                                          *)
(***************************************************************************)
LEMMA StillStep ==
  ASSUME IInv,
         DecodeFails \/ Decoded \/ Count \/ ReplayFails \/ Recv \/ RecvCancelled
           \/ RecvClosed \/ Close
  PROVE  IInv'
  <1> USE DEF IInv
  <1>1. Len(queue) \in Nat /\ Len(received) \in Nat
    BY LenProperties DEF TypeOK
  <1>2. CASE DecodeFails
    <2>1. TypeOK'
      BY <1>2 DEF TypeOK, DecodeFails, consumer
    <2>2. AllCounted'
      BY <1>1, <1>2 DEF TypeOK, AllCounted, RoomMade, UnderWay, DecodeFails, consumer
    <2>3. UnbrokenRun'
      BY <1>1, <1>2 DEF TypeOK, UnbrokenRun, Newest, DecodeFails, consumer
    <2> QED BY <2>1, <2>2, <2>3
  <1>3. CASE Decoded
    <2>1. TypeOK'
      BY <1>3 DEF TypeOK, Decoded, consumer
    <2>2. AllCounted'
      <3>1. arrived \in Nat /\ garbled \in Nat /\ dropped \in Nat /\ unreplayed \in Nat
        BY DEF TypeOK
      <3>2. /\ arrived' = arrived + 1 /\ step' = "send"
            /\ UNCHANGED <<queue, dropped, garbled, unreplayed, received>>
        BY <1>3 DEF Decoded, consumer
      <3>3. arrived + garbled + unreplayed = Len(received) + Len(queue) + dropped
        BY <1>1, <1>3, <3>1 DEF AllCounted, UnderWay, Decoded
      <3> HIDE DEF IInv
      <3> QED BY <1>1, <3>1, <3>2, <3>3 DEF AllCounted, RoomMade, UnderWay
    <2>3. UnbrokenRun'
      BY <1>1, <1>3 DEF TypeOK, UnbrokenRun, Newest, Decoded, consumer
    <2> QED BY <2>1, <2>2, <2>3
  <1>4. CASE Count
    BY <1>1, <1>4 DEF TypeOK, AllCounted, RoomMade, UnderWay, UnbrokenRun, Newest, Count, consumer
  <1>5. CASE Recv
    BY <1>1, <1>5 DEF TypeOK, AllCounted, RoomMade, UnderWay, UnbrokenRun, Newest, Recv, producer
  <1>6. CASE RecvCancelled
    BY <1>1, <1>6 DEF TypeOK, AllCounted, RoomMade, UnderWay, UnbrokenRun, Newest, RecvCancelled, producer
  <1>7. CASE RecvClosed
    BY <1>1, <1>7 DEF TypeOK, AllCounted, RoomMade, UnderWay, UnbrokenRun, Newest, RecvClosed, producer
  <1>8. CASE Close
    BY <1>1, <1>8 DEF TypeOK, AllCounted, RoomMade, UnderWay, UnbrokenRun, Newest, Close, consumer, producer
  <1>9. CASE ReplayFails
    <2>1. TypeOK'
      BY <1>9 DEF TypeOK, ReplayFails, consumer
    <2>2. AllCounted'
      BY <1>1, <1>9 DEF TypeOK, AllCounted, RoomMade, UnderWay, ReplayFails, consumer
    <2>3. UnbrokenRun'
      BY <1>1, <1>9 DEF TypeOK, UnbrokenRun, Newest, ReplayFails, consumer
    <2> QED BY <2>1, <2>2, <2>3
  <1> QED BY <1>2, <1>3, <1>4, <1>5, <1>6, <1>7, <1>8, <1>9

\* A send that fits, and the second one after an eviction, take the newest message.
LEMMA SendStep ==
  ASSUME IInv, Send \/ Resend
  PROVE  IInv'
  <1> USE DEF IInv
  <1>1. /\ UNCHANGED <<dropped, closed, arrived, garbled, unreplayed, recv, received>>
        /\ step \in {"send", "resend"}
    BY DEF Send, Resend, consumer
  <1>2. /\ Len(queue) \in Nat /\ Len(received) \in Nat /\ arrived \in 1..MaxMessages
    BY <1>1, LenProperties DEF TypeOK, AllCounted
  <1>3. CASE Full
    <2>1. step' = "evict" /\ step = "send" /\ UNCHANGED queue
      BY <1>1, <1>3, <1>2 DEF Send, Resend, Full, AllCounted, RoomMade
    <2> QED
      BY <1>1, <1>2, <2>1 DEF TypeOK, AllCounted, RoomMade, UnderWay, UnbrokenRun, Newest
  <1>4. CASE ~Full
    <2>1. queue' = Append(queue, arrived) /\ step' = "idle"
      BY <1>1, <1>4 DEF Send, Resend
    <2>2. /\ queue' \in Seq(1..MaxMessages) /\ Len(queue') = Len(queue) + 1
          /\ queue' # <<>> /\ queue'[Len(queue) + 1] = arrived
          /\ \A i \in 1..Len(queue) : queue'[i] = queue[i]
      <3>1. queue \in Seq(1..MaxMessages)
        BY DEF TypeOK
      <3>2. queue' = Append(queue, arrived)
        BY <2>1
      <3> HIDE DEF IInv
      <3> QED BY <1>2, <3>1, <3>2, AppendToRun
    <2>3. TypeOK'
      BY <1>1, <1>2, <1>4, <2>1, <2>2 DEF TypeOK, Full
    <2>4. AllCounted'
      <3>1. arrived + garbled + unreplayed = Len(received) + Len(queue) + dropped + 1
        BY <1>1 DEF AllCounted, UnderWay
      <3> QED BY <1>1, <1>2, <2>1, <2>2, <3>1 DEF TypeOK, AllCounted, RoomMade, UnderWay
    <2>5. ASSUME NEW i \in 1..Len(queue')
          PROVE  queue'[i] = Newest' - Len(queue') + i
      BY <1>1, <1>2, <2>1, <2>2, <2>5 DEF UnbrokenRun, Newest, TypeOK
    <2> QED BY <2>1, <2>2, <2>3, <2>4, <2>5 DEF UnbrokenRun
  <1> QED BY <1>3, <1>4

\* The eviction takes the oldest message, and makes room.
LEMMA EvictStep ==
  ASSUME IInv, Evict
  PROVE  IInv'
  <1> USE DEF IInv
  <1>1. UNCHANGED <<dropped, closed, arrived, garbled, unreplayed, recv, received>> /\ step = "evict"
    BY DEF Evict, consumer
  <1>2. Len(queue) \in Nat /\ Len(received) \in Nat
    BY LenProperties DEF TypeOK
  <1>3. CASE queue = <<>>
    <2>1. step' = "resend" /\ UNCHANGED queue /\ Len(queue) = 0
      BY <1>3, EmptySeq DEF Evict
    <2> QED
      BY <1>1, <1>2, <2>1 DEF TypeOK, AllCounted, RoomMade, UnderWay, UnbrokenRun, Newest
  <1>4. CASE queue # <<>>
    <2>1. queue' = Tail(queue) /\ step' = "count"
      BY <1>4 DEF Evict
    <2>2. /\ queue' \in Seq(1..MaxMessages) /\ Len(queue') = Len(queue) - 1
          /\ Len(queue) > 0
          /\ \A i \in 1..Len(queue) - 1 : queue'[i] = queue[i + 1]
      BY <1>4, <2>1, TailOfRun DEF TypeOK
    <2>3. TypeOK' /\ AllCounted'
      BY <1>1, <1>2, <2>1, <2>2 DEF TypeOK, AllCounted, RoomMade, UnderWay
    <2>4. ASSUME NEW i \in 1..Len(queue')
          PROVE  queue'[i] = Newest' - Len(queue') + i
      <3>1. i + 1 \in 1..Len(queue) /\ queue'[i] = queue[i + 1]
        BY <1>2, <2>2, <2>4
      <3> QED BY <1>1, <1>2, <2>1, <2>2, <3>1 DEF UnbrokenRun, Newest, TypeOK
    <2> QED BY <2>1, <2>3, <2>4 DEF UnbrokenRun
  <1> QED BY <1>3, <1>4

\* Recv takes the oldest message.
LEMMA ReceiveStep ==
  ASSUME IInv, Receive
  PROVE  IInv'
  <1> USE DEF IInv
  <1>1. /\ UNCHANGED <<dropped, closed, step, arrived, garbled, unreplayed>>
        /\ queue # <<>> /\ recv' = "message"
        /\ queue' = Tail(queue) /\ received' = Append(received, Head(queue))
    BY DEF Receive, producer
  <1>2. Len(queue) \in Nat /\ Len(received) \in Nat
    BY LenProperties DEF TypeOK
  <1>3. /\ queue' \in Seq(1..MaxMessages) /\ Len(queue') = Len(queue) - 1
        /\ Len(queue) > 0 /\ Head(queue) = queue[1] /\ queue[1] \in 1..MaxMessages
        /\ \A i \in 1..Len(queue) - 1 : queue'[i] = queue[i + 1]
    BY <1>1, TailOfRun DEF TypeOK
  <1>4. /\ received' \in Seq(1..MaxMessages) /\ Len(received') = Len(received) + 1
        /\ received' # <<>> /\ received'[Len(received')] = queue[1]
    BY <1>1, <1>3, AppendToRun DEF TypeOK
  <1>5. TypeOK' /\ AllCounted'
    <2>1. TypeOK'
      BY <1>1, <1>2, <1>3, <1>4 DEF TypeOK
    <2>2. AllCounted'
      BY <1>1, <1>2, <1>3, <1>4 DEF TypeOK, AllCounted, RoomMade, UnderWay
    <2> QED BY <2>1, <2>2
  <1>6. ASSUME NEW i \in 1..Len(queue')
        PROVE  queue'[i] = Newest' - Len(queue') + i
    <2>1. i + 1 \in 1..Len(queue) /\ queue'[i] = queue[i + 1]
      BY <1>2, <1>3, <1>6
    <2> QED BY <1>1, <1>2, <1>3, <2>1 DEF UnbrokenRun, Newest, TypeOK
  <1>7. ASSUME queue' = <<>> PROVE received'[Len(received')] = Newest'
    <2>1. Len(queue) = 1
      BY <1>2, <1>3, <1>7, EmptySeq
    <2> QED BY <1>1, <1>4, <2>1 DEF UnbrokenRun, Newest, TypeOK
  <1> QED BY <1>4, <1>5, <1>6, <1>7 DEF UnbrokenRun

\* Every step of enqueue and Recv keeps the invariant.
LEMMA NextIInv == IInv /\ [Next]_vars => IInv'
  <1> SUFFICES ASSUME IInv, [Next]_vars PROVE IInv'
    OBVIOUS
  <1>1. CASE UNCHANGED vars
    BY <1>1
    DEF IInv, TypeOK, AllCounted, RoomMade, UnderWay, UnbrokenRun, Newest, vars,
        producer, consumer
  <1> QED BY <1>1, StillStep, SendStep, EvictStep, ReceiveStep DEF Next, Enqueue

\* Every variable keeps its type and the queue its capacity, for any QueueSize.
THEOREM TypeCorrect == Spec => []TypeOK
  <1> QED BY InitIInv, NextIInv, PTL DEF Spec, IInv

\* Dropped accounts for every gap, and besides for the failed requests of resubscribe
\* alone: whatever Recv does between the steps of enqueue, a message is received,
\* queued or counted.
THEOREM EveryMessageAccounted == Spec => []Accounted
  <1>1. IInv => Accounted
    BY LenProperties DEF IInv, TypeOK, AllCounted, UnderWay, Accounted
  <1> QED BY <1>1, InitIInv, NextIInv, PTL DEF Spec

\* enqueue drops the oldest messages and keeps the newest, for any QueueSize.
THEOREM NewestMessagesKept == Spec => []NewestKept
  <1>1. IInv => NewestKept
    BY DEF IInv, UnbrokenRun, Newest, NewestKept
  <1> QED BY <1>1, InitIInv, NextIInv, PTL DEF Spec

(***************************************************************************)
(* The feed.  The messages it holds are those queued, so the run in the    *)
(* queue ends at the newest one and its head is the oldest; UnbrokenRun    *)
(* and RoomMade are what the steps of enqueue need.                        *)
(***************************************************************************)

Counted == dropped + (IF step = "count" THEN 1 ELSE 0)

\* The variables of Feed, and what it takes for none of them to change.
LEMMA FeedStutter ==
  ASSUME Newest' = Newest, queue' = queue, (step' = "evict") <=> (step = "evict"),
         received' = received, garbled' = garbled, unreplayed' = unreplayed,
         Counted' = Counted
  PROVE  UNCHANGED Promise!feed
  <1>1. (step' = "evict") = (step = "evict")
    BY Zenon
  <1>2. Len(queue') = Len(queue)
    OBVIOUS
  <1> QED BY <1>1, <1>2, Zenon DEF Promise!feed, Counted

\* What the variables of Feed are in terms of the lengths they stand for.
LEMMA FeedCounts ==
  ASSUME IInv
  PROVE  /\ Newest \in Int /\ Len(queue) \in Nat /\ Counted \in Nat
         /\ Promise!Held = Len(queue)
         /\ queue # <<>> => Len(queue) > 0 /\ Head(queue) = Newest - Len(queue) + 1
  <1>1. /\ queue \in Seq(1..MaxMessages) /\ Len(queue) \in Nat
        /\ arrived \in Nat /\ dropped \in Nat
    BY LenProperties DEF IInv, TypeOK
  <1>2. Newest \in Int /\ Counted \in Nat
    BY <1>1 DEF Newest, Counted
  <1>3. Promise!Held = Len(queue)
    BY <1>1, <1>2 DEF Promise!Held
  <1>4. ASSUME queue # <<>>
        PROVE  Len(queue) > 0 /\ Head(queue) = Newest - Len(queue) + 1
    <2>1. Len(queue) > 0 /\ Head(queue) = queue[1]
      BY <1>1, <1>4, TailOfRun
    <2>2. 1 \in 1..Len(queue)
      BY <1>1, <2>1
    <2> QED BY <2>1, <2>2 DEF IInv, UnbrokenRun
  <1> QED BY <1>1, <1>2, <1>3, <1>4

\* A message that joins is the next one, and those held are otherwise the same.
LEMMA JoinStep ==
  ASSUME IInv, Send \/ Resend
  PROVE  Promise!Join \/ Promise!Press
  <1>1. /\ UNCHANGED <<dropped, arrived, garbled, unreplayed, received>> /\ step \in {"send", "resend"}
    BY DEF Send, Resend, consumer
  <1>2. /\ Newest \in Int /\ Len(queue) \in Nat /\ Promise!Held = Len(queue)
        /\ arrived \in Nat /\ Len(queue) <= QueueSize /\ queue \in Seq(1..MaxMessages)
        /\ arrived \in 1..MaxMessages
    BY <1>1, FeedCounts DEF IInv, TypeOK, AllCounted
  <1>3. ~(step = "evict")
    BY <1>1
  <1>4. CASE Full
    <2>1. step = "send" /\ step' = "evict" /\ queue' = queue
      BY <1>1, <1>2, <1>4 DEF Send, Resend, Full, IInv, AllCounted, RoomMade
    <2>2. Newest' = Newest /\ Counted' = Counted
      BY <1>1, <2>1 DEF Newest, Counted
    <2>3. Promise!Held = QueueSize
      BY <1>2, <1>4 DEF Full
    <2>4. Newest' - Len(queue') + 1 = Newest - Len(queue) + 1
      BY <2>1, <2>2
    <2>5. (step' = "evict") = TRUE
      BY <2>1
    <2> QED BY <1>1, <1>3, <2>2, <2>3, <2>4, <2>5, Zenon DEF Promise!Press, Counted
  <1>5. CASE ~Full
    <2>1. queue' = Append(queue, arrived) /\ step' = "idle"
      BY <1>1, <1>5 DEF Send, Resend
    <2>2. Len(queue') = Len(queue) + 1
      BY <1>2, <2>1, AppendToRun
    <2>3. Newest' = Newest + 1 /\ Counted' = Counted
      BY <1>1, <1>2, <2>1 DEF Newest, Counted
    <2>4. Promise!Held < QueueSize
      BY <1>2, <1>5 DEF Full
    <2>5. Newest' - Len(queue') + 1 = Newest - Len(queue) + 1
      BY <1>2, <2>2, <2>3
    <2>6. (step' = "evict") = (step = "evict")
      BY <1>3, <2>1, Zenon
    <2> QED BY <1>1, <1>3, <2>3, <2>4, <2>5, <2>6, Zenon DEF Promise!Join, Counted
  <1> QED BY <1>4, <1>5

\* An eviction loses the oldest message, or nothing if Recv took it.
LEMMA LoseStep ==
  ASSUME IInv, Evict
  PROVE  Promise!LoseOldest \/ Promise!LoseNothing
  <1>1. /\ UNCHANGED <<dropped, arrived, garbled, unreplayed, received>> /\ step = "evict"
        /\ step' \in {"resend", "count"}
    BY DEF Evict, consumer
  <1>2. /\ Newest \in Int /\ Len(queue) \in Nat /\ Promise!Held = Len(queue)
        /\ dropped \in Nat /\ queue \in Seq(1..MaxMessages)
    BY FeedCounts DEF IInv, TypeOK
  <1>3. Newest' = Newest /\ (step' = "evict") = FALSE
    BY <1>1 DEF Newest
  <1>4. CASE queue = <<>>
    <2>1. step' = "resend" /\ queue' = queue /\ Len(queue) = 0
      BY <1>4, EmptySeq DEF Evict
    <2>2. Counted' = Counted
      BY <1>1, <2>1 DEF Counted
    <2>3. Promise!Held = 0
      BY <1>2, <2>1
    <2>4. Newest' - Len(queue') + 1 = Newest - Len(queue) + 1
      BY <1>3, <2>1
    <2> QED BY <1>1, <1>3, <2>2, <2>3, <2>4, Zenon DEF Promise!LoseNothing, Counted
  <1>5. CASE queue # <<>>
    <2>1. step' = "count" /\ queue' = Tail(queue)
      BY <1>5 DEF Evict
    <2>2. Len(queue') = Len(queue) - 1 /\ Len(queue) > 0
      BY <1>2, <1>5, <2>1, TailOfRun
    <2>3. Counted' = Counted + 1
      BY <1>1, <1>2, <2>1 DEF Counted
    <2>4. Promise!Held > 0
      BY <1>2, <2>2
    <2>5. Newest' - Len(queue') + 1 = Newest - Len(queue) + 1 + 1
      BY <1>2, <1>3, <2>2
    <2> QED BY <1>1, <1>3, <2>3, <2>4, <2>5, Zenon DEF Promise!LoseOldest, Counted
  <1> QED BY <1>4, <1>5

\* Recv reads the oldest message that is held.
LEMMA ReadStep ==
  ASSUME IInv, Receive
  PROVE  Promise!Read
  <1>1. /\ UNCHANGED <<dropped, step, arrived, garbled, unreplayed>> /\ queue # <<>>
        /\ queue' = Tail(queue) /\ received' = Append(received, Head(queue))
    BY DEF Receive, producer
  <1>2. /\ Newest \in Int /\ Len(queue) \in Nat /\ Promise!Held = Len(queue)
        /\ Len(queue) > 0 /\ Head(queue) = Newest - Len(queue) + 1
        /\ queue \in Seq(1..MaxMessages)
    BY <1>1, FeedCounts DEF IInv, TypeOK
  <1>3. Len(queue') = Len(queue) - 1
    BY <1>1, <1>2, TailOfRun
  <1>4. Newest' = Newest /\ Counted' = Counted
    BY <1>1 DEF Newest, Counted
  <1>5. Newest' - Len(queue') + 1 = Newest - Len(queue) + 1 + 1
    BY <1>2, <1>3, <1>4
  <1>6. (step' = "evict") = (step = "evict")
    BY <1>1
  <1>7. Promise!Held > 0
    BY <1>2
  <1>8. received' = Append(received, Newest - Len(queue) + 1)
    BY <1>1, <1>2
  <1> QED BY <1>1, <1>4, <1>5, <1>6, <1>7, <1>8, Zenon DEF Promise!Read, Counted

\* A payload that is no message is counted, and nothing else.
LEMMA SpoilStep ==
  ASSUME IInv, DecodeFails
  PROVE  Promise!Spoil
  <1>1. /\ UNCHANGED <<queue, step, arrived, unreplayed, received>> /\ step = "idle"
        /\ garbled' = garbled + 1 /\ dropped' = dropped + 1
    BY DEF DecodeFails, consumer
  <1>2. Newest' = Newest /\ (step' = "evict") = (step = "evict")
    BY <1>1 DEF Newest
  <1>3. Counted' = Counted + 1
    <2>1. dropped \in Nat
      BY DEF IInv, TypeOK
    <2> QED BY <1>1, <2>1 DEF Counted
  <1>4. Newest' - Len(queue') + 1 = Newest - Len(queue) + 1
    BY <1>1, <1>2
  <1> QED BY <1>1, <1>2, <1>3, <1>4, Zenon DEF Promise!Spoil, Counted

\* A failed replay is counted, and nothing else.
LEMMA ReplayStep ==
  ASSUME IInv, ReplayFails
  PROVE  Promise!FailReplay
  <1>1. /\ UNCHANGED <<queue, step, arrived, garbled, received>>
        /\ unreplayed' = unreplayed + 1 /\ dropped' = dropped + 1
    BY DEF ReplayFails, consumer
  <1>2. Newest' = Newest /\ (step' = "evict") = (step = "evict")
    BY <1>1 DEF Newest
  <1>3. Counted' = Counted + 1
    <2>1. dropped \in Nat
      BY DEF IInv, TypeOK
    <2> QED BY <1>1, <2>1 DEF Counted
  <1>4. Newest' - Len(queue') + 1 = Newest - Len(queue) + 1
    BY <1>1, <1>2
  <1> QED BY <1>1, <1>2, <1>3, <1>4, Zenon DEF Promise!FailReplay, Counted

\* Every other step is the goroutines' own affair.
LEMMA OwnStep ==
  ASSUME IInv,
         Decoded \/ Count \/ Recv \/ RecvCancelled \/ RecvClosed \/ Close \/ UNCHANGED vars
  PROVE  UNCHANGED Promise!feed
  <1>1. arrived \in Nat /\ dropped \in Nat
    BY DEF IInv, TypeOK
  <1>2. UNCHANGED <<queue, garbled, unreplayed, received>>
    BY DEF Decoded, Count, Recv, RecvCancelled, RecvClosed, Close, vars, producer, consumer
  <1>3. CASE Decoded
    <2>1. /\ step = "idle" /\ step' = "send" /\ arrived' = arrived + 1 /\ dropped' = dropped
      BY <1>3 DEF Decoded
    <2> QED BY <1>1, <1>2, <2>1, FeedStutter DEF Newest, Counted
  <1>4. CASE Count
    <2>1. /\ step = "count" /\ step' = "resend" /\ arrived' = arrived /\ dropped' = dropped + 1
      BY <1>4 DEF Count
    <2> QED BY <1>1, <1>2, <2>1, FeedStutter DEF Newest, Counted
  <1>5. CASE Recv \/ RecvCancelled \/ RecvClosed \/ Close \/ UNCHANGED vars
    <2>1. UNCHANGED <<step, arrived, dropped>>
      BY <1>5 DEF Recv, RecvCancelled, RecvClosed, Close, vars, producer
    <2> QED BY <1>2, <2>1, FeedStutter DEF Newest, Counted
  <1> QED BY <1>3, <1>4, <1>5

\* Every step is one of the feed or leaves it as it is.
LEMMA FeedStep ==
  ASSUME IInv, [Next]_vars
  PROVE  [Promise!Next]_(Promise!feed)
  <1>1. CASE Enqueue
    BY <1>1, JoinStep, LoseStep, OwnStep DEF Enqueue, Promise!Next
  <1>2. CASE DecodeFails \/ ReplayFails \/ Receive
    BY <1>2, SpoilStep, ReplayStep, ReadStep DEF Promise!Next
  <1>3. CASE Decoded \/ Recv \/ RecvCancelled \/ RecvClosed \/ Close \/ UNCHANGED vars
    BY <1>3, OwnStep
  <1> QED BY <1>1, <1>2, <1>3 DEF Next

\* The three non-blocking steps of enqueue, with Recv between any two of them,
\* implement Feed, for any QueueSize: what Recv returns is in order, a message costs
\* at most the oldest one held, none that has arrived is itself turned away, and the
\* count is the losses and the failed replays.
THEOREM QueueImplementsFeed == Spec => ImplementsFeed
  <1>1. Init => Promise!Init
    <2> SUFFICES ASSUME Init PROVE Promise!Init
      OBVIOUS
    <2>1. /\ queue = <<>> /\ step = "idle" /\ arrived = 0 /\ dropped = 0 /\ garbled = 0
          /\ unreplayed = 0 /\ received = <<>>
      BY DEF Init
    <2>2. Newest = 0 /\ Len(queue) = 0 /\ Counted = 0 /\ (step = "evict") = FALSE
      BY <2>1, EmptySeq DEF Newest, Counted
    <2>3. Newest - Len(queue) + 1 = 1
      BY <2>2
    <2> QED BY <2>1, <2>2, <2>3, Zenon DEF Promise!Init, Counted
  <1>2. IInv /\ [Next]_vars => [Promise!Next]_(Promise!feed)
    BY FeedStep
  <1> QED BY <1>1, <1>2, InitIInv, NextIInv, PTL DEF Spec, ImplementsFeed, Promise!Spec

(***************************************************************************)
(* Messages arrive on one goroutine, "order preserved": what was read is   *)
(* older than the oldest message held, and each message is newer than      *)
(* those read before it.                                                   *)
(***************************************************************************)
ReadInOrder ==
  \A i \in 1..Len(received) :
    /\ received[i] < Newest - Len(queue) + 1
    /\ \A j \in 1..(i - 1) : received[j] < received[i]

\* Recv returns the messages in the order they arrived and none of them twice,
\* whatever was evicted between them: this much follows from the steps of Feed alone.
THEOREM MessagesReadInOrder == Spec => []ReadInOrder
  <1>1. Init => ReadInOrder
    BY EmptySeq DEF Init, ReadInOrder
  <1>2. ASSUME IInv, IInv', ReadInOrder, [Next]_vars
        PROVE  ReadInOrder'
    <2> DEFINE oldest == Newest - Len(queue) + 1
    <2>1. oldest \in Int /\ oldest' \in Int
      <3>1. Newest \in Int /\ Len(queue) \in Nat
        BY <1>2, FeedCounts
      <3>2. queue' \in Seq(1..MaxMessages) /\ arrived' \in Nat
        BY <1>2 DEF IInv, TypeOK
      <3>3. Len(queue') \in Nat
        BY <3>2, LenProperties
      <3>4. Newest' \in Int
        BY <3>2 DEF Newest
      <3> QED BY <3>1, <3>3, <3>4
    <2>2. received \in Seq(1..MaxMessages) /\ Len(received) \in Nat
      BY <1>2, LenProperties DEF IInv, TypeOK
    <2>3. \/ received' = received /\ oldest' >= oldest
          \/ received' = Append(received, oldest) /\ oldest' = oldest + 1
      <3>1. \/ UNCHANGED Promise!feed
            \/ Promise!Spoil \/ Promise!FailReplay \/ Promise!Join \/ Promise!Press \/ Promise!LoseOldest
            \/ Promise!LoseNothing \/ Promise!Read
        BY <1>2, FeedStep DEF Promise!Next
      <3>2. \/ received' = received /\ (oldest' = oldest \/ oldest' = oldest + 1)
            \/ received' = Append(received, oldest) /\ oldest' = oldest + 1
        BY <3>1, Zenon
        DEF Promise!feed, Promise!Spoil, Promise!FailReplay, Promise!Join, Promise!Press, Promise!LoseOldest,
            Promise!LoseNothing, Promise!Read
      <3> HIDE DEF oldest
      <3> QED BY <2>1, <3>2
    <2>4. /\ \A i \in 1..Len(received) : received[i] \in Int /\ received[i] < oldest
          /\ \A i \in 1..Len(received) : \A j \in 1..(i - 1) : received[j] < received[i]
      BY <1>2, <2>2, ElementOfSeq DEF ReadInOrder
    <2>5. ReadInOrder' <=> \A i \in 1..Len(received') :
                             /\ received'[i] < oldest'
                             /\ \A j \in 1..(i - 1) : received'[j] < received'[i]
      BY DEF ReadInOrder
    <2> HIDE DEF oldest
    <2>6. CASE received' = received /\ oldest' >= oldest
      BY <2>1, <2>2, <2>4, <2>5, <2>6
    <2>7. CASE received' = Append(received, oldest) /\ oldest' = oldest + 1
      <3>1. /\ Len(received') = Len(received) + 1 /\ received'[Len(received) + 1] = oldest
            /\ \A i \in 1..Len(received) : received'[i] = received[i]
        <4>1. received \in Seq(Int)
          BY <2>2
        <4> QED BY <2>1, <2>7, <4>1, AppendToRun
      <3>2. ASSUME NEW i \in 1..Len(received')
            PROVE  /\ received'[i] < oldest'
                   /\ \A j \in 1..(i - 1) : received'[j] < received'[i]
        <4>1. CASE i = Len(received) + 1
          BY <2>1, <2>2, <2>4, <2>7, <3>1, <4>1
        <4>2. CASE i \in 1..Len(received)
          BY <2>1, <2>2, <2>4, <2>7, <3>1, <4>2
        <4> QED BY <2>2, <3>1, <3>2, <4>1, <4>2
      <3> QED BY <2>5, <3>2
    <2> QED BY <2>3, <2>6, <2>7
  <1> QED BY <1>1, <1>2, InitIInv, NextIInv, PTL DEF Spec

(***************************************************************************)
(* The payloads.                                                           *)
(***************************************************************************)

\* What decode makes of a payload of a modelled topic.
DecodedOf(topic, payload) ==
  Delivered(Message(topic, <<topic, Body(topic, payload)>>, NoNotice, NoRaw))

\* A payload of a modelled topic is decoded whole or not at all.
LEMMA ModelledDecode ==
  ASSUME NEW topic \in Modelled, NEW payload
  PROVE  Decode(topic, payload) = IF payload.whole THEN DecodedOf(topic, payload) ELSE DecodeError
  <1>1. topic # "echo" /\ topic # "notice"
    BY DEF Modelled
  <1> QED BY <1>1 DEF Decode, DecodedOf

\* A typed field is set exactly if the topic is modelled, whatever arrives on it.
THEOREM TypeTellsField == \A samples : TypeNamesField(samples)
  <1> SUFFICES ASSUME NEW samples, NEW s \in samples, Decode(s.topic, s.payload).kind = "message"
      PROVE  LET r == Decode(s.topic, s.payload) IN
             /\ r.message.type = s.topic
             /\ s.topic \in Modelled => r.message.typed # <<>> /\ r.message.typed[1] = s.topic
             /\ s.topic \notin Modelled => r.message.typed = <<>> /\ r.message.raw = <<s.payload>>
    BY DEF TypeNamesField
  <1> DEFINE r == Decode(s.topic, s.payload)
  <1>1. CASE s.topic \in Modelled
    <2>1. r = DecodedOf(s.topic, s.payload) \/ r = DecodeError
      BY <1>1, ModelledDecode
    <2>2. r = DecodedOf(s.topic, s.payload)
      BY <2>1 DEF DecodeError
    <2> QED BY <1>1, <2>2 DEF DecodedOf, Delivered, Message
  <1>2. CASE s.topic \notin Modelled
    <2>1. s.topic # "echo"
      BY <1>2 DEF Decode, EchoResult
    <2>2. PICK notice : r = Delivered(Message(s.topic, <<>>, notice, <<s.payload>>))
      BY <1>2, <2>1 DEF Decode
    <2> QED BY <1>2, <2>2 DEF Delivered, Message
  <1> QED BY <1>1, <1>2

\* What is decoded is the body.
LEMMA DecodedBody ==
  ASSUME NEW topic \in Modelled, NEW payload, payload.whole
  PROVE  Decode(topic, payload).message.typed[2] = Body(topic, payload)
  BY ModelledDecode DEF DecodedOf, Delivered, Message

\* No number is made of a text that is none, whatever the other fields are.
THEOREM NumbersAreRead == \A samples : NothingInvented(samples)
  <1>1. ASSUME NEW topic \in Modelled, NEW payload, NEW n \in DOMAIN Body(topic, payload).numbers
        PROVE  LET v == Body(topic, payload).numbers[n]
                   t == payload.texts[n] IN
               /\ t.form \in {"empty", "word"} => v = Absent
               /\ t.form = "integer" /\ t.n # 0 => v = <<t.n>>
               /\ v \in {Absent, <<t.n>>}
    <2> DEFINE t == payload.texts[n]
    <2>1. Body(topic, payload).numbers[n] \in {Dec(t), MillisOf(t)}
      BY DEF Body
    <2> QED BY <2>1 DEF Dec, MillisOf
  <1> SUFFICES ASSUME NEW samples, NEW s \in samples, s.topic \in Modelled, s.payload.whole
      PROVE  LET body == Decode(s.topic, s.payload).message.typed[2] IN
             \A n \in DOMAIN body.numbers : LET t == s.payload.texts[n] IN
               /\ t.form \in {"empty", "word"} => body.numbers[n] = Absent
               /\ t.form = "integer" /\ t.n # 0 => body.numbers[n] = <<t.n>>
               /\ body.numbers[n] \in {Absent, <<t.n>>}
    BY Zenon DEF NothingInvented
  <1> DEFINE body == Decode(s.topic, s.payload).message.typed[2]
  <1>2. body = Body(s.topic, s.payload)
    BY DecodedBody
  <1> HIDE DEF body
  <1> SUFFICES ASSUME NEW n \in DOMAIN body.numbers
      PROVE  LET t == s.payload.texts[n] IN
             /\ t.form \in {"empty", "word"} => body.numbers[n] = Absent
             /\ t.form = "integer" /\ t.n # 0 => body.numbers[n] = <<t.n>>
             /\ body.numbers[n] \in {Absent, <<t.n>>}
    BY DEF body
  <1> QED BY <1>1, <1>2

\* A book keeps its levels and their places, however many of them are incomplete.
THEOREM DepthIsKept ==
  ASSUME NEW samples,
         \A s \in samples : s.topic \in Modelled /\ s.payload.whole =>
           \A n \in FieldsOf(s.topic).books : Len(s.payload.books[n]) \in Nat
  PROVE  BooksKeepDepth(samples)
  <1> SUFFICES ASSUME NEW s \in samples, s.topic \in Modelled, s.payload.whole
               PROVE  LET body == Decode(s.topic, s.payload).message.typed[2] IN
                        \A n \in DOMAIN body.books :
                          /\ Len(body.books[n]) = Len(s.payload.books[n])
                          /\ \A k \in 1..Len(body.books[n]) :
                               /\ body.books[n][k].price = Dec(s.payload.books[n][k].price)
                               /\ body.books[n][k].size = Dec(s.payload.books[n][k].size)
    BY DEF BooksKeepDepth
  <1> DEFINE body == Decode(s.topic, s.payload).message.typed[2]
  <1>0. body = Body(s.topic, s.payload)
    BY DecodedBody
  <1> HIDE DEF body
  <1> SUFFICES ASSUME NEW n \in DOMAIN body.books
      PROVE  /\ Len(body.books[n]) = Len(s.payload.books[n])
             /\ \A k \in 1..Len(body.books[n]) :
                  /\ body.books[n][k].price = Dec(s.payload.books[n][k].price)
                  /\ body.books[n][k].size = Dec(s.payload.books[n][k].size)
    BY Zenon DEF body
  <1> DEFINE in == s.payload.books[n]
             out == body.books[n]
  <1>1. n \in FieldsOf(s.topic).books /\ out = Levels(in)
    BY <1>0 DEF Body
  <1>2. Len(in) \in Nat
    BY <1>1
  <1> HIDE DEF in, out
  <1>3. /\ DOMAIN out = 1..Len(in)
        /\ \A k \in 1..Len(in) : out[k].price = Dec(in[k].price) /\ out[k].size = Dec(in[k].size)
    BY <1>1, Zenon DEF Levels
  <1>4. Len(out) = Len(in)
    BY <1>2, <1>3
  <1> QED BY <1>3, <1>4 DEF in, out

\* Whatever arrived, the message names what it is, and is the whole of it.
THEOREM MessagesKept == Spec => []MessagesAreWhole
  <1>1. \A s \in Samples : s.topic \in Modelled /\ s.payload.whole =>
          \A n \in FieldsOf(s.topic).books : Len(s.payload.books[n]) \in Nat
    <2> SUFFICES ASSUME NEW s \in Samples, s.topic \in Modelled, s.payload.whole,
                        NEW n \in FieldsOf(s.topic).books
                 PROVE  Len(s.payload.books[n]) \in Nat
      OBVIOUS
    <2>1. PICK topic \in Modelled : s \in SamplesOf(topic)
      <3>1. s.payload # [whole |-> FALSE]
        OBVIOUS
      <3>2. \A topic \in Topics : s # [topic |-> topic, payload |-> [whole |-> FALSE]]
        BY <3>1
      <3>3. s \in UNION {SamplesOf(topic) : topic \in Modelled}
        BY <3>2 DEF Samples
      <3> QED BY <3>3
    <2>2. PICK w \in BOOLEAN, i \in Instruments, odd \in Odd(topic), t \in Texts, u \in Texts,
               b \in SomeBooks :
            s = [topic |-> topic, payload |-> PayloadOf(topic, w, i, odd, t, u, b)]
      BY <2>1 DEF SamplesOf
    <2>3. s.topic = topic /\ s.payload = PayloadOf(topic, w, i, odd, t, u, b)
      BY <2>2
    <2>4. s.payload.books[n] = b
      BY <2>3 DEF PayloadOf
    <2>5. Len(b) \in Nat
      BY DEF SomeBooks
    <2> QED BY <2>4, <2>5
  <1>2. MessagesAreWhole
    BY <1>1, TypeTellsField, NumbersAreRead, DepthIsKept DEF MessagesAreWhole
  <1> QED BY <1>2, PTL

=============================================================================
