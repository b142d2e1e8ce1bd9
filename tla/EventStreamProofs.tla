------------------------- MODULE EventStreamProofs -------------------------
(***************************************************************************)
(* Theorems about EventStream, for any number of Closes, any budget, any   *)
(* number of connections and of calls of Recv: its types, that it leaks no *)
(* connection and holds one at a time, that it gives up exactly at its     *)
(* budget, and that a refusal is not retried.  They follow from one        *)
(* inductive invariant; each part of it is shown preserved by itself.  The *)
(* last section is about the subscription and the events, for any of them. *)
(***************************************************************************)
EXTENDS MCEventStream, SequenceTheorems, TLAPS

Dialling == pc = "dialing" \/ Connecting

(***************************************************************************)
(* The receiver only reads from, and connect only works on, a connection   *)
(* there is.                                                               *)
(***************************************************************************)
Located ==
  /\ rpc <= dials
  /\ pc \in {"idle", "receiving", "charging", "delaying"} => rpc # None
  /\ mode # "subscribe" => rpc # None
  /\ Connecting => dials # None

(***************************************************************************)
(* The old connection is dropped before connect runs, and Publish, the     *)
(* only step that gives the Stream a connection, is ruled out by done.     *)
(***************************************************************************)
Owned ==
  /\ NoLeak
  /\ Dialling \/ pc = "delaying" => conn = None
  /\ \A c \in Closers : closer[c] # "idle" => done

(***************************************************************************)
(* What Recv has charged and what has failed: the two differ by the        *)
(* attempt under way.                                                      *)
(***************************************************************************)
Charged ==
  /\ failed <= failures
  /\ pc = "receiving" => failures = 0
  /\ pc = "charging" => failed = failures
  /\ pc \in {"charging", "delaying"} => mode = "reconnect"
  /\ Dialling \/ pc = "delaying" =>
       failures = IF mode = "reconnect" THEN failed + 1 ELSE 0
  /\ Dialling /\ mode = "subscribe" => ret = "none"
  /\ pc = "idle" /\ ret = "gaveup" => failed = MaxReconnectAttempts

(***************************************************************************)
(* A connection that was refused ended the Recv that dialled it, so every  *)
(* later one is dialled by a later Recv.                                   *)
(***************************************************************************)
Refused ==
  /\ \A k \in Conns : k > dials => end[k] = "live"
  /\ \A k \in 1..dials :
       /\ by[k] <= recvs
       /\ end[k] \in Refusals /\ by[k] = recvs => pc \in {"idle", "failed"}
  /\ RefusalNotRetried

IInv == TypeOK /\ Located /\ Owned /\ Charged /\ Refused

\* A Stream starts dialling its first connection.
LEMMA InitIInv == Init => IInv
  <1> SUFFICES ASSUME Init PROVE IInv
    OBVIOUS
  <1> USE EventBounds DEF Init, None, Conns, Refusals, Terminal, Connecting, Dialling
  <1>1. TypeOK
    <2>1. /\ end \in [Conns -> {"live", "retryable", "fatal"} \cup Refusals]
          /\ by \in [Conns -> 0..MaxRecvs] /\ closer \in [Closers -> {"idle", "cancelled", "closed"}]
      OBVIOUS
    <2>2. /\ conn \in 0..MaxConns /\ rpc \in 0..MaxConns /\ dials \in 0..MaxConns
          /\ recvs \in 0..MaxRecvs /\ failures \in Nat /\ failed \in Nat
          /\ MaxReconnectAttempts > 0 => failures <= MaxReconnectAttempts
      OBVIOUS
    <2>3. /\ open \subseteq Conns /\ done \in BOOLEAN
          /\ pc = "dialing" /\ mode = "subscribe" /\ ret = "none"
      OBVIOUS
    <2> QED BY <2>1, <2>2, <2>3 DEF TypeOK
  <1>2. Located /\ Charged
    BY DEF Located, Charged
  <1>3. Owned
    BY DEF Owned, NoLeak, Closed
  <1>4. Refused
    BY DEF Refused, RefusalNotRetried
  <1> QED BY <1>1, <1>2, <1>3, <1>4 DEF IInv

\* A connect that fails leaves what it changes typed.
LEMMA FailedTypes ==
  ASSUME TypeOK, NEW err \in Refusals \cup {"retryable", "fatal"}, ConnectFails(err)
  PROVE  /\ pc' \in {"idle", "charging", "failed"}
         /\ mode' \in {"subscribe", "renew", "reconnect"}
         /\ failures' = failures /\ recvs' = recvs /\ failed' \in Nat
         /\ ret' \in {"none", "event", "ctx"} \cup Terminal
  <1> USE DEF TypeOK, Refusals, Terminal
  <1>1. CASE mode = "subscribe"
    BY <1>1 DEF ConnectFails
  <1>2. CASE mode # "subscribe" /\ IsTerminal(err)
    BY <1>2 DEF ConnectFails, RecvReturns, IsTerminal
  <1>3. CASE mode # "subscribe" /\ ~IsTerminal(err)
    BY <1>3 DEF ConnectFails
  <1> QED BY <1>1, <1>2, <1>3

\* The types need only that the connection worked on exists.
LEMMA NextTypeOK ==
  ASSUME TypeOK, Located, [Next]_vars
  PROVE  TypeOK'
  <1> USE EventBounds DEF TypeOK, Located, None, Conns, Refusals, Terminal, Connecting
  <1>1. CASE Recv
    BY <1>1 DEF Recv, stream
  <1>2. CASE DialFails
    BY <1>2 DEF DialFails, ConnectFails, IsTerminal, RecvReturns, stream
  <1>3. CASE Dial
    BY <1>3 DEF Dial
  <1>4. CASE PublishFails
    BY <1>4 DEF PublishFails, ConnectFails, IsTerminal, RecvReturns
  <1>5. CASE Publish
    BY <1>5 DEF Publish
  <1>6. CASE GiveUp
    BY <1>6 DEF GiveUp, BudgetSpent, RecvReturns, stream
  <1>7. CASE Charge
    BY <1>7 DEF Charge, BudgetSpent, DropConn
  <1>8. CASE DelayEnds
    BY <1>8 DEF DelayEnds, stream
  <1>9. CASE DelayCancelled
    BY <1>9 DEF DelayCancelled, RecvReturns, stream
  <1>10. CASE Acknowledged
    BY <1>10 DEF Acknowledged, stream
  <1>11. CASE ReceiveEvent
    BY <1>11 DEF ReceiveEvent, RecvReturns, Readable, stream
  <1>12. CASE ReceiveExpired
    BY <1>12 DEF ReceiveExpired, Readable, DropConn
  <1>13. ASSUME NEW err \in Refusals, ReceiveRefusal(err)
        PROVE  TypeOK'
    BY <1>13 DEF ReceiveRefusal, RecvReturns, Readable, stream
  <1>14. ASSUME NEW err \in Refusals \cup {"retryable", "fatal"}, NotAcknowledged(err)
        PROVE  TypeOK'
    <2>1. ConnectFails(err) /\ end' = [end EXCEPT ![dials] = err] /\ open' = open \ {dials}
          /\ UNCHANGED <<done, conn, rpc, dials, by, closer>>
      BY <1>14 DEF NotAcknowledged
    <2>2. /\ pc' \in {"idle", "charging", "failed"}
          /\ mode' \in {"subscribe", "renew", "reconnect"}
          /\ failures' = failures /\ recvs' = recvs /\ failed' \in Nat
          /\ ret' \in {"none", "event", "ctx"} \cup Terminal
      BY <2>1, <1>14, FailedTypes
    <2>3. end' \in [Conns -> {"live", "retryable", "fatal"} \cup Refusals] /\ open' \subseteq Conns
      BY <2>1, <1>14
    <2> QED BY <2>1, <2>2, <2>3
  <1>15. ASSUME NEW err \in {"retryable", "fatal"}, RpcFails(err)
        PROVE  TypeOK'
    BY <1>15 DEF RpcFails, RecvReturns
  <1>16. CASE Cancel
    BY <1>16 DEF Cancel, stream, call
  <1>17. ASSUME NEW c \in Closers, CloseCancels(c)
        PROVE  TypeOK'
    BY <1>17 DEF CloseCancels, stream, call
  <1>18. ASSUME NEW c \in Closers, CloseReleases(c)
        PROVE  TypeOK'
    BY <1>18 DEF CloseReleases, DropConn, call
  <1>19. CASE UNCHANGED vars
    BY <1>19 DEF vars, stream, call
  <1> QED
    BY <1>1, <1>2, <1>3, <1>4, <1>5, <1>6, <1>7, <1>8, <1>9, <1>10, <1>11, <1>12,
       <1>13, <1>14, <1>15, <1>16, <1>17, <1>18, <1>19
    DEF Next, Runs, Hears

\* Publish makes the newest connection the one that is read.
LEMMA NextLocated ==
  ASSUME TypeOK, Located, [Next]_vars
  PROVE  Located'
  <1> USE EventBounds DEF TypeOK, Located, None, Conns, Refusals, Terminal, Connecting
  <1>1. CASE Recv
    BY <1>1 DEF Recv, stream
  <1>2. CASE DialFails
    BY <1>2 DEF DialFails, ConnectFails, IsTerminal, RecvReturns, stream
  <1>3. CASE Dial
    BY <1>3 DEF Dial
  <1>4. CASE PublishFails
    BY <1>4 DEF PublishFails, ConnectFails, IsTerminal, RecvReturns
  <1>5. CASE Publish
    BY <1>5 DEF Publish
  <1>6. CASE GiveUp
    BY <1>6 DEF GiveUp, BudgetSpent, RecvReturns, stream
  <1>7. CASE Charge
    BY <1>7 DEF Charge, BudgetSpent, DropConn
  <1>8. CASE DelayEnds
    BY <1>8 DEF DelayEnds, stream
  <1>9. CASE DelayCancelled
    BY <1>9 DEF DelayCancelled, RecvReturns, stream
  <1>10. CASE Acknowledged
    BY <1>10 DEF Acknowledged, stream
  <1>11. CASE ReceiveEvent
    BY <1>11 DEF ReceiveEvent, RecvReturns, Readable, stream
  <1>12. CASE ReceiveExpired
    BY <1>12 DEF ReceiveExpired, Readable, DropConn
  <1>13. ASSUME NEW err \in Refusals, ReceiveRefusal(err)
        PROVE  Located'
    BY <1>13 DEF ReceiveRefusal, RecvReturns, Readable, stream
  <1>14. ASSUME NEW err \in Refusals \cup {"retryable", "fatal"}, NotAcknowledged(err)
        PROVE  Located'
    BY <1>14 DEF NotAcknowledged, ConnectFails, IsTerminal, RecvReturns
  <1>15. ASSUME NEW err \in {"retryable", "fatal"}, RpcFails(err)
        PROVE  Located'
    BY <1>15 DEF RpcFails, RecvReturns
  <1>16. CASE Cancel
    BY <1>16 DEF Cancel, stream, call
  <1>17. ASSUME NEW c \in Closers, CloseCancels(c)
        PROVE  Located'
    BY <1>17 DEF CloseCancels, stream, call
  <1>18. ASSUME NEW c \in Closers, CloseReleases(c)
        PROVE  Located'
    BY <1>18 DEF CloseReleases, DropConn, call
  <1>19. CASE UNCHANGED vars
    BY <1>19 DEF vars, stream, call
  <1> QED
    BY <1>1, <1>2, <1>3, <1>4, <1>5, <1>6, <1>7, <1>8, <1>9, <1>10, <1>11, <1>12,
       <1>13, <1>14, <1>15, <1>16, <1>17, <1>18, <1>19
    DEF Next, Runs, Hears

\* Connections are opened by Dial, given to the Stream by Publish and closed on every
\* other way out.
LEMMA NextOwned ==
  ASSUME TypeOK, Located, Owned, [Next]_vars
  PROVE  Owned'
  <1> USE EventBounds DEF TypeOK, Located, Owned, NoLeak, Closed, Dialling, None, Conns,
      Refusals, Connecting
  <1>1. CASE Recv
    BY <1>1 DEF Recv, stream
  <1>2. CASE DialFails
    BY <1>2 DEF DialFails, ConnectFails, IsTerminal, RecvReturns, stream
  <1>3. CASE Dial
    BY <1>3 DEF Dial
  <1>4. CASE PublishFails
    BY <1>4 DEF PublishFails, ConnectFails, IsTerminal, RecvReturns
  <1>5. CASE Publish
    BY <1>5 DEF Publish
  <1>6. CASE GiveUp
    BY <1>6 DEF GiveUp, BudgetSpent, RecvReturns, stream
  <1>7. CASE Charge
    <2>1. /\ pc = "charging" /\ pc' = "delaying" /\ UNCHANGED <<done, closer>>
          /\ open' = open \ {conn} /\ conn' = 0
      BY <1>7 DEF Charge, DropConn
    <2>2. NoLeak'
      BY <2>1
    <2> QED BY <2>1, <2>2
  <1>8. CASE DelayEnds
    BY <1>8 DEF DelayEnds, stream
  <1>9. CASE DelayCancelled
    BY <1>9 DEF DelayCancelled, RecvReturns, stream
  <1>10. CASE Acknowledged
    BY <1>10 DEF Acknowledged, stream
  <1>11. CASE ReceiveEvent
    BY <1>11 DEF ReceiveEvent, RecvReturns, Readable, stream
  <1>12. CASE ReceiveExpired
    BY <1>12 DEF ReceiveExpired, Readable, DropConn
  <1>13. ASSUME NEW err \in Refusals, ReceiveRefusal(err)
        PROVE  Owned'
    BY <1>13 DEF ReceiveRefusal, RecvReturns, Readable, stream
  <1>14. ASSUME NEW err \in Refusals \cup {"retryable", "fatal"}, NotAcknowledged(err)
        PROVE  Owned'
    BY <1>14 DEF NotAcknowledged, ConnectFails, IsTerminal, RecvReturns
  <1>15. ASSUME NEW err \in {"retryable", "fatal"}, RpcFails(err)
        PROVE  Owned'
    BY <1>15 DEF RpcFails, RecvReturns
  <1>16. CASE Cancel
    BY <1>16 DEF Cancel, stream, call
  <1>17. ASSUME NEW c \in Closers, CloseCancels(c)
        PROVE  Owned'
    BY <1>17 DEF CloseCancels, stream, call
  <1>18. ASSUME NEW c \in Closers, CloseReleases(c)
        PROVE  Owned'
    BY <1>18 DEF CloseReleases, DropConn, call
  <1>19. CASE UNCHANGED vars
    BY <1>19 DEF vars, stream, call
  <1> QED
    BY <1>1, <1>2, <1>3, <1>4, <1>5, <1>6, <1>7, <1>8, <1>9, <1>10, <1>11, <1>12,
       <1>13, <1>14, <1>15, <1>16, <1>17, <1>18, <1>19
    DEF Next, Runs, Hears

\* Each charge is followed by one connect, which fails or resets both counts.
LEMMA NextCharged ==
  ASSUME TypeOK, Charged, [Next]_vars
  PROVE  Charged'
  <1> USE EventBounds DEF TypeOK, Charged, Dialling, Refusals, Terminal, Connecting
  <1>1. CASE Recv
    BY <1>1 DEF Recv, stream
  <1>2. CASE DialFails
    BY <1>2 DEF DialFails, ConnectFails, IsTerminal, RecvReturns, stream
  <1>3. CASE Dial
    BY <1>3 DEF Dial
  <1>4. CASE PublishFails
    BY <1>4 DEF PublishFails, ConnectFails, IsTerminal, RecvReturns
  <1>5. CASE Publish
    BY <1>5 DEF Publish
  <1>6. CASE GiveUp
    BY <1>6 DEF GiveUp, BudgetSpent, RecvReturns, stream
  <1>7. CASE Charge
    BY <1>7 DEF Charge, BudgetSpent, DropConn
  <1>8. CASE DelayEnds
    BY <1>8 DEF DelayEnds, stream
  <1>9. CASE DelayCancelled
    BY <1>9 DEF DelayCancelled, RecvReturns, stream
  <1>10. CASE Acknowledged
    BY <1>10 DEF Acknowledged, stream
  <1>11. CASE ReceiveEvent
    BY <1>11 DEF ReceiveEvent, RecvReturns, Readable, stream
  <1>12. CASE ReceiveExpired
    BY <1>12 DEF ReceiveExpired, Readable, DropConn
  <1>13. ASSUME NEW err \in Refusals, ReceiveRefusal(err)
        PROVE  Charged'
    BY <1>13 DEF ReceiveRefusal, RecvReturns, Readable, stream
  <1>14. ASSUME NEW err \in Refusals \cup {"retryable", "fatal"}, NotAcknowledged(err)
        PROVE  Charged'
    BY <1>14 DEF NotAcknowledged, ConnectFails, IsTerminal, RecvReturns
  <1>15. ASSUME NEW err \in {"retryable", "fatal"}, RpcFails(err)
        PROVE  Charged'
    BY <1>15 DEF RpcFails, RecvReturns
  <1>16. CASE Cancel
    BY <1>16 DEF Cancel, stream, call
  <1>17. ASSUME NEW c \in Closers, CloseCancels(c)
        PROVE  Charged'
    BY <1>17 DEF CloseCancels, stream, call
  <1>18. ASSUME NEW c \in Closers, CloseReleases(c)
        PROVE  Charged'
    BY <1>18 DEF CloseReleases, DropConn, call
  <1>19. CASE UNCHANGED vars
    BY <1>19 DEF vars, stream, call
  <1> QED
    BY <1>1, <1>2, <1>3, <1>4, <1>5, <1>6, <1>7, <1>8, <1>9, <1>10, <1>11, <1>12,
       <1>13, <1>14, <1>15, <1>16, <1>17, <1>18, <1>19
    DEF Next, Runs, Hears

\* A refusal ends the Recv or the Subscribe that dialled.
LEMMA NextRefused ==
  ASSUME TypeOK, Located, Refused, [Next]_vars
  PROVE  Refused'
  <1> USE EventBounds DEF TypeOK, Located, Refused, RefusalNotRetried, None, Conns, Refusals,
      Connecting
  <1>1. CASE Recv
    BY <1>1 DEF Recv, stream
  <1>2. CASE DialFails
    BY <1>2 DEF DialFails, ConnectFails, IsTerminal, RecvReturns, stream
  <1>3. CASE Dial
    BY <1>3 DEF Dial
  <1>4. CASE PublishFails
    BY <1>4 DEF PublishFails, ConnectFails, IsTerminal, RecvReturns
  <1>5. CASE Publish
    BY <1>5 DEF Publish
  <1>6. CASE GiveUp
    BY <1>6 DEF GiveUp, BudgetSpent, RecvReturns, stream
  <1>7. CASE Charge
    BY <1>7 DEF Charge, BudgetSpent, DropConn
  <1>8. CASE DelayEnds
    BY <1>8 DEF DelayEnds, stream
  <1>9. CASE DelayCancelled
    BY <1>9 DEF DelayCancelled, RecvReturns, stream
  <1>10. CASE Acknowledged
    BY <1>10 DEF Acknowledged, stream
  <1>11. CASE ReceiveEvent
    BY <1>11 DEF ReceiveEvent, RecvReturns, Readable, stream
  <1>12. CASE ReceiveExpired
    BY <1>12 DEF ReceiveExpired, Readable, DropConn
  <1>13. ASSUME NEW err \in Refusals, ReceiveRefusal(err)
        PROVE  Refused'
    BY <1>13 DEF ReceiveRefusal, RecvReturns, Readable, stream
  <1>14. ASSUME NEW err \in Refusals \cup {"retryable", "fatal"}, NotAcknowledged(err)
        PROVE  Refused'
    BY <1>14 DEF NotAcknowledged, ConnectFails, IsTerminal, RecvReturns
  <1>15. ASSUME NEW err \in {"retryable", "fatal"}, RpcFails(err)
        PROVE  Refused'
    BY <1>15 DEF RpcFails, RecvReturns
  <1>16. CASE Cancel
    BY <1>16 DEF Cancel, stream, call
  <1>17. ASSUME NEW c \in Closers, CloseCancels(c)
        PROVE  Refused'
    BY <1>17 DEF CloseCancels, stream, call
  <1>18. ASSUME NEW c \in Closers, CloseReleases(c)
        PROVE  Refused'
    BY <1>18 DEF CloseReleases, DropConn, call
  <1>19. CASE UNCHANGED vars
    BY <1>19 DEF vars, stream, call
  <1> QED
    BY <1>1, <1>2, <1>3, <1>4, <1>5, <1>6, <1>7, <1>8, <1>9, <1>10, <1>11, <1>12,
       <1>13, <1>14, <1>15, <1>16, <1>17, <1>18, <1>19
    DEF Next, Runs, Hears

\* The parts are preserved together.
LEMMA NextIInv == IInv /\ [Next]_vars => IInv'
  <1> QED
    BY NextTypeOK, NextLocated, NextOwned, NextCharged, NextRefused DEF IInv

\* Every variable keeps its type, for any number of Closes, connections and calls of
\* Recv; in particular Recv never charges more attempts than the budget has.
THEOREM TypeCorrect == Spec => []TypeOK
  <1> QED BY InitIInv, NextIInv, PTL DEF Spec, IInv

\* Whenever Close runs, a connection that is open belongs to the Stream or to the
\* connect under way, and after a Close the Stream has none.
THEOREM NothingLeaks == Spec => []NoLeak
  <1>1. IInv => NoLeak
    BY DEF IInv, Owned
  <1> QED BY <1>1, InitIInv, NextIInv, PTL DEF Spec

\* A Stream never holds two connections against the key's limit.
THEOREM HoldsOneConnection == Spec => []OneConnection
  <1>1. IInv => OneConnection
    BY DEF IInv, TypeOK, Owned, NoLeak, OneConnection, Dialling, Connecting, None, Conns
  <1> QED BY <1>1, InitIInv, NextIInv, PTL DEF Spec

\* Recv gives up after exactly MaxReconnectAttempts failures, for any budget.
THEOREM GivesUpExactlyAtBudget == Spec => []GivesUpAtBudget
  <1>1. IInv => GivesUpAtBudget
    BY EventBounds DEF IInv, TypeOK, Charged, GivesUpAtBudget
  <1> QED BY <1>1, InitIInv, NextIInv, PTL DEF Spec

\* After a refusal nothing is dialled before the caller calls Recv again.
THEOREM RefusalsEndRecv == Spec => []RefusalNotRetried
  <1>1. IInv => RefusalNotRetried
    BY DEF IInv, Refused
  <1> QED BY <1>1, InitIInv, NextIInv, PTL DEF Spec

(***************************************************************************)
(* The subscription, and the events.                                       *)
(***************************************************************************)

\* The bits of the sum of some families are those families.
LEMMA BitsOfSum ==
  ASSUME NEW B \in SUBSET Families
  PROVE  /\ Sum(B) \in 0..7 /\ Bits(Sum(B)) = B
         /\ B # {} => Sum(B) # 0
  <1>1. \A b \in {TRUE, FALSE}, c \in {TRUE, FALSE}, d \in {TRUE, FALSE} :
          LET n == (IF b THEN 1 ELSE 0) + (IF c THEN 2 ELSE 0) + (IF d THEN 4 ELSE 0) IN
          /\ n \in 0..7
          /\ (n \div 1) % 2 = 1 <=> b
          /\ (n \div 2) % 2 = 1 <=> c
          /\ (n \div 4) % 2 = 1 <=> d
          /\ (b \/ c \/ d) => n # 0
    OBVIOUS
  <1>2. Sum(B) = (IF 1 \in B THEN 1 ELSE 0) + (IF 2 \in B THEN 2 ELSE 0) + (IF 4 \in B THEN 4 ELSE 0)
    BY DEF Sum, Orders, Positions, Options
  <1> DEFINE n == Sum(B)
  <1>3. /\ n \in 0..7
        /\ (n \div 1) % 2 = 1 <=> 1 \in B
        /\ (n \div 2) % 2 = 1 <=> 2 \in B
        /\ (n \div 4) % 2 = 1 <=> 4 \in B
        /\ (1 \in B \/ 2 \in B \/ 4 \in B) => n # 0
    BY <1>1, <1>2
  <1> HIDE DEF n
  <1>4. Families = {1, 2, 4}
    BY DEF Families, Orders, Positions, Options
  <1>5. Bits(n) = B
    BY <1>3, <1>4 DEF Bits
  <1>6. B # {} => n # 0
    BY <1>3, <1>4
  <1> QED BY <1>3, <1>5, <1>6 DEF n

\* A number below eight names some family, and families alone.
LEMMA BitsAreThere ==
  ASSUME NEW t \in 1..7
  PROVE  Bits(t) # {} /\ Bits(t) \subseteq Families
  <1>1. (t \div 1) % 2 = 1 \/ (t \div 2) % 2 = 1 \/ (t \div 4) % 2 = 1
    OBVIOUS
  <1> QED BY <1>1 DEF Bits, Families, Orders, Positions, Options

\* The server is asked for the families listed, however they are repeated or combined.
THEOREM MaskAsksForUnion == MaskIsUnion(Seq(1..7))
  <1> SUFFICES ASSUME NEW types \in Seq(1..7)
      PROVE  /\ Mask(types) \in 1..7
             /\ Bits(Mask(types)) = IF types = <<>> THEN Families
                                    ELSE UNION {Bits(types[k]) : k \in 1..Len(types)}
    BY DEF MaskIsUnion
  <1> DEFINE B == UNION {Bits(types[k]) : k \in 1..Len(types)}
  <1>1. CASE types = <<>>
    <2>1. Families \in SUBSET Families /\ Families # {}
      BY DEF Families
    <2>2. Sum(Families) \in 0..7 /\ Bits(Sum(Families)) = Families /\ Sum(Families) # 0
      BY <2>1, BitsOfSum
    <2> QED BY <1>1, <2>2 DEF Mask
  <1>2. CASE types # <<>>
    <2>1. Len(types) \in Nat /\ \A k \in 1..Len(types) : types[k] \in 1..7
      OBVIOUS
    <2>2. 1 \in 1..Len(types)
      BY <1>2, <2>1
    <2>3. \A k \in 1..Len(types) : Bits(types[k]) # {} /\ Bits(types[k]) \subseteq Families
      BY <2>1, BitsAreThere
    <2>4. B \subseteq Families
      BY <2>3
    <2>5. Bits(types[1]) \subseteq B
      BY <2>2
    <2>6. B # {}
      BY <2>2, <2>3, <2>5
    <2>7. Sum(B) \in 0..7 /\ Bits(Sum(B)) = B /\ Sum(B) # 0
      BY <2>4, <2>6, BitsOfSum
    <2> QED BY <1>2, <2>7 DEF Mask
  <1> QED BY <1>1, <1>2

\* What a field of a typed event is.
LEMMA DecodedField ==
  ASSUME NEW f, NEW s
  PROVE  DecodeField(f, s) = Nothing => Blank(s)
  <1>1. \A n : Value(n) # Nothing
    BY DEF Value, Nothing
  <1>2. Error # Nothing
    BY DEF Error, Nothing
  <1>3. Decimal(s) = Nothing => Blank(s)
    BY <1>1, <1>2 DEF Decimal
  <1>4. Time(s) = Nothing => Blank(s)
    BY <1>1, <1>2 DEF Time
  <1>5. String(s) = Nothing => Blank(s)
    BY <1>1, <1>2 DEF String
  <1>6. DecodeField(f, s) \in {String(s), Time(s), Decimal(s)}
    BY DEF DecodeField
  <1> QED BY <1>3, <1>4, <1>5, <1>6

\* A typed event is decoded whole or is absent.
LEMMA TypedIsWhole ==
  ASSUME NEW kind, NEW payload, Typed(kind, payload) # <<>>
  PROVE  \A f \in DOMAIN Typed(kind, payload)[1] :
           /\ Typed(kind, payload)[1][f] # Error
           /\ Typed(kind, payload)[1][f] = Nothing => Blank(payload.fields[f])
  <1>1. Decodes(kind, payload) /\ Typed(kind, payload)[1] = Unmarshalled(kind, payload)
    BY DEF Typed
  <1>2. /\ DOMAIN Unmarshalled(kind, payload) = Fields(kind)
        /\ \A f \in Fields(kind) :
             Unmarshalled(kind, payload)[f] = DecodeField(f, payload.fields[f])
    BY DEF Unmarshalled
  <1>3. \A f \in Fields(kind) : Unmarshalled(kind, payload)[f] # Error
    BY <1>1 DEF Decodes
  <1> QED BY <1>1, <1>2, <1>3, DecodedField

\* A typed event is the whole of its payload, for any payload.
THEOREM EventKeepsPayload == \A kinds, types, payloads : EventIsWhole(kinds, types, payloads)
  <1> SUFFICES ASSUME NEW kind, NEW contentType, NEW payload
      PROVE  LET ev == DecodeEvent(kind, contentType, payload, "delivery", 1) IN
             /\ ev.payload = payload /\ ev.requestID = "delivery"
             /\ ev.order # <<>> => kind = KindOrder
             /\ ev.position # <<>> => kind = KindPosition
             /\ \A typed \in {ev.order, ev.position} \ {<<>>} :
                  \A f \in DOMAIN typed[1] :
                    /\ typed[1][f] # Error
                    /\ typed[1][f] = Nothing => Blank(payload.fields[f])
    BY DEF EventIsWhole
  <1> DEFINE ev == DecodeEvent(kind, contentType, payload, "delivery", 1)
  <1>1. /\ ev.payload = payload /\ ev.requestID = "delivery"
        /\ ev.order # <<>> => kind = KindOrder /\ ev.order = Typed(kind, payload)
        /\ ev.position # <<>> => kind = KindPosition /\ ev.position = Typed(kind, payload)
    BY DEF DecodeEvent
  <1> HIDE DEF ev
  <1>2. \A typed \in {ev.order, ev.position} \ {<<>>} : typed = Typed(kind, payload)
    BY <1>1
  <1> QED BY <1>1, <1>2, TypedIsWhole DEF ev

\* A subscription is for what was asked, and no event loses a field.
THEOREM EventsKept == Spec => []EventsAreWhole
  <1>1. UNION {[1..n -> 1..7] : n \in 0..3} \subseteq Seq(1..7)
    <2>1. ASSUME NEW n \in 0..3, NEW s \in [1..n -> 1..7]
          PROVE  s \in Seq(1..7)
      BY SeqDef
    <2> QED BY <2>1
  <1>2. MaskIsUnion(UNION {[1..n -> 1..7] : n \in 0..3})
    BY <1>1, MaskAsksForUnion DEF MaskIsUnion
  <1>3. EventsAreWhole
    BY <1>2, EventKeepsPayload DEF EventsAreWhole
  <1> QED BY <1>3, PTL

=============================================================================
