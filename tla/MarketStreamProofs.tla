------------------------- MODULE MarketStreamProofs -------------------------
(***************************************************************************)
(* Theorems about MarketStream, for any users, symbols, types and options, *)
(* and any number of POSTs and of lost connections: its types, that what   *)
(* was forgotten stays forgotten, and that the replays restore what was    *)
(* subscribed to.                                                          *)
(***************************************************************************)
EXTENDS MarketStream, TLAPS

(***************************************************************************)
(* Who holds subMu, and the handlers that are to run: one more for each    *)
(* connect, and none after Close.                                          *)
(***************************************************************************)
Locked ==
  /\ mu = "free" => request = NoRequest
  /\ mu = "replay" => handlers > 0
  /\ answer # "none" => request # NoRequest
  /\ request # NoRequest => posts > 0
  /\ handlers <= drops + 1
  /\ ~connected /\ ~closed => handlers <= drops

(***************************************************************************)
(* A POST that may still be executed confines what it can change to the    *)
(* keys in doubt, and to none that the current POST will clear.            *)
(***************************************************************************)
Confined ==
  /\ \A l \in late : l.request.keys \subseteq doubt
  /\ request # NoRequest =>
       /\ clears \subseteq request.keys
       /\ request.keys \ clears \subseteq doubt
       /\ \A l \in late : l.request.keys \cap clears = {}

(***************************************************************************)
(* A replay sends what the Stream remembers, which does not change while   *)
(* the replay holds subMu.                                                 *)
(***************************************************************************)
Replaying ==
  mu = "replay" =>
    /\ \A g \in groups : g.keys # {} /\ \A k \in g.keys : subs[k] = g.option
    /\ \A k \in request.keys : subs[k] = request.option

(***************************************************************************)
(* No handler is to run but the one that holds subMu, so that the          *)
(* connection has been up since the current POST or replay began.          *)
(***************************************************************************)
Quiet == connected /\ handlers = (IF mu = "replay" THEN 1 ELSE 0)

Executed(k) == answer = "executed" /\ k \in request.keys

(***************************************************************************)
(* What the broker may stream for a key: what the Stream remembers, what a *)
(* call has just asked for, or nothing after a lost connection.            *)
(***************************************************************************)
Follows ==
  /\ \A k \in Keys \ doubt :
       server[k] \in {NoOption, IF mu \in Users /\ Executed(k) THEN request.option ELSE subs[k]}
  /\ answer = "executed" =>
       \A k \in clears : server[k] \in {NoOption, request.option}

(***************************************************************************)
(* While the connection stays up it is not nothing, but for the keys that  *)
(* the replay has still to send.                                           *)
(***************************************************************************)
Restored ==
  Quiet =>
    /\ \A k \in Keys \ doubt :
         \/ server[k] = IF mu \in Users /\ Executed(k) THEN request.option ELSE subs[k]
         \/ /\ mu = "replay"
            /\ (\E g \in groups : k \in g.keys) \/ (k \in request.keys /\ ~Executed(k))
    /\ answer = "executed" => \A k \in clears : server[k] = request.option

IInv == TypeOK /\ Locked /\ Confined /\ Replaying /\ Follows /\ Restored

\* The POST of a Subscribe or an Unsubscribe.
Starts(u, r) ==
  /\ mu = "free" /\ mu' = u
  /\ r.keys # {} /\ Sends(r)
  /\ UNCHANGED <<subs, replay>>

\* A request names some keys, so it is never taken for none.
LEMMA RequestFacts ==
  ASSUME NEW syms \in (SUBSET Symbols) \ {{}}, NEW types \in (SUBSET Types) \ {{}},
         NEW o \in Options \cup {NoOption}
  PROVE  Request(syms, types, o) \in Requests /\ Request(syms, types, o).keys # {}
  <1>1. syms \X types \subseteq Keys
    BY DEF Keys
  <1>2. PICK s \in syms, t \in types : TRUE
    OBVIOUS
  <1>3. <<s, t>> \in syms \X types
    OBVIOUS
  <1> QED BY <1>1, <1>3 DEF Request, Requests

\* No request is a record of its own.
LEMMA NoRequestIsEmpty ==
  NoRequest \in Requests /\ NoRequest.keys = {} /\ NoRequest.option = NoOption
  <1>1. {} \X {} = {}
    OBVIOUS
  <1> QED BY <1>1 DEF NoRequest, Request, Requests

\* What resubscribe groups is what is remembered, all of it.
LEMMA GroupedFacts ==
  ASSUME subs \in [Keys -> Options \cup {NoOption}]
  PROVE  /\ \A g \in Grouped :
              /\ g \in [keys : SUBSET Keys, option : Options]
              /\ \A k \in g.keys : subs[k] = g.option
         /\ \A k \in Keys : subs[k] # NoOption => \E g \in Grouped : k \in g.keys
  <1> DEFINE Group(t, o) == Request({s \in Symbols : subs[<<s, t>>] = o}, {t}, o)
  <1>1. ASSUME NEW t \in Types, NEW o \in Options
        PROVE  /\ Group(t, o) \in [keys : SUBSET Keys, option : Options]
               /\ \A k \in Group(t, o).keys : subs[k] = Group(t, o).option
    BY DEF Request, Keys
  <1>2. ASSUME NEW k \in Keys, subs[k] # NoOption
        PROVE  \E t \in Types, o \in Options : k \in Group(t, o).keys
    <2>1. PICK s \in Symbols, t \in Types : k = <<s, t>>
      BY DEF Keys
    <2>2. subs[k] \in Options
      BY <1>2
    <2>3. k \in Group(t, subs[k]).keys
      BY <2>1 DEF Request
    <2> QED BY <2>2, <2>3
  <1>3. Grouped = {Group(t, o) : t \in Types, o \in Options}
    BY DEF Grouped
  <1> HIDE DEF Group
  <1> QED BY <1>1, <1>2, <1>3

\* Subscribe and Unsubscribe start alike.
LEMMA CallStarts ==
  ASSUME NEW u \in Users, Subscribe(u) \/ Unsubscribe(u)
  PROVE  \E r \in Requests : Starts(u, r)
  <1>1. CASE Subscribe(u)
    BY <1>1, RequestFacts DEF Subscribe, Starts
  <1>2. CASE Unsubscribe(u)
    BY <1>2, RequestFacts DEF Unsubscribe, Starts
  <1> QED BY <1>1, <1>2

\* Nothing is subscribed to, and the first handler is to run.
LEMMA InitIInv == Init => IInv
  <1> SUFFICES ASSUME Init PROVE IInv
    OBVIOUS
  <1> USE StreamAssumption, NoRequestIsEmpty DEF Init, Nothing
  <1>1. TypeOK
    <2>1. /\ subs \in [Keys -> Options \cup {NoOption}]
          /\ server \in [Keys -> Options \cup {NoOption}]
      OBVIOUS
    <2>2. mu \in Users \cup {"free", "replay"} /\ request \in Requests /\ answer = "none"
      OBVIOUS
    <2>3. /\ posts \in 0..MaxPosts /\ handlers \in 0..(MaxDrops + 1) /\ drops \in 0..MaxDrops
          /\ dropped \in Nat
      OBVIOUS
    <2>4. /\ late = {} /\ groups = {} /\ clears = {} /\ doubt = {}
          /\ connected \in BOOLEAN /\ closed \in BOOLEAN
      OBVIOUS
    <2> QED BY <2>1, <2>2, <2>3, <2>4 DEF TypeOK
  <1>2. Locked /\ Confined /\ Replaying
    BY DEF Locked, Confined, Replaying
  <1>3. Follows /\ Restored
    BY DEF Follows, Restored, Executed
  <1> QED BY <1>1, <1>2, <1>3 DEF IInv

\* The types need the count of the handlers.
LEMMA NextTypeOK ==
  ASSUME TypeOK, Locked, [Next]_vars
  PROVE  TypeOK'
  <1> USE StreamAssumption, NoRequestIsEmpty, GroupedFacts DEF TypeOK, Locked, Requests
  <1>1. ASSUME NEW u \in Users, NEW r \in Requests, Starts(u, r)
        PROVE  TypeOK'
    BY <1>1 DEF Starts, Sends, replay, net
  <1>2. ASSUME NEW u \in Users, CallSucceeds(u)
        PROVE  TypeOK'
    BY <1>2 DEF CallSucceeds, Succeeds, Put, replay, net
  <1>3. ASSUME NEW u \in Users, CallFails(u)
        PROVE  TypeOK'
    BY <1>3 DEF CallFails, Fails, replay, net
  <1>4. CASE StartReplay
    BY <1>4 DEF StartReplay, call, net, ghosts
  <1>5. CASE ReplayGroup
    BY <1>5 DEF ReplayGroup, Sends, net
  <1>6. CASE ReplayGroupSucceeds
    BY <1>6 DEF ReplayGroupSucceeds, Succeeds, replay, net
  <1>7. CASE ReplayGroupFails
    BY <1>7 DEF ReplayGroupFails, Fails, net
  <1>8. CASE ReplayExpires
    BY <1>8 DEF ReplayExpires, call, net
  <1>9. CASE EndReplay
    BY <1>9 DEF EndReplay, call, net, ghosts
  <1>10. CASE Disconnect
    <2>1. server' \in [Keys -> Options \cup {NoOption}]
      BY <1>10 DEF Disconnect, Nothing
    <2>2. drops' \in 0..MaxDrops /\ connected' = FALSE
      BY <1>10 DEF Disconnect
    <2>3. UNCHANGED <<mu, subs, request, answer, posts, groups, handlers, dropped, closed, late,
                      clears, doubt>>
      BY <1>10 DEF Disconnect, call, replay, ghosts
    <2> QED BY <2>1, <2>2, <2>3
  <1>11. CASE Reconnect
    BY <1>11 DEF Reconnect, call, ghosts
  <1>12. CASE Close
    BY <1>12 DEF Close, Nothing, call, replay, ghosts
  <1>13. CASE Executes
    BY <1>13 DEF Executes, Put, replay, net, ghosts
  <1>14. CASE Refuses
    BY <1>14 DEF Refuses, replay, net, ghosts
  <1>15. ASSUME NEW l \in late, ExecutesLate(l)
        PROVE  TypeOK'
    BY <1>15 DEF ExecutesLate, Put, call, replay, net, ghosts
  <1>16. ASSUME NEW l \in late, LosesLate(l)
        PROVE  TypeOK'
    BY <1>16 DEF LosesLate, call, replay, net, ghosts
  <1>17. CASE UNCHANGED vars
    BY <1>17 DEF vars, call, replay, net, ghosts
  <1> QED
    BY CallStarts, <1>1, <1>2, <1>3, <1>4, <1>5, <1>6, <1>7, <1>8, <1>9, <1>10, <1>11, <1>12,
       <1>13, <1>14, <1>15, <1>16, <1>17
    DEF Next, Replays

\* A handler is started by a connect, and ends with a replay.
LEMMA NextLocked ==
  ASSUME TypeOK, Locked, [Next]_vars
  PROVE  Locked'
  <1> USE StreamAssumption, NoRequestIsEmpty DEF TypeOK, Locked
  <1>1. ASSUME NEW u \in Users, NEW r \in Requests, Starts(u, r)
        PROVE  Locked'
    BY <1>1 DEF Starts, Sends, replay, net
  <1>2. ASSUME NEW u \in Users, CallSucceeds(u)
        PROVE  Locked'
    BY <1>2 DEF CallSucceeds, Succeeds, Put, replay, net
  <1>3. ASSUME NEW u \in Users, CallFails(u)
        PROVE  Locked'
    BY <1>3 DEF CallFails, Fails, replay, net
  <1>4. CASE StartReplay
    BY <1>4 DEF StartReplay, call, net, ghosts
  <1>5. CASE ReplayGroup
    BY <1>5 DEF ReplayGroup, Sends, net
  <1>6. CASE ReplayGroupSucceeds
    BY <1>6 DEF ReplayGroupSucceeds, Succeeds, replay, net
  <1>7. CASE ReplayGroupFails
    BY <1>7 DEF ReplayGroupFails, Fails, net
  <1>8. CASE ReplayExpires
    BY <1>8 DEF ReplayExpires, call, net
  <1>9. CASE EndReplay
    BY <1>9 DEF EndReplay, call, net, ghosts
  <1>10. CASE Disconnect
    BY <1>10 DEF Disconnect, Nothing, call, replay, ghosts
  <1>11. CASE Reconnect
    BY <1>11 DEF Reconnect, call, ghosts
  <1>12. CASE Close
    BY <1>12 DEF Close, Nothing, call, replay, ghosts
  <1>13. CASE Executes
    BY <1>13 DEF Executes, Put, replay, net, ghosts
  <1>14. CASE Refuses
    BY <1>14 DEF Refuses, replay, net, ghosts
  <1>15. ASSUME NEW l \in late, ExecutesLate(l)
        PROVE  Locked'
    BY <1>15 DEF ExecutesLate, Put, call, replay, net, ghosts
  <1>16. ASSUME NEW l \in late, LosesLate(l)
        PROVE  Locked'
    BY <1>16 DEF LosesLate, call, replay, net, ghosts
  <1>17. CASE UNCHANGED vars
    BY <1>17 DEF vars, call, replay, net, ghosts
  <1> QED
    BY CallStarts, <1>1, <1>2, <1>3, <1>4, <1>5, <1>6, <1>7, <1>8, <1>9, <1>10, <1>11, <1>12,
       <1>13, <1>14, <1>15, <1>16, <1>17
    DEF Next, Replays

\* A POST that fails puts its keys in doubt; one that succeeds clears only those that no
\* other POST can still change.
LEMMA NextConfined ==
  ASSUME TypeOK, Locked, Confined, [Next]_vars
  PROVE  Confined'
  <1> USE StreamAssumption, NoRequestIsEmpty DEF TypeOK, Locked, Confined, Requests
  <1>1. ASSUME NEW u \in Users, NEW r \in Requests, Starts(u, r)
        PROVE  Confined'
    BY <1>1 DEF Starts, Sends, replay, net
  <1>2. ASSUME NEW u \in Users, CallSucceeds(u)
        PROVE  Confined'
    BY <1>2 DEF CallSucceeds, Succeeds, Put, replay, net
  <1>3. ASSUME NEW u \in Users, CallFails(u)
        PROVE  Confined'
    BY <1>3 DEF CallFails, Fails, replay, net
  <1>4. CASE StartReplay
    BY <1>4 DEF StartReplay, call, net, ghosts
  <1>5. CASE ReplayGroup
    BY <1>5 DEF ReplayGroup, Sends, net
  <1>6. CASE ReplayGroupSucceeds
    BY <1>6 DEF ReplayGroupSucceeds, Succeeds, replay, net
  <1>7. CASE ReplayGroupFails
    BY <1>7 DEF ReplayGroupFails, Fails, net
  <1>8. CASE ReplayExpires
    BY <1>8 DEF ReplayExpires, call, net
  <1>9. CASE EndReplay
    BY <1>9 DEF EndReplay, call, net, ghosts
  <1>10. CASE Disconnect
    BY <1>10 DEF Disconnect, Nothing, call, replay, ghosts
  <1>11. CASE Reconnect
    BY <1>11 DEF Reconnect, call, ghosts
  <1>12. CASE Close
    BY <1>12 DEF Close, Nothing, call, replay, ghosts
  <1>13. CASE Executes
    BY <1>13 DEF Executes, Put, replay, net, ghosts
  <1>14. CASE Refuses
    BY <1>14 DEF Refuses, replay, net, ghosts
  <1>15. ASSUME NEW l \in late, ExecutesLate(l)
        PROVE  Confined'
    BY <1>15 DEF ExecutesLate, Put, call, replay, net, ghosts
  <1>16. ASSUME NEW l \in late, LosesLate(l)
        PROVE  Confined'
    BY <1>16 DEF LosesLate, call, replay, net, ghosts
  <1>17. CASE UNCHANGED vars
    BY <1>17 DEF vars, call, replay, net, ghosts
  <1> QED
    BY CallStarts, <1>1, <1>2, <1>3, <1>4, <1>5, <1>6, <1>7, <1>8, <1>9, <1>10, <1>11, <1>12,
       <1>13, <1>14, <1>15, <1>16, <1>17
    DEF Next, Replays

\* What is remembered changes only with a call.
LEMMA NextReplaying ==
  ASSUME TypeOK, Locked, Replaying, [Next]_vars
  PROVE  Replaying'
  <1> USE StreamAssumption, NoRequestIsEmpty, GroupedFacts DEF TypeOK, Locked, Replaying
  <1>1. ASSUME NEW u \in Users, NEW r \in Requests, Starts(u, r)
        PROVE  Replaying'
    BY <1>1 DEF Starts, Sends, replay, net
  <1>2. ASSUME NEW u \in Users, CallSucceeds(u)
        PROVE  Replaying'
    BY <1>2 DEF CallSucceeds, Succeeds, Put, replay, net
  <1>3. ASSUME NEW u \in Users, CallFails(u)
        PROVE  Replaying'
    BY <1>3 DEF CallFails, Fails, replay, net
  <1>4. CASE StartReplay
    BY <1>4 DEF StartReplay, call, net, ghosts
  <1>5. CASE ReplayGroup
    BY <1>5 DEF ReplayGroup, Sends, net
  <1>6. CASE ReplayGroupSucceeds
    BY <1>6 DEF ReplayGroupSucceeds, Succeeds, replay, net
  <1>7. CASE ReplayGroupFails
    BY <1>7 DEF ReplayGroupFails, Fails, net
  <1>8. CASE ReplayExpires
    BY <1>8 DEF ReplayExpires, call, net
  <1>9. CASE EndReplay
    BY <1>9 DEF EndReplay, call, net, ghosts
  <1>10. CASE Disconnect
    BY <1>10 DEF Disconnect, Nothing, call, replay, ghosts
  <1>11. CASE Reconnect
    BY <1>11 DEF Reconnect, call, ghosts
  <1>12. CASE Close
    BY <1>12 DEF Close, Nothing, call, replay, ghosts
  <1>13. CASE Executes
    BY <1>13 DEF Executes, Put, replay, net, ghosts
  <1>14. CASE Refuses
    BY <1>14 DEF Refuses, replay, net, ghosts
  <1>15. ASSUME NEW l \in late, ExecutesLate(l)
        PROVE  Replaying'
    BY <1>15 DEF ExecutesLate, Put, call, replay, net, ghosts
  <1>16. ASSUME NEW l \in late, LosesLate(l)
        PROVE  Replaying'
    BY <1>16 DEF LosesLate, call, replay, net, ghosts
  <1>17. CASE UNCHANGED vars
    BY <1>17 DEF vars, call, replay, net, ghosts
  <1> QED
    BY CallStarts, <1>1, <1>2, <1>3, <1>4, <1>5, <1>6, <1>7, <1>8, <1>9, <1>10, <1>11, <1>12,
       <1>13, <1>14, <1>15, <1>16, <1>17
    DEF Next, Replays

\* Only a POST of the holder of subMu, or one whose keys are in doubt, is executed.
LEMMA NextFollows ==
  ASSUME TypeOK, Locked, Confined, Replaying, Follows, [Next]_vars
  PROVE  Follows'
  <1> USE StreamAssumption, NoRequestIsEmpty DEF TypeOK, Locked, Confined, Replaying, Follows, Executed, Requests
  <1>1. ASSUME NEW u \in Users, NEW r \in Requests, Starts(u, r)
        PROVE  Follows'
    BY <1>1 DEF Starts, Sends, replay, net
  <1>2. ASSUME NEW u \in Users, CallSucceeds(u)
        PROVE  Follows'
    BY <1>2 DEF CallSucceeds, Succeeds, Put, replay, net
  <1>3. ASSUME NEW u \in Users, CallFails(u)
        PROVE  Follows'
    BY <1>3 DEF CallFails, Fails, replay, net
  <1>4. CASE StartReplay
    BY <1>4 DEF StartReplay, call, net, ghosts
  <1>5. CASE ReplayGroup
    BY <1>5 DEF ReplayGroup, Sends, net
  <1>6. CASE ReplayGroupSucceeds
    BY <1>6 DEF ReplayGroupSucceeds, Succeeds, replay, net
  <1>7. CASE ReplayGroupFails
    BY <1>7 DEF ReplayGroupFails, Fails, net
  <1>8. CASE ReplayExpires
    BY <1>8 DEF ReplayExpires, call, net
  <1>9. CASE EndReplay
    BY <1>9 DEF EndReplay, call, net, ghosts
  <1>10. CASE Disconnect
    BY <1>10 DEF Disconnect, Nothing, call, replay, ghosts
  <1>11. CASE Reconnect
    BY <1>11 DEF Reconnect, call, ghosts
  <1>12. CASE Close
    BY <1>12 DEF Close, Nothing, call, replay, ghosts
  <1>13. CASE Executes
    BY <1>13 DEF Executes, Put, replay, net, ghosts
  <1>14. CASE Refuses
    BY <1>14 DEF Refuses, replay, net, ghosts
  <1>15. ASSUME NEW l \in late, ExecutesLate(l)
        PROVE  Follows'
    BY <1>15 DEF ExecutesLate, Put, call, replay, net, ghosts
  <1>16. ASSUME NEW l \in late, LosesLate(l)
        PROVE  Follows'
    BY <1>16 DEF LosesLate, call, replay, net, ghosts
  <1>17. CASE UNCHANGED vars
    BY <1>17 DEF vars, call, replay, net, ghosts
  <1> QED
    BY CallStarts, <1>1, <1>2, <1>3, <1>4, <1>5, <1>6, <1>7, <1>8, <1>9, <1>10, <1>11, <1>12,
       <1>13, <1>14, <1>15, <1>16, <1>17
    DEF Next, Replays

\* A connect starts another handler, so while there is none the connection stayed up.
LEMMA NextRestored ==
  ASSUME TypeOK, Locked, Confined, Replaying, Follows, Restored, [Next]_vars
  PROVE  Restored'
  <1> USE StreamAssumption, NoRequestIsEmpty, GroupedFacts DEF TypeOK, Locked, Confined, Replaying, Follows, Restored, Quiet,
      Executed, Requests
  <1>1. ASSUME NEW u \in Users, NEW r \in Requests, Starts(u, r)
        PROVE  Restored'
    BY <1>1 DEF Starts, Sends, replay, net
  <1>2. ASSUME NEW u \in Users, CallSucceeds(u)
        PROVE  Restored'
    BY <1>2 DEF CallSucceeds, Succeeds, Put, replay, net
  <1>3. ASSUME NEW u \in Users, CallFails(u)
        PROVE  Restored'
    BY <1>3 DEF CallFails, Fails, replay, net
  <1>4. CASE StartReplay
    BY <1>4 DEF StartReplay, call, net, ghosts
  <1>5. CASE ReplayGroup
    BY <1>5 DEF ReplayGroup, Sends, net
  <1>6. CASE ReplayGroupSucceeds
    BY <1>6 DEF ReplayGroupSucceeds, Succeeds, replay, net
  <1>7. CASE ReplayGroupFails
    BY <1>7 DEF ReplayGroupFails, Fails, net
  <1>8. CASE ReplayExpires
    BY <1>8 DEF ReplayExpires, call, net
  <1>9. CASE EndReplay
    BY <1>9 DEF EndReplay, call, net, ghosts
  <1>10. CASE Disconnect
    BY <1>10 DEF Disconnect, Nothing, call, replay, ghosts
  <1>11. CASE Reconnect
    BY <1>11 DEF Reconnect, call, ghosts
  <1>12. CASE Close
    BY <1>12 DEF Close, Nothing, call, replay, ghosts
  <1>13. CASE Executes
    BY <1>13 DEF Executes, Put, replay, net, ghosts
  <1>14. CASE Refuses
    BY <1>14 DEF Refuses, replay, net, ghosts
  <1>15. ASSUME NEW l \in late, ExecutesLate(l)
        PROVE  Restored'
    BY <1>15 DEF ExecutesLate, Put, call, replay, net, ghosts
  <1>16. ASSUME NEW l \in late, LosesLate(l)
        PROVE  Restored'
    BY <1>16 DEF LosesLate, call, replay, net, ghosts
  <1>17. CASE UNCHANGED vars
    BY <1>17 DEF vars, call, replay, net, ghosts
  <1> QED
    BY CallStarts, <1>1, <1>2, <1>3, <1>4, <1>5, <1>6, <1>7, <1>8, <1>9, <1>10, <1>11, <1>12,
       <1>13, <1>14, <1>15, <1>16, <1>17
    DEF Next, Replays

\* The parts are preserved together.
LEMMA NextIInv == IInv /\ [Next]_vars => IInv'
  <1> QED
    BY NextTypeOK, NextLocked, NextConfined, NextReplaying, NextFollows, NextRestored DEF IInv

\* Every variable keeps its type; in particular there are never more handlers than
\* connects.
THEOREM TypeCorrect == Spec => []TypeOK
  <1> QED BY InitIInv, NextIInv, PTL DEF Spec, IInv

\* No replay revives what Unsubscribe cancelled, for any number of users and lost
\* connections.  Keys in doubt are excepted, so it says nothing of a key one of whose
\* POSTs the client gave up on, until a later POST that it cannot overtake succeeds.
THEOREM ForgottenIsNotRevived == Spec => []ForgottenStaysForgotten
  <1>1. IInv => ForgottenStaysForgotten
    BY DEF IInv, TypeOK, Follows, Executed, ForgottenStaysForgotten, Calling
  <1> QED BY <1>1, InitIInv, NextIInv, PTL DEF Spec

\* When the handlers have run the broker streams what the Stream remembers, but for
\* keys whose last POST failed.
THEOREM ReplaysRestore == Spec => []ReplayedInFull
  <1>1. IInv => ReplayedInFull
    BY StreamAssumption DEF IInv, TypeOK, Restored, Quiet, ReplayedInFull
  <1> QED BY <1>1, InitIInv, NextIInv, PTL DEF Spec

=============================================================================
