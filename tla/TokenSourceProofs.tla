------------------------- MODULE TokenSourceProofs -------------------------
(***************************************************************************)
(* Theorems about TokenSource, for any number of goroutines, any lifetimes *)
(* and any bounds: its types, that refreshes are single-flight, that a     *)
(* goroutine only joins an open refresh, and that the pair in the store    *)
(* never regresses; then, over the same inductive invariant, about its     *)
(* history: a refresh token that was consumed is not presented again, and  *)
(* what callers see never goes back, over failed saves and restarts.  At   *)
(* the end, that nobody waits for an answer that cannot come.              *)
(***************************************************************************)
EXTENDS TokenSource, TLAPS

(***************************************************************************)
(* The goroutines inside valid() are in calls of their own.                *)
(***************************************************************************)
OwnCalls ==
  /\ \A c \in Callers : pc[c] # "idle" => id[c] \in 1..started
  /\ \A c, d \in Callers :
       pc[c] # "idle" /\ pc[d] # "idle" /\ id[c] = id[d] => c = d
  /\ \A c \in Callers : pc[c] = "waiting" => joined[c] # None

(***************************************************************************)
(* A pair that was granted, came back or was saved is a pair.              *)
(***************************************************************************)
RealPairs ==
  /\ \A i \in Ids : wire[i].status = "granted" => wire[i].pair # None
  /\ \A i \in Ids : call[i].saved => call[i].refreshed # None
  /\ \A c \in Callers : pc[c] = "saving" => call[id[c]].refreshed # None

WellFormed == TypeOK /\ OwnCalls /\ RealPairs

(***************************************************************************)
(* inflight names the one refresh that is not settled.                     *)
(***************************************************************************)
InflightIsLeader ==
  /\ \A c \in Callers : Refreshing(c) => inflight = id[c]
  /\ inflight # None => \E c \in Callers : Refreshing(c) /\ id[c] = inflight
  /\ tok = None => inflight = None

(***************************************************************************)
(* The goroutine that loads the pair holds the lock, and there is no pair. *)
(***************************************************************************)
LockHeld == \A c \in Callers : pc[c] = "loading" => mu = c /\ tok = None

(***************************************************************************)
(* The done channel of a refresh is open until its leader closes it.       *)
(***************************************************************************)
LeaderOpen ==
  \A c \in Callers : Refreshing(c) \/ pc[c] = "closing" => ~call[id[c]].done

(***************************************************************************)
(* The refresh in flight presents the pair in memory, so what it brings    *)
(* back is the next one; the store is behind memory except between Save    *)
(* and the last critical section.                                          *)
(***************************************************************************)
Rotation ==
  /\ tok <= live /\ store <= live
  /\ \A i \in Ids : wire[i].pair <= live /\ call[i].refreshed <= live
  /\ inflight = None /\ tok # None => store <= tok
  /\ \A c \in Callers : Refreshing(c) =>
       LET k == call[id[c]] IN
       LET w == wire[id[c]] IN
       /\ k.presented = tok
       /\ w.status = "granted" => w.pair = tok + 1
       /\ pc[c] = "leading" => store <= tok /\ k.refreshed = None
       /\ pc[c] = "saving" => store <= tok /\ k.refreshed = tok + 1
       /\ pc[c] = "settling" => \/ store <= tok /\ k.refreshed = None
                                \/ store <= tok + 1 /\ k.refreshed = tok + 1

\* The inductive invariant.
Core == InflightIsLeader /\ LockHeld /\ LeaderOpen /\ Rotation
IInv == WellFormed /\ Core

-----------------------------------------------------------------------------
\* The types hold, whatever the environment does: valid() returns a pair or an
\* error, and every call has a number of its own.
LEMMA WellFormedInit == Init => WellFormed
  BY BoundsAssumption, CallersAssumption
  DEF Init, WellFormed, TypeOK, OwnCalls, RealPairs, Ids, Pairs, Time, Points, None,
      NoCall, NewCall, NoRequest, NoReturn, Failures

Refreshes == [presented : 0..MaxPairs, refreshed : 0..MaxPairs, saved : BOOLEAN, done : BOOLEAN]

\* What the types say of the refresh of one number, and of its request.
LEMMA RefreshTyped ==
  ASSUME TypeOK, NEW i \in Ids
  PROVE  /\ call[i] \in Refreshes
         /\ call[i].presented \in 0..MaxPairs /\ call[i].refreshed \in 0..MaxPairs
         /\ call[i].saved \in BOOLEAN /\ call[i].done \in BOOLEAN
         /\ wire[i].status \in {"none", "sent", "granted"} /\ wire[i].pair \in 0..MaxPairs
  <1>1. call \in [Ids -> Refreshes]
        /\ wire \in [Ids -> [status : {"none", "sent", "granted"}, pair : 0..MaxPairs]]
    BY DEF TypeOK, Refreshes
  <1>2. call[i] \in Refreshes /\ wire[i] \in [status : {"none", "sent", "granted"}, pair : 0..MaxPairs]
    BY <1>1
  <1> QED BY <1>2 DEF Refreshes

\* A refresh of which one field is written is a refresh.
LEMMA RefreshedWritten ==
  ASSUME TypeOK, NEW i \in Ids, NEW p \in 0..MaxPairs
  PROVE  [call EXCEPT ![i].refreshed = p] \in [Ids -> Refreshes]
  <1>1. call \in [Ids -> Refreshes]
    BY DEF TypeOK, Refreshes
  <1>2. ASSUME NEW r \in Refreshes
        PROVE  [r EXCEPT !.refreshed = p] \in Refreshes
    BY DEF Refreshes
  <1>3. call[i] \in Refreshes
    BY <1>1
  <1> QED BY <1>1, <1>2, <1>3

LEMMA FlagWritten ==
  ASSUME TypeOK, NEW i \in Ids
  PROVE  /\ [call EXCEPT ![i].saved = TRUE] \in [Ids -> Refreshes]
         /\ [call EXCEPT ![i].done = TRUE] \in [Ids -> Refreshes]
  <1>1. call \in [Ids -> Refreshes]
    BY DEF TypeOK, Refreshes
  <1>2. ASSUME NEW r \in Refreshes
        PROVE  [r EXCEPT !.saved = TRUE] \in Refreshes /\ [r EXCEPT !.done = TRUE] \in Refreshes
    BY DEF Refreshes
  <1>3. call[i] \in Refreshes
    BY <1>1
  <1>4. [call EXCEPT ![i].saved = TRUE] \in [Ids -> Refreshes]
    BY <1>1, <1>2, <1>3
  <1>5. [call EXCEPT ![i].done = TRUE] \in [Ids -> Refreshes]
    BY <1>1, <1>2, <1>3
  <1> QED BY <1>4, <1>5

\* A goroutine inside valid() is in a call there is.
LEMMA CallThereIs ==
  ASSUME TypeOK, OwnCalls, NEW c \in Callers, pc[c] # "idle"
  PROVE  id[c] \in Ids
  BY BoundsAssumption DEF TypeOK, OwnCalls, Ids

\* Returning from valid() leaves its caller idle with a typed result.
LEMMA ReturnTyped ==
  ASSUME WellFormed, NEW c \in Callers, NEW kind, NEW pair, Return(c, kind, pair),
         \/ kind = "token" /\ pair \in Pairs
         \/ kind \in Failures /\ pair = None
  PROVE  /\ pc' \in [Callers -> Points]
         /\ ret' \in [Callers -> [kind : {"token"}, pair : Pairs]
                                  \cup [kind : Failures, pair : {None}]]
         /\ seen' \in 0..MaxPairs
         /\ since' \in [Callers -> 0..MaxPairs]
         /\ \A d \in Callers : pc'[d] # "idle" => pc'[d] = pc[d]
  <1>1. pc' \in [Callers -> Points] /\ since' \in [Callers -> 0..MaxPairs]
    BY DEF Return, WellFormed, TypeOK, Points
  <1>2. ret' \in [Callers -> [kind : {"token"}, pair : Pairs]
                           \cup [kind : Failures, pair : {None}]]
    BY DEF Return, WellFormed, TypeOK
  <1>3. seen' \in 0..MaxPairs
    BY BoundsAssumption DEF Return, WellFormed, TypeOK, Pairs, None, Failures
  <1>4. \A d \in Callers : pc'[d] # "idle" => pc'[d] = pc[d]
    BY DEF Return, WellFormed, TypeOK
  <1> QED BY <1>1, <1>2, <1>3, <1>4

\* Every step keeps calls apart, and pairs pairs.
LEMMA WellFormedNext == WellFormed /\ [Next]_vars => WellFormed'
  <1> SUFFICES ASSUME WellFormed, [Next]_vars PROVE WellFormed'
    OBVIOUS
  <1> USE DEF WellFormed
  <1>1. ASSUME NEW c \in Callers, Begin(c) PROVE WellFormed'
    <2>1. UNCHANGED <<clock, mu, tok, inflight, store, restarts, joined, call, ret,
                      live, created, wire, seen>>
      BY <1>1 DEF Begin, source, server
    <2>2. /\ started + 1 \in 1..MaxCalls
          /\ started' = started + 1
          /\ pc' = [pc EXCEPT ![c] = "locking"]
          /\ id' = [id EXCEPT ![c] = started + 1]
          /\ since' = [since EXCEPT ![c] = seen]
      BY <1>1, BoundsAssumption DEF Begin, TypeOK
    <2>3. TypeOK'
      BY <2>1, <2>2 DEF TypeOK, Points
    <2>4. OwnCalls'
      BY <2>1, <2>2, BoundsAssumption DEF TypeOK, OwnCalls
    <2>5. RealPairs'
      BY <2>1, <2>2 DEF TypeOK, RealPairs
    <2> QED BY <2>3, <2>4, <2>5
  <1>2. ASSUME NEW c \in Callers, NEW p \in Pairs, Decide(c, p), pc[c] # "idle",
               UNCHANGED <<clock, store, started, restarts, live, created>>,
               mu' \in Callers \cup {"nobody"}, tok' \in 0..MaxPairs
        PROVE WellFormed'
    <2> USE <1>2
    <2>1. ASSUME \/ ReturnCached(c, p)
                 \/ ReturnExpired(c, p)
          PROVE WellFormed'
      <3>1. UNCHANGED <<inflight, id, joined, call, wire>>
        BY <2>1 DEF ReturnCached, ReturnExpired
      <3>2. PICK kind, pair : /\ Return(c, kind, pair)
                              /\ \/ kind = "token" /\ pair \in Pairs
                                 \/ kind \in Failures /\ pair = None
        BY <2>1 DEF ReturnCached, ReturnExpired, Failures
      <3>3. /\ pc' \in [Callers -> Points]
            /\ ret' \in [Callers -> [kind : {"token"}, pair : Pairs]
                                     \cup [kind : Failures, pair : {None}]]
            /\ seen' \in 0..MaxPairs
            /\ since' \in [Callers -> 0..MaxPairs]
            /\ \A d \in Callers : pc'[d] # "idle" => pc'[d] = pc[d]
        BY <3>2, ReturnTyped
      <3>4. TypeOK'
        BY <3>1, <3>3 DEF TypeOK
      <3>5. OwnCalls' /\ RealPairs'
        BY <3>1, <3>3 DEF TypeOK, OwnCalls, RealPairs
      <3> QED BY <3>4, <3>5
    <2>2. CASE Join(c, p)
      <3>1. /\ UNCHANGED <<inflight, id, call, ret, wire, seen, since>>
            /\ joined' = [joined EXCEPT ![c] = inflight]
            /\ pc' = [pc EXCEPT ![c] = "waiting"]
            /\ inflight # None
        BY <2>2 DEF Join, history
      <3>2. TypeOK'
        BY <3>1 DEF TypeOK, Points
      <3>3. OwnCalls' /\ RealPairs'
        BY <3>1 DEF TypeOK, OwnCalls, RealPairs
      <3> QED BY <3>2, <3>3
    <2>3. CASE Lead(c, p)
      <3>1. /\ UNCHANGED <<id, joined, ret, seen, since>>
            /\ inflight' = id[c]
            /\ call' = [call EXCEPT ![id[c]] = NewCall(p)]
            /\ wire' = [wire EXCEPT ![id[c]] = [status |-> "sent", pair |-> None]]
            /\ pc' = [pc EXCEPT ![c] = "leading"]
        BY <2>3 DEF Lead, history
      <3>2. TypeOK'
        <4>1. call' \in [Ids -> [presented : 0..MaxPairs, refreshed : 0..MaxPairs,
                                 saved : BOOLEAN, done : BOOLEAN]]
          <5>1. NewCall(p) \in [presented : 0..MaxPairs, refreshed : 0..MaxPairs,
                                saved : BOOLEAN, done : BOOLEAN]
            BY BoundsAssumption DEF NewCall, Pairs, None
          <5> QED BY <3>1, <5>1 DEF TypeOK
        <4>2. wire' \in [Ids -> [status : {"none", "sent", "granted"},
                                 pair : 0..MaxPairs]]
          <5>1. [status |-> "sent", pair |-> None]
                  \in [status : {"none", "sent", "granted"}, pair : 0..MaxPairs]
            BY BoundsAssumption DEF None
          <5> QED BY <3>1, <5>1 DEF TypeOK
        <4>3. inflight' \in 0..MaxCalls /\ pc' \in [Callers -> Points]
          BY <3>1 DEF TypeOK, Points
        <4> QED BY <3>1, <4>1, <4>2, <4>3 DEF TypeOK
      <3>3. OwnCalls'
        BY <3>1 DEF TypeOK, OwnCalls
      <3>4. id[c] \in Ids
        BY BoundsAssumption DEF TypeOK, OwnCalls, Ids
      <3>5. RealPairs'
        <4>1. ASSUME NEW i \in Ids
              PROVE  /\ i = id[c] => ~call'[i].saved /\ wire'[i].status = "sent"
                     /\ i # id[c] => call'[i] = call[i] /\ wire'[i] = wire[i]
          BY <3>1, <3>4 DEF TypeOK, NewCall
        <4>2. ASSUME NEW d \in Callers, pc'[d] = "saving"
              PROVE  call'[id'[d]].refreshed # None
          <5>1. d # c /\ pc[d] = "saving" /\ id'[d] = id[d]
            BY <3>1, <4>2 DEF TypeOK
          <5>2. id[d] # id[c] /\ id[d] \in Ids
            BY <5>1, CallThereIs DEF OwnCalls
          <5> QED BY <4>1, <5>1, <5>2 DEF RealPairs
        <4>3. \A i \in Ids : wire'[i].status = "granted" => wire'[i].pair # None
          BY <4>1 DEF RealPairs
        <4>4. \A i \in Ids : call'[i].saved => call'[i].refreshed # None
          BY <4>1 DEF RealPairs
        <4> QED BY <4>2, <4>3, <4>4 DEF RealPairs
      <3> QED BY <3>2, <3>3, <3>5
    <2> QED BY <1>2, <2>1, <2>2, <2>3 DEF Decide
  <1>3. ASSUME NEW c \in Callers, CheckCached(c) PROVE WellFormed'
    <2>1. /\ UNCHANGED <<clock, store, started, restarts, live, created, mu, tok>>
          /\ pc[c] # "idle" /\ tok # None /\ Decide(c, tok)
      BY <1>3 DEF CheckCached
    <2>2. tok \in Pairs /\ tok' \in 0..MaxPairs /\ mu' \in Callers \cup {"nobody"}
      BY <2>1, BoundsAssumption DEF TypeOK, Pairs, None
    <2> QED BY <1>2, <2>1, <2>2
  <1>4. ASSUME NEW c \in Callers, Loads(c) PROVE WellFormed'
    <2>1. /\ UNCHANGED <<clock, store, started, restarts, live, created>>
          /\ mu' = "nobody" /\ tok' = store
          /\ pc[c] # "idle" /\ store # None /\ Decide(c, store)
      BY <1>4 DEF Loads
    <2>2. store \in Pairs /\ tok' \in 0..MaxPairs /\ mu' \in Callers \cup {"nobody"}
      BY <2>1, BoundsAssumption DEF TypeOK, Pairs, None
    <2> QED BY <1>2, <2>1, <2>2
  <1>5. ASSUME NEW c \in Callers, StartLoad(c) PROVE WellFormed'
    <2>1. /\ UNCHANGED <<clock, tok, inflight, store, started, restarts, id, joined,
                         call, ret, live, created, wire, seen, since>>
          /\ mu' = c /\ pc[c] = "locking"
          /\ pc' = [pc EXCEPT ![c] = "loading"]
      BY <1>5 DEF StartLoad, server, history
    <2>2. TypeOK'
      BY <2>1 DEF TypeOK, Points
    <2>3. OwnCalls' /\ RealPairs'
      BY <2>1 DEF TypeOK, OwnCalls, RealPairs
    <2> QED BY <2>2, <2>3
  <1>6. ASSUME NEW c \in Callers,
               \/ LoadFails(c) \/ LoadsNothing(c) \/ WaiterWakes(c)
               \/ WaiterCancelled(c)
        PROVE WellFormed'
    <2>1. /\ UNCHANGED <<clock, tok, inflight, store, started, restarts, id, joined,
                         call, live, created, wire>>
          /\ mu' \in {mu, "nobody"}
      BY <1>6 DEF LoadFails, LoadsNothing, WaiterWakes, WaiterCancelled, source, server
    <2>2. PICK kind, pair : /\ Return(c, kind, pair)
                            /\ \/ kind = "token" /\ pair \in Pairs
                               \/ kind \in Failures /\ pair = None
      <3>1. CASE ~WaiterWakes(c)
        BY <1>6, <3>1 DEF LoadFails, LoadsNothing, WaiterCancelled, Failures
      <3>2. CASE WaiterWakes(c) /\ ~call[joined[c]].saved
        BY <3>2 DEF WaiterWakes, Outcome, Failures
      <3>3. CASE WaiterWakes(c) /\ call[joined[c]].saved
        <4>1. joined[c] \in Ids
          BY <3>3, BoundsAssumption DEF WaiterWakes, OwnCalls, TypeOK, Ids, None
        <4> QED BY <3>3, <4>1, BoundsAssumption
                DEF WaiterWakes, Outcome, RealPairs, TypeOK, Pairs, None
      <3> QED BY <3>1, <3>2, <3>3
    <2>3. /\ pc' \in [Callers -> Points]
          /\ ret' \in [Callers -> [kind : {"token"}, pair : Pairs]
                                   \cup [kind : Failures, pair : {None}]]
          /\ seen' \in 0..MaxPairs
          /\ since' \in [Callers -> 0..MaxPairs]
          /\ \A d \in Callers : pc'[d] # "idle" => pc'[d] = pc[d]
      BY <2>2, ReturnTyped
    <2>4. TypeOK'
      BY <2>1, <2>3 DEF TypeOK
    <2>5. OwnCalls' /\ RealPairs'
      BY <2>1, <2>3 DEF TypeOK, OwnCalls, RealPairs
    <2> QED BY <2>4, <2>5
  <1>7. ASSUME NEW c \in Callers, RefreshSucceeds(c) PROVE WellFormed'
    <2>1. /\ UNCHANGED <<clock, mu, tok, inflight, store, started, restarts, id, joined,
                         ret, live, wire, seen, since>>
          /\ pc[c] = "leading" /\ wire[id[c]].status = "granted"
          /\ call' = [call EXCEPT ![id[c]].refreshed = wire[id[c]].pair]
          /\ pc' = [pc EXCEPT ![c] = "saving"]
      BY <1>7 DEF RefreshSucceeds, source, history
    <2>2. id[c] \in Ids
      BY <2>1, BoundsAssumption DEF TypeOK, OwnCalls, Ids
    <2>3. wire[id[c]].pair \in Pairs
      <3>1. wire[id[c]].pair \in 0..MaxPairs /\ wire[id[c]].pair # None
        BY <2>1, <2>2, RefreshTyped DEF RealPairs
      <3> QED BY <3>1, BoundsAssumption DEF Pairs, None
    <2>4. created' \in [Pairs -> Time]
      BY <1>7, <2>3 DEF RefreshSucceeds, TypeOK
    <2>5. call' \in [Ids -> [presented : 0..MaxPairs, refreshed : 0..MaxPairs,
                             saved : BOOLEAN, done : BOOLEAN]]
      <3>1. [call EXCEPT ![id[c]].refreshed = wire[id[c]].pair] \in [Ids -> Refreshes]
        BY <2>2, RefreshTyped, RefreshedWritten
      <3> QED BY <2>1, <3>1, Zenon DEF Refreshes
    <2>6. TypeOK'
      BY <2>1, <2>4, <2>5 DEF TypeOK, Points
    <2>7. OwnCalls'
      BY <2>1 DEF TypeOK, OwnCalls
    <2>8. \A i \in Ids : /\ call'[i].saved = call[i].saved
                         /\ call'[i].refreshed \in {call[i].refreshed, wire[id[c]].pair}
                         /\ i = id[c] => call'[i].refreshed = wire[id[c]].pair
      BY <2>1, <2>2 DEF TypeOK
    <2>9. RealPairs'
      <3>1. \A d \in Callers : pc'[d] = "saving" => id'[d] \in Ids
        BY <2>7, <2>6, BoundsAssumption DEF TypeOK, OwnCalls, Ids
      <3>2. ASSUME NEW d \in Callers, pc'[d] = "saving"
            PROVE  call'[id'[d]].refreshed # None
        <4>1. id'[d] = id[d] /\ id[d] \in Ids
          BY <2>1, <3>1, <3>2
        <4>2. CASE id[d] = id[c]
          BY <2>3, <2>8, <4>1, <4>2, BoundsAssumption DEF Pairs, None
        <4>3. CASE id[d] # id[c]
          <5>1. pc[d] = "saving" /\ call'[id[d]] = call[id[d]]
            BY <2>1, <2>2, <3>2, <4>1, <4>3 DEF TypeOK
          <5> QED BY <4>1, <5>1 DEF RealPairs
        <4> QED BY <4>2, <4>3
      <3>3. \A i \in Ids : call'[i].saved => call'[i].refreshed # None
        BY <2>3, <2>8, BoundsAssumption DEF RealPairs, Pairs, None
      <3> QED BY <2>1, <3>2, <3>3 DEF RealPairs
    <2> QED BY <2>6, <2>7, <2>9
  <1>8. ASSUME NEW c \in Callers, RefreshFails(c) \/ SaveFails(c) PROVE WellFormed'
    <2>1. /\ UNCHANGED <<clock, mu, tok, inflight, started, restarts, id, joined, call,
                         ret, live, created, wire, seen, since>>
          /\ pc[c] # "idle" /\ pc' = [pc EXCEPT ![c] = "settling"]
      BY <1>8 DEF RefreshFails, SaveFails, source, server, history
    <2>2. store' \in 0..MaxPairs
      <3>1. CASE RefreshFails(c)
        BY <3>1 DEF RefreshFails, TypeOK
      <3>2. CASE SaveFails(c)
        <4>1. id[c] \in Ids
          BY <3>2, BoundsAssumption DEF SaveFails, TypeOK, OwnCalls, Ids
        <4> QED BY <3>2, <4>1 DEF SaveFails, TypeOK
      <3> QED BY <1>8, <3>1, <3>2
    <2>3. TypeOK'
      BY <2>1, <2>2 DEF TypeOK, Points
    <2>4. OwnCalls' /\ RealPairs'
      BY <2>1 DEF TypeOK, OwnCalls, RealPairs
    <2> QED BY <2>3, <2>4
  <1>9. ASSUME NEW c \in Callers, Save(c) PROVE WellFormed'
    <2>1. /\ UNCHANGED <<clock, mu, tok, inflight, started, restarts, id, joined, ret,
                         live, created, wire, seen, since>>
          /\ pc[c] = "saving" /\ pc' = [pc EXCEPT ![c] = "settling"]
          /\ store' = call[id[c]].refreshed
          /\ call' = [call EXCEPT ![id[c]].saved = TRUE]
      BY <1>9 DEF Save, source, server, history
    <2>2. id[c] \in Ids
      BY <2>1, BoundsAssumption DEF TypeOK, OwnCalls, Ids
    <2>3. call' \in [Ids -> [presented : 0..MaxPairs, refreshed : 0..MaxPairs,
                             saved : BOOLEAN, done : BOOLEAN]]
      <3>1. [call EXCEPT ![id[c]].saved = TRUE] \in [Ids -> Refreshes]
        BY <2>2, FlagWritten
      <3> QED BY <2>1, <3>1, Zenon DEF Refreshes
    <2>4. store' \in 0..MaxPairs
      BY <2>1, <2>2 DEF TypeOK
    <2>5. TypeOK'
      BY <2>1, <2>3, <2>4 DEF TypeOK, Points
    <2>6. OwnCalls'
      BY <2>1 DEF TypeOK, OwnCalls
    <2>7. \A i \in Ids : call'[i].refreshed = call[i].refreshed
                        /\ (call'[i].saved => call[i].saved \/ i = id[c])
      BY <2>1, <2>2 DEF TypeOK
    <2>8. RealPairs'
      <3>1. \A d \in Callers : pc'[d] = "saving" => pc[d] = "saving" /\ id'[d] \in Ids
        BY <2>1, <2>5, <2>6, BoundsAssumption DEF TypeOK, OwnCalls, Ids
      <3> QED BY <2>1, <2>7, <3>1 DEF RealPairs
    <2> QED BY <2>5, <2>6, <2>8
  <1>10. ASSUME NEW c \in Callers, Settle(c) PROVE WellFormed'
    <2>1. /\ UNCHANGED <<clock, mu, store, started, restarts, id, joined, call, ret,
                         live, created, wire, seen, since>>
          /\ pc[c] = "settling" /\ pc' = [pc EXCEPT ![c] = "closing"]
          /\ tok' \in {tok, call[id[c]].refreshed} /\ inflight' = None
      BY <1>10 DEF Settle, server, history
    <2>2. id[c] \in Ids
      BY <2>1, BoundsAssumption DEF TypeOK, OwnCalls, Ids
    <2>3. tok' \in 0..MaxPairs
      BY <2>1, <2>2 DEF TypeOK
    <2>4. inflight' \in 0..MaxCalls
      BY <2>1, BoundsAssumption DEF None
    <2>5. TypeOK'
      BY <2>1, <2>3, <2>4 DEF TypeOK, Points
    <2>6. OwnCalls' /\ RealPairs'
      BY <2>1 DEF TypeOK, OwnCalls, RealPairs
    <2> QED BY <2>5, <2>6
  <1>11. ASSUME NEW c \in Callers, CloseDone(c) PROVE WellFormed'
    <2>1. /\ UNCHANGED <<clock, mu, tok, inflight, store, started, restarts, id, joined,
                         live, created, wire>>
          /\ pc[c] = "closing" /\ Outcome(c, id[c])
          /\ call' = [call EXCEPT ![id[c]].done = TRUE]
      BY <1>11 DEF CloseDone, source, server
    <2>2. id[c] \in Ids
      BY <2>1, BoundsAssumption DEF TypeOK, OwnCalls, Ids
    <2>3. PICK kind, pair : /\ Return(c, kind, pair)
                            /\ \/ kind = "token" /\ pair \in Pairs
                               \/ kind \in Failures /\ pair = None
      <3>1. CASE call[id[c]].saved
        <4>1. call[id[c]].refreshed \in 0..MaxPairs /\ call[id[c]].refreshed # None
          BY <2>2, <3>1, RefreshTyped DEF RealPairs
        <4>2. call[id[c]].refreshed \in Pairs
          BY <4>1, BoundsAssumption DEF Pairs, None
        <4> QED BY <2>1, <3>1, <4>2 DEF Outcome
      <3>2. CASE ~call[id[c]].saved
        BY <2>1, <3>2 DEF Outcome, Failures
      <3> QED BY <3>1, <3>2
    <2>4. /\ pc' \in [Callers -> Points]
          /\ ret' \in [Callers -> [kind : {"token"}, pair : Pairs]
                                   \cup [kind : Failures, pair : {None}]]
          /\ seen' \in 0..MaxPairs
          /\ since' \in [Callers -> 0..MaxPairs]
          /\ \A d \in Callers : pc'[d] # "idle" => pc'[d] = pc[d]
      BY <2>3, ReturnTyped
    <2>5. call' \in [Ids -> [presented : 0..MaxPairs, refreshed : 0..MaxPairs,
                             saved : BOOLEAN, done : BOOLEAN]]
      <3>1. [call EXCEPT ![id[c]].done = TRUE] \in [Ids -> Refreshes]
        BY <2>2, FlagWritten
      <3> QED BY <2>1, <3>1, Zenon DEF Refreshes
    <2>6. TypeOK'
      BY <2>1, <2>4, <2>5 DEF TypeOK
    <2>7. OwnCalls'
      BY <2>1, <2>4 DEF TypeOK, OwnCalls
    <2>8. \A i \in Ids : /\ call'[i].refreshed = call[i].refreshed
                         /\ call'[i].saved = call[i].saved
      BY <2>1, <2>2 DEF TypeOK
    <2>9. RealPairs'
      <3>1. \A d \in Callers : pc'[d] = "saving" => pc[d] = "saving"
        BY <2>4
      <3>2. \A d \in Callers : pc[d] = "saving" => id[d] \in Ids
        BY BoundsAssumption DEF TypeOK, OwnCalls, Ids
      <3> QED BY <2>1, <2>8, <3>1, <3>2 DEF RealPairs
    <2> QED BY <2>6, <2>7, <2>9
  <1>12. ASSUME NEW i \in Ids, Grant(i) PROVE WellFormed'
    <2>1. /\ UNCHANGED <<clock, mu, tok, inflight, store, started, restarts, pc, id,
                         joined, call, ret, seen, since>>
          /\ live < MaxPairs /\ live' = live + 1
          /\ created' = [created EXCEPT ![live + 1] = clock]
          /\ wire' = [wire EXCEPT ![i] = [status |-> "granted", pair |-> live + 1]]
      BY <1>12 DEF Grant, source, locals, history
    <2>2. live + 1 \in Pairs
      BY <2>1, BoundsAssumption DEF TypeOK, Pairs
    <2>3. live' \in 0..MaxPairs /\ created' \in [Pairs -> Time]
      BY <2>1, <2>2 DEF TypeOK, Pairs
    <2>4. [status |-> "granted", pair |-> live + 1]
            \in [status : {"none", "sent", "granted"}, pair : 0..MaxPairs]
      BY <2>2, BoundsAssumption DEF Pairs
    <2>5. wire' \in [Ids -> [status : {"none", "sent", "granted"}, pair : 0..MaxPairs]]
      BY <2>1, <2>4 DEF TypeOK
    <2>6. TypeOK'
      BY <2>1, <2>3, <2>5 DEF TypeOK
    <2>7. OwnCalls'
      BY <2>1 DEF OwnCalls
    <2>8. RealPairs'
      <3>1. ASSUME NEW j \in Ids, wire'[j].status = "granted"
            PROVE  wire'[j].pair # None
        <4>1. CASE j = i
          <5>1. wire'[j].pair = live + 1
            BY <2>1, <4>1 DEF TypeOK
          <5> QED BY <2>2, <5>1, BoundsAssumption DEF Pairs, None
        <4>2. CASE j # i
          <5>1. wire'[j] = wire[j]
            BY <2>1, <4>2 DEF TypeOK
          <5> QED BY <3>1, <5>1 DEF RealPairs
        <4> QED BY <4>1, <4>2
      <3> QED BY <2>1, <3>1 DEF RealPairs
    <2> QED BY <2>6, <2>7, <2>8
  <1>13. CASE Authorize
    <2>1. /\ UNCHANGED <<clock, mu, tok, inflight, started, restarts, pc, id, joined,
                         call, ret, wire, seen, since>>
          /\ live' = 1 /\ store' = 1
          /\ created' = [created EXCEPT ![1] = clock]
      BY <1>13 DEF Authorize, source, locals, history
    <2>2. live' \in 0..MaxPairs /\ store' \in 0..MaxPairs
      BY <2>1, BoundsAssumption
    <2>3. created' \in [Pairs -> Time]
      BY <2>1 DEF TypeOK
    <2>4. TypeOK'
      BY <2>1, <2>2, <2>3 DEF TypeOK
    <2>5. OwnCalls' /\ RealPairs'
      BY <2>1 DEF OwnCalls, RealPairs
    <2> QED BY <2>4, <2>5
  <1>14. CASE Tick \/ UNCHANGED vars
    <2>1. UNCHANGED <<mu, tok, inflight, store, started, restarts, pc, id, joined, call,
                      ret, live, created, wire, seen, since>>
      BY <1>14 DEF Tick, vars, source, locals, server, history
    <2>2. clock' \in Time
      BY <1>14, BoundsAssumption DEF Tick, vars, TypeOK, Time
    <2>3. TypeOK'
      BY <2>1, <2>2 DEF TypeOK
    <2>4. OwnCalls' /\ RealPairs'
      BY <2>1 DEF OwnCalls, RealPairs
    <2> QED BY <2>3, <2>4
  <1>15. CASE Restart
    <2>1. /\ UNCHANGED <<clock, store, started, id, joined, call, live, created, wire,
                         seen, since>>
          /\ mu' = "nobody" /\ tok' = None /\ inflight' = None
          /\ pc' = [c \in Callers |-> "idle"] /\ ret' = [c \in Callers |-> NoReturn]
      BY <1>15 DEF Restart, server, history
    <2>2. restarts' \in 0..MaxRestarts /\ tok' \in 0..MaxPairs
          /\ inflight' \in 0..MaxCalls
      BY <1>15, <2>1, BoundsAssumption DEF Restart, TypeOK, None
    <2>3. NoReturn \in [kind : Failures, pair : {None}]
      BY DEF NoReturn, Failures
    <2>4. TypeOK'
      BY <2>1, <2>2, <2>3 DEF TypeOK, Points
    <2>5. OwnCalls' /\ RealPairs'
      BY <2>1 DEF OwnCalls, RealPairs
    <2> QED BY <2>4, <2>5
  <1> QED
    BY <1>1, <1>3, <1>4, <1>5, <1>6, <1>7, <1>8, <1>9, <1>10, <1>11, <1>12, <1>13,
       <1>14, <1>15
    DEF Next, LockSteps, LeaderSteps

\* Every reachable state has its type, for any goroutines, lifetimes and bounds.
THEOREM TypeCorrect == Spec => []TypeOK
  <1>1. WellFormed => TypeOK
    BY DEF WellFormed
  <1> QED BY <1>1, WellFormedInit, WellFormedNext, PTL DEF Spec

-----------------------------------------------------------------------------
(* The invariant of the refresh in flight. *)

\* Nobody refreshes at the start.
LEMMA CoreInit == Init => Core
  BY BoundsAssumption
  DEF Init, Core, InflightIsLeader, LockHeld, LeaderOpen, Rotation, Refreshing, None,
      Ids, NoCall, NewCall, NoRequest

\* A step that touches neither the pair, nor the refresh in flight, nor the
\* goroutine that drives it, preserves everything but the lock's part.
LEMMA Bystander ==
  ASSUME Core, UNCHANGED <<tok, inflight, store, live, call, wire>>,
         \A c \in Callers :
           \/ pc'[c] = pc[c] /\ id'[c] = id[c]
           \/ /\ pc[c] \notin {"leading", "saving", "settling", "closing"}
              /\ pc'[c] \notin {"leading", "saving", "settling", "closing"}
  PROVE  InflightIsLeader' /\ LeaderOpen' /\ Rotation'
  <1> USE DEF Core
  <1>1. \A c \in Callers : Refreshing(c)' \/ Refreshing(c)
                             => Refreshing(c) /\ Refreshing(c)'
                                /\ pc'[c] = pc[c] /\ id'[c] = id[c]
    BY DEF Refreshing
  <1>2. InflightIsLeader'
    BY <1>1 DEF InflightIsLeader
  <1>3. LeaderOpen'
    BY DEF LeaderOpen, Refreshing
  <1>4. Rotation'
    BY <1>1 DEF Rotation
  <1> QED BY <1>2, <1>3, <1>4

\* The identities of the goroutines that refresh.
LEMMA OneRefreshing ==
  ASSUME WellFormed, Core, NEW c \in Callers, Refreshing(c)
  PROVE  /\ id[c] \in Ids /\ inflight = id[c] /\ inflight # None /\ tok # None
         /\ \A d \in Callers : Refreshing(d) => d = c
         /\ \A d \in Callers : pc[d] # "idle" /\ id[d] = id[c] => d = c
  <1>1. pc[c] # "idle" /\ id[c] \in 1..started
    BY DEF Refreshing, WellFormed, OwnCalls
  <1>2. id[c] \in Ids /\ id[c] # None
    BY <1>1, BoundsAssumption DEF WellFormed, TypeOK, Ids, None
  <1>3. inflight = id[c]
    BY DEF Core, InflightIsLeader
  <1>4. \A d \in Callers : pc[d] # "idle" /\ id[d] = id[c] => d = c
    BY <1>1 DEF WellFormed, OwnCalls
  <1>5. \A d \in Callers : Refreshing(d) => d = c
    BY <1>3, <1>4 DEF Core, InflightIsLeader, Refreshing
  <1> QED BY <1>2, <1>3, <1>4, <1>5 DEF Core, InflightIsLeader

\* Every step of valid(), the endpoint and a restart keeps the leader the leader.
LEMMA CoreNext == IInv /\ [Next]_vars => Core'
  <1> SUFFICES ASSUME IInv, [Next]_vars PROVE Core'
    OBVIOUS
  <1> USE DEF IInv
  <1>0. WellFormed'
    BY WellFormedNext
  <1>1. ASSUME NEW c \in Callers, Begin(c) PROVE Core'
    <2>1. /\ UNCHANGED <<mu, tok, inflight, store, live, call, wire>>
          /\ pc[c] = "idle" /\ pc' = [pc EXCEPT ![c] = "locking"]
          /\ id' = [id EXCEPT ![c] = started + 1]
      BY <1>1 DEF Begin, source, server
    <2>2. InflightIsLeader' /\ LeaderOpen' /\ Rotation'
      BY <2>1, Bystander DEF WellFormed, TypeOK
    <2>3. LockHeld'
      BY <2>1 DEF WellFormed, TypeOK, Core, LockHeld
    <2> QED BY <2>2, <2>3 DEF Core
  <1>2. ASSUME NEW c \in Callers, StartLoad(c) PROVE Core'
    <2>1. /\ UNCHANGED <<tok, inflight, store, id, live, call, wire>>
          /\ pc[c] = "locking" /\ mu = "nobody" /\ tok = None
          /\ mu' = c /\ pc' = [pc EXCEPT ![c] = "loading"]
      BY <1>2 DEF StartLoad, server
    <2>2. InflightIsLeader' /\ LeaderOpen' /\ Rotation'
      BY <2>1, Bystander DEF WellFormed, TypeOK
    <2>3. LockHeld'
      BY <2>1, CallersAssumption DEF WellFormed, TypeOK, Core, LockHeld
    <2> QED BY <2>2, <2>3 DEF Core
  <1>3. ASSUME NEW c \in Callers,
               \/ LoadFails(c) \/ LoadsNothing(c) \/ WaiterWakes(c)
               \/ WaiterCancelled(c)
        PROVE Core'
    <2>1. /\ UNCHANGED <<tok, inflight, store, id, live, call, wire>>
          /\ pc[c] \in {"loading", "waiting"}
          /\ pc' = [pc EXCEPT ![c] = "idle"]
          /\ mu' = mu \/ pc[c] = "loading"
      BY <1>3 DEF LoadFails, LoadsNothing, WaiterWakes, WaiterCancelled, Outcome,
                  Return, source, server
    <2>2. InflightIsLeader' /\ LeaderOpen' /\ Rotation'
      BY <2>1, Bystander DEF WellFormed, TypeOK
    <2>3. LockHeld'
      BY <2>1 DEF WellFormed, TypeOK, Core, LockHeld
    <2> QED BY <2>2, <2>3 DEF Core
  <1>4. ASSUME NEW c \in Callers, NEW p \in Pairs, Decide(c, p),
               pc[c] \in {"locking", "loading"}, UNCHANGED <<store, live>>,
               \/ pc[c] = "locking" /\ tok = p /\ UNCHANGED <<mu, tok>>
               \/ pc[c] = "loading" /\ store = p /\ mu' = "nobody" /\ tok' = p
        PROVE Core'
    <2>1. p # None /\ tok' = p
      BY <1>4, BoundsAssumption DEF Pairs, None
    <2>2. tok # p => tok = None /\ inflight = None /\ pc[c] = "loading"
      BY <1>4 DEF Core, LockHeld, InflightIsLeader
    <2>3. inflight = None => /\ store <= p /\ p <= live
                             /\ \A d \in Callers : ~Refreshing(d)
      <3>1. \A d \in Callers : Refreshing(d) => inflight # None
        BY OneRefreshing
      <3> QED BY <1>4, <2>1, <3>1 DEF Core, Rotation, WellFormed, TypeOK
    <2>4. LockHeld'
      <3>1. pc' \in {[pc EXCEPT ![c] = "idle"], [pc EXCEPT ![c] = "waiting"],
                     [pc EXCEPT ![c] = "leading"]}
        BY <1>4 DEF Decide, ReturnCached, ReturnExpired, Join, Lead, Return
      <3>2. \A d \in Callers : pc'[d] = "loading" => pc[d] = "loading" /\ d # c
        BY <3>1 DEF WellFormed, TypeOK
      <3> QED BY <1>4, <2>1, <3>2 DEF Core, LockHeld
    <2>5. CASE UNCHANGED <<inflight, id, call, wire>>
      <3>1. \/ pc' = [pc EXCEPT ![c] = "idle"]
            \/ pc' = [pc EXCEPT ![c] = "waiting"]
        <4>1. CASE ~Lead(c, p)
          BY <1>4, <4>1 DEF Decide, ReturnCached, ReturnExpired, Join, Return
        <4>2. CASE Lead(c, p)
          <5>1. pc[c] # "idle"
            BY <1>4
          <5>2. id[c] # None
            BY <5>1 DEF WellFormed, OwnCalls, TypeOK, None
          <5> QED BY <2>5, <4>2, <5>2 DEF Lead
        <4> QED BY <4>1, <4>2
      <3>2. \A d \in Callers : Refreshing(d)' <=> Refreshing(d)
        BY <1>4, <3>1 DEF Refreshing, WellFormed, TypeOK
      <3>3. CASE tok' = tok
        BY <1>4, <2>4, <2>5, <3>1, <3>3, Bystander DEF WellFormed, TypeOK, Core
      <3>4. CASE tok # p
        <4>1. inflight = None /\ \A d \in Callers : ~Refreshing(d)
          BY <2>2, <2>3, <3>4
        <4>2. InflightIsLeader'
          BY <2>1, <2>5, <3>2, <4>1 DEF InflightIsLeader
        <4>3. LeaderOpen'
          BY <1>4, <2>5, <3>1, <3>2, <4>1
          DEF Core, LeaderOpen, WellFormed, TypeOK, Refreshing
        <4>4. Rotation'
          BY <1>4, <2>1, <2>3, <2>5, <3>2, <4>1 DEF Core, Rotation
        <4> QED BY <2>4, <4>2, <4>3, <4>4 DEF Core
      <3> QED BY <2>1, <3>3, <3>4
    <2>6. CASE Lead(c, p)
      <3>1. /\ UNCHANGED <<id>> /\ inflight = None /\ inflight' = id[c]
            /\ call' = [call EXCEPT ![id[c]] = NewCall(p)]
            /\ wire' = [wire EXCEPT ![id[c]] = [status |-> "sent", pair |-> None]]
            /\ pc' = [pc EXCEPT ![c] = "leading"]
        BY <2>6 DEF Lead
      <3>2. id[c] \in Ids /\ id[c] # None
        BY <1>4, BoundsAssumption DEF WellFormed, OwnCalls, TypeOK, None, Ids
      <3>3. \A d \in Callers : Refreshing(d)' <=> d = c
        BY <2>3, <3>1 DEF Refreshing, WellFormed, TypeOK
      <3>4. InflightIsLeader'
        BY <2>1, <3>1, <3>3 DEF InflightIsLeader
      <3>5. /\ call'[id[c]] = NewCall(p)
            /\ wire'[id[c]] = [status |-> "sent", pair |-> None]
            /\ \A i \in Ids : i # id[c] => call'[i] = call[i] /\ wire'[i] = wire[i]
        BY <3>1, <3>2 DEF WellFormed, TypeOK
      <3>6. LeaderOpen'
        <4>1. \A d \in Callers : pc[d] = "closing" => id[d] \in Ids /\ id[d] # id[c]
          <5>1. \A d \in Callers : pc[d] = "closing" => d # c /\ pc[d] # "idle"
            BY <1>4
          <5>2. \A d \in Callers : pc[d] = "closing" => id[d] \in Ids
            BY BoundsAssumption DEF WellFormed, TypeOK, OwnCalls, Ids
          <5> QED BY <1>4, <5>1, <5>2 DEF WellFormed, OwnCalls
        <4>2. \A d \in Callers : pc'[d] = "closing" => pc[d] = "closing"
          BY <3>1 DEF WellFormed, TypeOK
        <4> QED BY <3>1, <3>3, <3>5, <4>1, <4>2 DEF Core, LeaderOpen, NewCall
      <3>7. Rotation'
        <4>1. pc'[c] = "leading"
          BY <3>1 DEF WellFormed, TypeOK
        <4>2. \A i \in Ids : wire'[i].pair <= live /\ call'[i].refreshed <= live
          BY <3>5 DEF Core, Rotation, WellFormed, TypeOK, NewCall, None
        <4> QED BY <1>4, <2>1, <2>3, <3>1, <3>2, <3>3, <3>5, <4>1, <4>2
                DEF Core, Rotation, NewCall
      <3> QED BY <2>4, <3>4, <3>6, <3>7 DEF Core
    <2> QED BY <1>4, <2>5, <2>6 DEF Decide, ReturnCached, ReturnExpired, Join
  <1>5. ASSUME NEW c \in Callers, CheckCached(c) \/ Loads(c) PROVE Core'
    <2>1. CASE CheckCached(c)
      <3>1. tok \in Pairs
        BY <2>1, BoundsAssumption DEF CheckCached, WellFormed, TypeOK, Pairs, None
      <3> QED BY <1>4, <2>1, <3>1 DEF CheckCached
    <2>2. CASE Loads(c)
      <3>1. store \in Pairs
        BY <2>2, BoundsAssumption DEF Loads, WellFormed, TypeOK, Pairs, None
      <3> QED BY <1>4, <2>2, <3>1 DEF Loads
    <2> QED BY <1>5, <2>1, <2>2
  <1>6. ASSUME NEW c \in Callers, Refreshing(c),
               RefreshSucceeds(c) \/ RefreshFails(c) \/ Save(c) \/ SaveFails(c)
        PROVE Core'
    <2>1. /\ id[c] \in Ids /\ inflight = id[c] /\ inflight # None /\ tok # None
          /\ \A d \in Callers : Refreshing(d) => d = c
          /\ \A d \in Callers : pc[d] # "idle" /\ id[d] = id[c] => d = c
      BY <1>6, OneRefreshing
    <2>2. /\ UNCHANGED <<mu, tok, inflight, id, live, wire>>
          /\ pc' \in {[pc EXCEPT ![c] = "saving"], [pc EXCEPT ![c] = "settling"]}
      BY <1>6 DEF RefreshSucceeds, RefreshFails, Save, SaveFails, source, server
    <2>3. \A d \in Callers : /\ Refreshing(d)' <=> d = c
                             /\ d # c => pc'[d] = pc[d]
      BY <1>6, <2>1, <2>2 DEF Refreshing, WellFormed, TypeOK
    <2>4. InflightIsLeader'
      BY <2>1, <2>2, <2>3 DEF InflightIsLeader
    <2>5. LockHeld'
      BY <2>2, <2>3 DEF Core, LockHeld, Refreshing, WellFormed, TypeOK
    <2>6. \A i \in Ids : /\ call'[i].done = call[i].done
                         /\ call'[i].presented = call[i].presented
                         /\ i # id[c] => call'[i] = call[i]
      BY <1>6, <2>1
      DEF RefreshSucceeds, RefreshFails, Save, SaveFails, WellFormed, TypeOK
    <2>7. LeaderOpen'
      <3>1. \A d \in Callers : Refreshing(d)' \/ pc'[d] = "closing"
                               => /\ id'[d] = id[d] /\ id[d] \in Ids
                                  /\ Refreshing(d) \/ pc[d] = "closing"
        <4>1. \A d \in Callers : pc[d] = "closing" => id[d] \in Ids
          BY BoundsAssumption DEF WellFormed, TypeOK, OwnCalls, Ids
        <4> QED BY <1>6, <2>1, <2>2, <2>3, <4>1 DEF Refreshing
      <3> QED BY <2>6, <3>1 DEF Core, LeaderOpen
    <2>8. /\ call[id[c]].presented = tok
          /\ wire[id[c]].status = "granted" => wire[id[c]].pair = tok + 1
          /\ wire[id[c]].pair <= live
      BY <1>6, <2>1 DEF Core, Rotation
    <2>9. store' <= live /\ \A i \in Ids : call'[i].refreshed <= live
      <3>1. CASE RefreshSucceeds(c)
        BY <2>1, <2>8, <3>1 DEF RefreshSucceeds, Core, Rotation, WellFormed, TypeOK
      <3>2. CASE RefreshFails(c)
        BY <3>2 DEF RefreshFails, Core, Rotation
      <3>3. CASE Save(c)
        BY <2>1, <3>3 DEF Save, Core, Rotation, WellFormed, TypeOK
      <3>4. CASE SaveFails(c)
        BY <2>1, <3>4 DEF SaveFails, Core, Rotation
      <3> QED BY <1>6, <3>1, <3>2, <3>3, <3>4
    <2>10. \/ /\ pc'[c] = "saving" /\ store' <= tok
              /\ call'[id[c]].refreshed = tok + 1
           \/ /\ pc'[c] = "settling"
              /\ \/ store' <= tok /\ call'[id[c]].refreshed = None
                 \/ store' <= tok + 1 /\ call'[id[c]].refreshed = tok + 1
      <3>1. CASE RefreshSucceeds(c)
        BY <1>6, <2>1, <2>8, <3>1
        DEF RefreshSucceeds, Core, Rotation, WellFormed, TypeOK
      <3>2. CASE RefreshFails(c)
        BY <1>6, <2>1, <3>2 DEF RefreshFails, Core, Rotation, WellFormed, TypeOK
      <3>3. CASE Save(c)
        BY <1>6, <2>1, <3>3 DEF Save, Core, Rotation, WellFormed, TypeOK
      <3>4. CASE SaveFails(c)
        BY <1>6, <2>1, <3>4 DEF SaveFails, Core, Rotation, WellFormed, TypeOK
      <3> QED BY <1>6, <3>1, <3>2, <3>3, <3>4
    <2>11. Rotation'
      <3>1. tok' <= live' /\ store' <= live' /\ inflight' # None
        BY <2>1, <2>2, <2>9 DEF Core, Rotation
      <3>2. \A i \in Ids : wire'[i].pair <= live' /\ call'[i].refreshed <= live'
        BY <2>2, <2>9 DEF Core, Rotation
      <3>3. call'[id'[c]].presented = tok' /\ wire'[id'[c]] = wire[id[c]]
        BY <2>1, <2>2, <2>6, <2>8
      <3> QED BY <2>2, <2>3, <2>8, <2>10, <3>1, <3>2, <3>3 DEF Rotation
    <2> QED BY <2>4, <2>5, <2>7, <2>11 DEF Core
  <1>7. ASSUME NEW c \in Callers, Settle(c) PROVE Core'
    <2>1. /\ UNCHANGED <<mu, store, id, live, call, wire>>
          /\ pc[c] = "settling" /\ mu = "nobody" /\ inflight' = None
          /\ tok' = IF call[id[c]].refreshed # None THEN call[id[c]].refreshed ELSE tok
          /\ pc' = [pc EXCEPT ![c] = "closing"]
      BY <1>7 DEF Settle, server
    <2>2. /\ id[c] \in Ids /\ tok # None
          /\ \A d \in Callers : Refreshing(d) => d = c
      BY <2>1, OneRefreshing DEF Refreshing
    <2>3. \A d \in Callers : ~Refreshing(d)'
      BY <2>1, <2>2 DEF Refreshing, WellFormed, TypeOK
    <2>4. tok' <= live /\ store <= tok'
      BY <2>1, <2>2 DEF Core, Rotation, Refreshing, WellFormed, TypeOK, None
    <2>5. LockHeld'
      BY <2>1, CallersAssumption DEF Core, LockHeld, WellFormed, TypeOK
    <2>6. LeaderOpen'
      BY <2>1, <2>3 DEF Core, LeaderOpen, Refreshing, WellFormed, TypeOK
    <2>7. InflightIsLeader'
      BY <2>1, <2>3 DEF InflightIsLeader
    <2>8. Rotation'
      BY <2>1, <2>3, <2>4 DEF Core, Rotation
    <2> QED BY <2>5, <2>6, <2>7, <2>8 DEF Core
  <1>8. ASSUME NEW c \in Callers, CloseDone(c) PROVE Core'
    <2>1. /\ UNCHANGED <<mu, tok, inflight, store, id, live, wire>>
          /\ pc[c] = "closing"
          /\ call' = [call EXCEPT ![id[c]].done = TRUE]
          /\ pc' = [pc EXCEPT ![c] = "idle"]
      BY <1>8 DEF CloseDone, Outcome, Return, source, server
    <2>2. \A d \in Callers : /\ Refreshing(d)' <=> Refreshing(d)
                             /\ pc'[d] # "idle" => pc'[d] = pc[d] /\ d # c
      BY <2>1 DEF Refreshing, WellFormed, TypeOK
    <2>3. \A d \in Callers : pc[d] # "idle" => id[d] \in Ids /\ (id[d] = id[c] => d = c)
      <3>1. \A d \in Callers : pc[d] # "idle" => id[d] \in Ids
        BY BoundsAssumption DEF WellFormed, TypeOK, OwnCalls, Ids
      <3> QED BY <2>1, <3>1 DEF WellFormed, OwnCalls
    <2>4. \A i \in Ids : /\ call'[i].presented = call[i].presented
                         /\ call'[i].refreshed = call[i].refreshed
                         /\ i # id[c] => call'[i] = call[i]
      BY <2>1, <2>3 DEF WellFormed, TypeOK
    <2>5. InflightIsLeader'
      BY <2>1, <2>2 DEF Core, InflightIsLeader
    <2>6. LockHeld'
      BY <2>1, <2>2 DEF Core, LockHeld
    <2>7. LeaderOpen'
      BY <2>1, <2>2, <2>3, <2>4 DEF Core, LeaderOpen, Refreshing
    <2>8. Rotation'
      BY <2>1, <2>2, <2>3, <2>4 DEF Core, Rotation, Refreshing
    <2> QED BY <2>5, <2>6, <2>7, <2>8 DEF Core
  <1>9. ASSUME NEW i \in Ids, Grant(i) PROVE Core'
    <2>1. /\ UNCHANGED <<mu, tok, inflight, store, pc, id, call>>
          /\ call[i].presented = live /\ live' = live + 1
          /\ wire[i].status = "sent"
          /\ wire' = [wire EXCEPT ![i] = [status |-> "granted", pair |-> live + 1]]
      BY <1>9 DEF Grant, source, locals
    <2>2. InflightIsLeader' /\ LockHeld' /\ LeaderOpen'
      BY <2>1 DEF Core, InflightIsLeader, LockHeld, LeaderOpen, Refreshing
    <2>3. live \in Nat /\ tok \in Nat /\ store \in Nat
      BY DEF WellFormed, TypeOK
    <2>4. /\ wire'[i].pair = live + 1
          /\ \A j \in Ids : j # i => wire'[j] = wire[j]
      BY <2>1 DEF WellFormed, TypeOK
    <2>5. \A j \in Ids : wire'[j].pair <= live' /\ call'[j].refreshed <= live'
      <3>1. \A j \in Ids : wire[j].pair \in Nat /\ call[j].refreshed \in Nat
        BY DEF WellFormed, TypeOK
      <3> QED BY <2>1, <2>3, <2>4, <3>1 DEF Core, Rotation
    <2>6. ASSUME NEW d \in Callers, Refreshing(d)
          PROVE  wire'[id[d]].status = "granted" => wire'[id[d]].pair = tok + 1
      <3>1. id[d] \in Ids
        BY <2>6, OneRefreshing
      <3>2. CASE id[d] = i
        BY <2>1, <2>4, <2>6, <3>2 DEF Core, Rotation
      <3>3. CASE id[d] # i
        BY <2>1, <2>4, <2>6, <3>1, <3>3 DEF Core, Rotation
      <3> QED BY <3>2, <3>3
    <2>7. tok' <= live' /\ store' <= live'
      BY <2>1, <2>3 DEF Core, Rotation
    <2>8. Rotation'
      BY <2>1, <2>5, <2>6, <2>7 DEF Core, Rotation, Refreshing
    <2> QED BY <2>2, <2>8 DEF Core
  <1>10. CASE Authorize
    <2>1. /\ UNCHANGED <<mu, tok, inflight, pc, id, call, wire>>
          /\ live = None /\ live' = 1 /\ store' = 1
      BY <1>10 DEF Authorize, source, locals
    <2>2. tok = None /\ inflight = None
      BY <2>1 DEF Core, Rotation, InflightIsLeader, WellFormed, TypeOK, None
    <2>3. \A d \in Callers : ~Refreshing(d) /\ ~Refreshing(d)'
      BY <2>1, <2>2, OneRefreshing DEF Refreshing
    <2>4. InflightIsLeader' /\ LockHeld' /\ LeaderOpen'
      BY <2>1, <2>2, <2>3 DEF Core, InflightIsLeader, LockHeld, LeaderOpen
    <2>5. \A i \in Ids : wire[i].pair \in Nat /\ call[i].refreshed \in Nat
      BY DEF WellFormed, TypeOK
    <2>6. Rotation'
      BY <2>1, <2>2, <2>3, <2>5 DEF Core, Rotation, None
    <2> QED BY <2>4, <2>6 DEF Core
  <1>11. CASE Tick \/ UNCHANGED vars
    <2>1. UNCHANGED <<mu, tok, inflight, store, pc, id, live, call, wire>>
      BY <1>11 DEF Tick, vars, source, locals, server
    <2>2. InflightIsLeader' /\ LeaderOpen' /\ Rotation'
      BY <2>1, Bystander
    <2>3. LockHeld'
      BY <2>1 DEF Core, LockHeld
    <2> QED BY <2>2, <2>3 DEF Core
  <1>12. CASE Restart
    <2>1. /\ UNCHANGED <<store, id, live, call, wire>>
          /\ tok' = None /\ inflight' = None
          /\ pc' = [c \in Callers |-> "idle"]
      BY <1>12 DEF Restart, server
    <2>2. \A d \in Callers : pc'[d] = "idle" /\ ~Refreshing(d)'
      BY <2>1 DEF Refreshing
    <2>3. InflightIsLeader' /\ LockHeld' /\ LeaderOpen'
      BY <2>1, <2>2 DEF InflightIsLeader, LockHeld, LeaderOpen
    <2>4. Rotation'
      BY <2>1, <2>2 DEF Core, Rotation, WellFormed, TypeOK, None
    <2> QED BY <2>3, <2>4 DEF Core
  <1>13. \A c \in Callers : RefreshSucceeds(c) \/ RefreshFails(c) \/ Save(c)
                              \/ SaveFails(c) => Refreshing(c)
    BY DEF RefreshSucceeds, RefreshFails, Save, SaveFails, Refreshing
  <1> QED
    BY <1>1, <1>2, <1>3, <1>5, <1>6, <1>7, <1>8, <1>9, <1>10, <1>11, <1>12, <1>13
    DEF Next, LockSteps, LeaderSteps

\* The invariant, in every state.
LEMMA Invariance == Spec => []IInv
  <1>1. Init => IInv
    BY WellFormedInit, CoreInit DEF IInv
  <1>2. IInv /\ [Next]_vars => IInv'
    BY WellFormedNext, CoreNext DEF IInv
  <1> QED BY <1>1, <1>2, PTL DEF Spec

\* However many goroutines call valid() and however the endpoint, the store and
\* the clock behave, two of them never refresh at once.
THEOREM RefreshIsSingleFlight == Spec => []SingleFlight
  <1>1. IInv => SingleFlight
    BY OneRefreshing DEF IInv, SingleFlight
  <1> QED BY <1>1, Invariance, PTL

\* A goroutine that joins a refresh joins one whose done channel is open: the
\* failure of a refresh reaches only the callers that were already waiting.
THEOREM JoinsOnlyOpenCalls == Spec => JoinsOpenCall
  <1>1. ASSUME IInv, [Next]_vars, NEW c \in Callers, pc[c] # "waiting",
               pc'[c] = "waiting"
        PROVE  ~call'[joined'[c]].done
    <2>1. PICK p : Join(c, p)
      <3>1. ASSUME NEW d \in Callers, NEW p, Decide(d, p), d # c \/ ~Join(c, p)
            PROVE  pc'[c] # "waiting"
        BY <1>1, <3>1
        DEF Decide, ReturnCached, ReturnExpired, Join, Lead, Return, IInv, WellFormed,
            TypeOK
      <3>2. ASSUME NEW d \in Callers, CheckCached(d) \/ Loads(d), ~\E p : Join(c, p)
            PROVE  pc'[c] # "waiting"
        BY <3>1, <3>2 DEF CheckCached, Loads
      <3>3. ASSUME NEW d \in Callers,
                   \/ Begin(d) \/ StartLoad(d) \/ LoadFails(d) \/ LoadsNothing(d)
                   \/ LeaderSteps(d) \/ WaiterWakes(d) \/ WaiterCancelled(d)
            PROVE  pc'[c] # "waiting"
        BY <1>1, <3>3
        DEF Begin, StartLoad, LoadFails, LoadsNothing, LeaderSteps, RefreshSucceeds,
            RefreshFails, Save, SaveFails, Settle, CloseDone, WaiterWakes,
            WaiterCancelled, Outcome, Return, IInv, WellFormed, TypeOK
      <3>4. (\E i \in Ids : Grant(i)) \/ Authorize \/ Tick \/ Restart \/ UNCHANGED vars
              => pc'[c] # "waiting"
        BY <1>1 DEF Grant, Authorize, Tick, Restart, vars, locals
      <3> QED BY <1>1, <3>2, <3>3, <3>4 DEF Next, LockSteps
    <2>2. PICK d \in Callers : Refreshing(d) /\ id[d] = inflight
      BY <1>1, <2>1 DEF Join, IInv, Core, InflightIsLeader
    <2>3. ~call[inflight].done
      BY <1>1, <2>2 DEF IInv, Core, LeaderOpen
    <2>4. call' = call /\ joined'[c] = inflight
      BY <1>1, <2>1 DEF Join, IInv, WellFormed, TypeOK
    <2> QED BY <2>3, <2>4
  <1>2. IInv /\ [Next]_vars
          => [\A c \in Callers : pc[c] # "waiting" /\ pc'[c] = "waiting"
                                   => ~call'[joined'[c]].done]_vars
    BY <1>1
  <1> QED BY <1>2, Invariance, PTL DEF Spec, JoinsOpenCall

\* A refresh never replaces the pair in the store by an older one: the rotated
\* pair that is saved is newer than what is stored, over failures and restarts.
THEOREM StoredPairOnlyAdvances == Spec => StoreNeverRegresses
  <1>1. ASSUME IInv, [Next]_vars PROVE store' >= store
    <2>1. ASSUME NEW c \in Callers, Save(c) \/ SaveFails(c) PROVE store' >= store
      <3>1. pc[c] = "saving" /\ store' \in {store, call[id[c]].refreshed}
        BY <2>1 DEF Save, SaveFails
      <3>2. store <= tok /\ call[id[c]].refreshed = tok + 1
        BY <1>1, <3>1 DEF IInv, Core, Rotation, Refreshing
      <3> QED BY <1>1, <3>1, <3>2 DEF IInv, WellFormed, TypeOK
    <2>2. CASE Authorize
      BY <2>2 DEF Authorize, None
    <2>3. CASE ~Authorize /\ ~\E c \in Callers : Save(c) \/ SaveFails(c)
      <3>1. store' = store
        BY <1>1, <2>3
        DEF Next, LockSteps, LeaderSteps, Begin, CheckCached, StartLoad, LoadFails,
            LoadsNothing, Loads, RefreshSucceeds, RefreshFails, Settle, CloseDone,
            WaiterWakes, WaiterCancelled, Grant, Tick, Restart, vars
      <3> QED BY <1>1, <3>1 DEF IInv, WellFormed, TypeOK
    <2> QED BY <2>1, <2>2, <2>3
  <1>2. IInv /\ [Next]_vars => [store' >= store]_store
    BY <1>1
  <1> QED BY <1>2, Invariance, PTL DEF Spec, StoreNeverRegresses

-----------------------------------------------------------------------------
(* The history: what was presented, granted, saved and returned. *)

(***************************************************************************)
(* What came back is the successor of what was presented.  Once saved it   *)
(* is in the store, and as long as the process lives it is in memory or    *)
(* with the leader that is about to put it there.                          *)
(***************************************************************************)
Consumed ==
  \A j \in Ids : call[j].refreshed # None =>
    /\ wire[j].status = "granted"
    /\ call[j].refreshed = call[j].presented + 1
    /\ call[j].saved => call[j].refreshed <= store
    /\ restarts = 0 =>
         \/ call[j].refreshed <= tok
         \/ \E c \in Callers : Refreshing(c) /\ id[c] = j

(***************************************************************************)
(* A pair that was presented, or is not the endpoint's newest, was not     *)
(* valid when its successor was asked for, and the clock only advances.    *)
(***************************************************************************)
Outdated ==
  \A p \in Pairs :
    p < live \/ (\E j \in Ids : call[j].presented = p) => ~AccessValid(p)

(***************************************************************************)
(* What the refresh in flight was granted is the endpoint's newest pair,   *)
(* which nobody has presented.                                             *)
(***************************************************************************)
GrantedIsNewest ==
  /\ \A j \in Ids : call[j].presented <= live
  /\ \A j \in Ids : wire[j].status = "sent" => call[j].presented # None
  /\ \A c \in Callers : Refreshing(c) /\ wire[id[c]].status = "granted" =>
       live = tok + 1 /\ \A j \in Ids : call[j].presented <= tok

SeenBounds ==
  /\ seen <= live
  /\ \A c \in Callers : since[c] <= seen

\* The call whose outcome a goroutine will return.
Awaits(c, i) ==
  \/ (Refreshing(c) \/ pc[c] = "closing") /\ i = id[c]
  \/ pc[c] = "waiting" /\ i = joined[c]

(***************************************************************************)
(* What has come back for a goroutine is no older than what had been seen  *)
(* when it called.                                                         *)
(***************************************************************************)
Awaited ==
  \A c \in Callers, i \in Ids :
    Awaits(c, i) /\ call[i].refreshed # None => since[c] <= call[i].refreshed

\* The inductive part, over IInv and Consumed.
Fresh == Outdated /\ GrantedIsNewest /\ SeenBounds /\ Awaited

-----------------------------------------------------------------------------
(* Facts about the steps. *)

\* Goroutines inside valid(), and those they wait for, have the number of a call.
LEMMA CallNumbers ==
  ASSUME IInv
  PROVE  /\ \A c \in Callers : pc[c] # "idle" => id[c] \in Ids
         /\ \A c \in Callers : pc[c] = "waiting" => joined[c] \in Ids
  <1>1. \A c \in Callers : pc[c] # "idle" => id[c] \in Ids
    BY BoundsAssumption DEF IInv, WellFormed, TypeOK, OwnCalls, Ids
  <1>2. \A c \in Callers : pc[c] = "waiting" => joined[c] \in Ids
    BY BoundsAssumption DEF IInv, WellFormed, TypeOK, OwnCalls, Ids, None
  <1> QED BY <1>1, <1>2

\* The pair that valid() holds under the lock.
LEMMA HeldPair ==
  ASSUME IInv, NEW c \in Callers, CheckCached(c) \/ Loads(c)
  PROVE  \E p \in Pairs :
           /\ Decide(c, p) /\ tok' = p /\ p <= live
           /\ inflight = None => store <= p
           /\ tok = p \/ (tok = None /\ inflight = None /\ store = p)
           /\ pc[c] \in {"locking", "loading"}
           /\ UNCHANGED <<clock, store, started, restarts, live, created>>
  <1> USE DEF IInv
  <1>1. CASE CheckCached(c)
    <2>1. tok \in Pairs
      BY <1>1, BoundsAssumption DEF CheckCached, WellFormed, TypeOK, Pairs, None
    <2>2. tok <= live /\ (inflight = None => store <= tok)
      BY <1>1 DEF CheckCached, Core, Rotation
    <2>3. /\ Decide(c, tok) /\ tok' = tok /\ pc[c] \in {"locking", "loading"}
          /\ UNCHANGED <<clock, store, started, restarts, live, created>>
      BY <1>1 DEF CheckCached
    <2> QED BY <2>1, <2>2, <2>3
  <1>2. CASE Loads(c)
    <2>1. store \in Pairs
      BY <1>2, BoundsAssumption DEF Loads, WellFormed, TypeOK, Pairs, None
    <2>2. store <= live /\ tok = None /\ inflight = None
      BY <1>2 DEF Loads, Core, Rotation, LockHeld, InflightIsLeader
    <2>3. /\ Decide(c, store) /\ tok' = store /\ pc[c] \in {"locking", "loading"}
          /\ UNCHANGED <<clock, store, started, restarts, live, created>>
      BY <1>2 DEF Loads
    <2>4. store <= store
      BY <2>1 DEF Pairs
    <2> QED BY <2>1, <2>2, <2>3, <2>4
  <1> QED BY <1>1, <1>2

\* Nobody refreshes when a refresh begins; only its call and request are new.
LEMMA LeadEffect ==
  ASSUME IInv, NEW c \in Callers, NEW p \in Pairs, Lead(c, p),
         pc[c] \in {"locking", "loading"}
  PROVE  /\ id[c] \in Ids
         /\ call'[id[c]].presented = p /\ call'[id[c]].refreshed = None /\ p # None
         /\ wire'[id[c]].status = "sent"
         /\ \A i \in Ids : i # id[c] => call'[i] = call[i] /\ wire'[i] = wire[i]
         /\ pc'[c] = "leading" /\ \A d \in Callers : d # c => pc'[d] = pc[d]
         /\ \A d \in Callers : ~Refreshing(d)
         /\ UNCHANGED <<id, joined, history>>
         /\ ~AccessValid(p)
  <1> USE DEF IInv
  <1>1. id[c] \in Ids
    BY BoundsAssumption DEF WellFormed, OwnCalls, TypeOK, Ids
  <1>2. \A d \in Callers : ~Refreshing(d)
    BY OneRefreshing DEF Lead
  <1>3. pc'[c] = "leading" /\ \A d \in Callers : d # c => pc'[d] = pc[d]
    BY DEF Lead, WellFormed, TypeOK
  <1>4. /\ call'[id[c]].presented = p /\ call'[id[c]].refreshed = None /\ p # None
        /\ wire'[id[c]].status = "sent"
        /\ \A i \in Ids : i # id[c] => call'[i] = call[i] /\ wire'[i] = wire[i]
    BY <1>1, BoundsAssumption DEF Lead, WellFormed, TypeOK, NewCall, Pairs, None
  <1> QED BY <1>1, <1>2, <1>3, <1>4 DEF Lead

\* Deciding otherwise leaves the calls and the requests as they are.
LEMMA OtherDecision ==
  ASSUME IInv, NEW c \in Callers, NEW p \in Pairs, Decide(c, p), ~Lead(c, p),
         pc[c] \in {"locking", "loading"}
  PROVE  /\ UNCHANGED <<inflight, id, call, wire>>
         /\ pc'[c] \in {"idle", "waiting"} /\ \A d \in Callers : d # c => pc'[d] = pc[d]
         /\ \A d \in Callers : Refreshing(d)' <=> Refreshing(d)
  <1>1. UNCHANGED <<inflight, id, call, wire>>
    BY DEF Decide, ReturnCached, ReturnExpired, Join
  <1>2. \/ pc' = [pc EXCEPT ![c] = "idle"]
        \/ pc' = [pc EXCEPT ![c] = "waiting"]
    BY DEF Decide, ReturnCached, ReturnExpired, Join, Return
  <1>3. pc'[c] \in {"idle", "waiting"} /\ \A d \in Callers : d # c => pc'[d] = pc[d]
    BY <1>2 DEF IInv, WellFormed, TypeOK
  <1> QED BY <1>1, <1>3 DEF Refreshing

\* What the refresh in flight has presented and may bring back.
LEMMA RefreshState ==
  ASSUME IInv, NEW c \in Callers, Refreshing(c)
  PROVE  /\ id[c] \in Ids /\ tok \in Nat \ {None} /\ live \in Nat /\ store \in Nat
         /\ \A d \in Callers : Refreshing(d) => d = c
         /\ call[id[c]].presented = tok
         /\ wire[id[c]].status = "granted" => wire[id[c]].pair = tok + 1
         /\ pc[c] = "leading" => store <= tok /\ call[id[c]].refreshed = None /\ ~call[id[c]].saved
         /\ pc[c] = "saving" => store <= tok /\ call[id[c]].refreshed = tok + 1
         /\ pc[c] = "settling" => call[id[c]].refreshed \in {None, tok + 1}
  <1> USE DEF IInv
  <1>1. id[c] \in Ids /\ tok # None /\ \A d \in Callers : Refreshing(d) => d = c
    BY OneRefreshing
  <1>2. tok \in Nat /\ live \in Nat /\ store \in Nat
    BY DEF WellFormed, TypeOK
  <1>3. /\ call[id[c]].presented = tok
        /\ wire[id[c]].status = "granted" => wire[id[c]].pair = tok + 1
        /\ pc[c] = "leading" => store <= tok /\ call[id[c]].refreshed = None
        /\ pc[c] = "saving" => store <= tok /\ call[id[c]].refreshed = tok + 1
        /\ pc[c] = "settling" => call[id[c]].refreshed \in {None, tok + 1}
    BY DEF Core, Rotation
  <1>4. pc[c] = "leading" => ~call[id[c]].saved
    BY <1>1, <1>3 DEF WellFormed, RealPairs
  <1> QED BY <1>1, <1>2, <1>3, <1>4

-----------------------------------------------------------------------------
(* A consumed refresh token is not presented again. *)

\* Steps that bring nothing back and put nothing into the store that was there.
LEMMA ConsumedKept ==
  ASSUME Consumed, IInv, WellFormed',
         \A j \in Ids : call'[j].refreshed # None =>
           /\ call'[j].refreshed = call[j].refreshed /\ call'[j].presented = call[j].presented
           /\ call'[j].saved = call[j].saved
           /\ wire[j].status = "granted" => wire'[j].status = "granted",
         store <= store',
         restarts' = 0 =>
           /\ restarts = 0 /\ tok <= tok'
           /\ \A d \in Callers : Refreshing(d) =>
                \/ Refreshing(d)' /\ id'[d] = id[d]
                \/ call[id[d]].refreshed # None => call[id[d]].refreshed <= tok'
  PROVE  Consumed'
  <1> SUFFICES ASSUME NEW j \in Ids, call'[j].refreshed # None
               PROVE  /\ wire'[j].status = "granted"
                      /\ call'[j].refreshed = call'[j].presented + 1
                      /\ call'[j].saved => call'[j].refreshed <= store'
                      /\ restarts' = 0 =>
                           \/ call'[j].refreshed <= tok'
                           \/ \E c \in Callers : Refreshing(c)' /\ id'[c] = j
    BY DEF Consumed
  <1>1. /\ call[j].refreshed \in Nat /\ store \in Nat /\ store' \in Nat /\ tok \in Nat /\ tok' \in Nat
    BY DEF IInv, WellFormed, TypeOK
  <1>2. /\ wire'[j].status = "granted"
        /\ call'[j].refreshed = call'[j].presented + 1
        /\ call'[j].saved => call'[j].refreshed <= store'
    BY <1>1 DEF Consumed
  <1>3. ASSUME restarts' = 0
        PROVE  \/ call'[j].refreshed <= tok'
               \/ \E c \in Callers : Refreshing(c)' /\ id'[c] = j
    <2>1. CASE call[j].refreshed <= tok
      BY <1>1, <1>3, <2>1
    <2>2. CASE \E c \in Callers : Refreshing(c) /\ id[c] = j
      BY <1>3, <2>2
    <2> QED BY <1>3, <2>1, <2>2 DEF Consumed
  <1> QED BY <1>2, <1>3

\* What came back is neither lost nor presented again, in every step.
LEMMA NextConsumed == IInv /\ Consumed /\ [Next]_vars => Consumed'
  <1> SUFFICES ASSUME IInv, Consumed, [Next]_vars PROVE Consumed'
    OBVIOUS
  <1>0. WellFormed' /\ tok \in Nat /\ store \in Nat /\ tok <= tok /\ store <= store
    BY WellFormedNext DEF IInv, WellFormed, TypeOK
  <1>1. ASSUME NEW c \in Callers, Begin(c) \/ StartLoad(c) \/ LoadFails(c) \/ LoadsNothing(c)
                                    \/ WaiterWakes(c) \/ WaiterCancelled(c)
        PROVE  Consumed'
    <2>1. /\ UNCHANGED <<tok, store, restarts, call, wire>>
          /\ ~Refreshing(c) /\ \A d \in Callers : d # c => pc'[d] = pc[d] /\ id'[d] = id[d]
      BY <1>1
      DEF Begin, StartLoad, LoadFails, LoadsNothing, WaiterWakes, WaiterCancelled, Outcome, Return,
          Refreshing, source, server, IInv, WellFormed, TypeOK
    <2>2. \A d \in Callers : Refreshing(d) => Refreshing(d)' /\ id'[d] = id[d]
      BY <2>1 DEF Refreshing
    <2> QED BY <1>0, <2>1, <2>2, ConsumedKept
  <1>2. ASSUME NEW c \in Callers, CheckCached(c) \/ Loads(c)
        PROVE  Consumed'
    <2>1. PICK p \in Pairs :
            /\ Decide(c, p) /\ tok' = p
            /\ tok = p \/ (tok = None /\ inflight = None /\ store = p)
            /\ pc[c] \in {"locking", "loading"}
            /\ UNCHANGED <<store, restarts>>
      BY <1>2, HeldPair
    <2>2. tok <= tok'
      BY <1>0, <2>1 DEF Pairs, None
    <2>3. CASE Lead(c, p)
      <3>1. \A j \in Ids : call'[j].refreshed # None => call'[j] = call[j] /\ wire'[j] = wire[j]
        BY <2>1, <2>3, LeadEffect
      <3>2. \A d \in Callers : ~Refreshing(d)
        BY <2>1, <2>3, LeadEffect
      <3> QED BY <1>0, <2>1, <2>2, <3>1, <3>2, ConsumedKept
    <2>4. CASE ~Lead(c, p)
      BY <1>0, <2>1, <2>2, <2>4, OtherDecision, ConsumedKept
    <2> QED BY <2>3, <2>4
  <1>3. ASSUME NEW c \in Callers, RefreshSucceeds(c)
        PROVE  Consumed'
    <2>1. /\ Refreshing(c) /\ pc[c] = "leading" /\ wire[id[c]].status = "granted"
          /\ call' = [call EXCEPT ![id[c]].refreshed = wire[id[c]].pair]
          /\ pc' = [pc EXCEPT ![c] = "saving"]
          /\ UNCHANGED <<tok, store, restarts, id, wire>>
      BY <1>3 DEF RefreshSucceeds, Refreshing, source
    <2>2. /\ id[c] \in Ids /\ wire[id[c]].pair = tok + 1 /\ call[id[c]].presented = tok
          /\ ~call[id[c]].saved /\ \A d \in Callers : Refreshing(d) => d = c
      BY <2>1, RefreshState
    <2>3. /\ call'[id[c]].refreshed = tok + 1 /\ call'[id[c]].presented = tok
          /\ ~call'[id[c]].saved
          /\ \A j \in Ids : j # id[c] => call'[j] = call[j]
      BY <2>1, <2>2 DEF IInv, WellFormed, TypeOK
    <2>4. Refreshing(c)' /\ id'[c] = id[c]
      BY <2>1 DEF Refreshing, IInv, WellFormed, TypeOK
    <2>5. \A j \in Ids : (\E d \in Callers : Refreshing(d) /\ id[d] = j) => j = id[c]
      BY <2>2
    <2> QED BY <2>1, <2>2, <2>3, <2>4, <2>5 DEF Consumed
  <1>4. ASSUME NEW c \in Callers, Save(c)
        PROVE  Consumed'
    <2>1. /\ Refreshing(c) /\ pc[c] = "saving" /\ store' = call[id[c]].refreshed
          /\ call' = [call EXCEPT ![id[c]].saved = TRUE]
          /\ pc' = [pc EXCEPT ![c] = "settling"]
          /\ UNCHANGED <<tok, restarts, id, wire>>
      BY <1>4 DEF Save, Refreshing, source, server
    <2>2. /\ id[c] \in Ids /\ store <= tok /\ call[id[c]].refreshed = tok + 1
      BY <2>1, RefreshState
    <2>3. /\ call'[id[c]].refreshed = tok + 1 /\ call'[id[c]].presented = call[id[c]].presented
          /\ \A j \in Ids : j # id[c] => call'[j] = call[j]
      BY <2>1, <2>2 DEF IInv, WellFormed, TypeOK
    <2>4. \A d \in Callers : Refreshing(d) => Refreshing(d)' /\ id'[d] = id[d]
      BY <2>1 DEF Refreshing, IInv, WellFormed, TypeOK
    <2>5. store' = tok + 1 /\ store < store'
      BY <1>0, <2>1, <2>2
    <2>6. \A j \in Ids : call[j].refreshed \in Nat
      BY DEF IInv, WellFormed, TypeOK
    <2>7. ASSUME NEW j \in Ids, call'[j].refreshed # None
          PROVE  /\ wire'[j].status = "granted"
                 /\ call'[j].refreshed = call'[j].presented + 1
                 /\ call'[j].saved => call'[j].refreshed <= store'
                 /\ restarts' = 0 =>
                      \/ call'[j].refreshed <= tok'
                      \/ \E d \in Callers : Refreshing(d)' /\ id'[d] = j
      <3>1. call[j].refreshed # None /\ call[j].refreshed = call'[j].refreshed
            /\ call[j].presented = call'[j].presented
        BY <2>2, <2>3, <2>7
      <3>2. call'[j].saved => call'[j].refreshed <= store'
        <4>1. CASE j = id[c]
          BY <1>0, <2>3, <2>5, <4>1
        <4>2. CASE j # id[c]
          BY <1>0, <2>3, <2>5, <2>6, <3>1, <4>2 DEF Consumed
        <4> QED BY <4>1, <4>2
      <3>3. restarts' = 0 => \/ call'[j].refreshed <= tok'
                             \/ \E d \in Callers : Refreshing(d)' /\ id'[d] = j
        BY <2>1, <2>4, <3>1 DEF Consumed
      <3> QED BY <2>1, <3>1, <3>2, <3>3 DEF Consumed
    <2> QED BY <2>7 DEF Consumed
  <1>5. ASSUME NEW c \in Callers, RefreshFails(c) \/ SaveFails(c)
        PROVE  Consumed'
    <2>1. /\ Refreshing(c) /\ pc[c] \in {"leading", "saving"}
          /\ store' = store \/ (pc[c] = "saving" /\ store' = call[id[c]].refreshed)
          /\ pc' = [pc EXCEPT ![c] = "settling"]
          /\ UNCHANGED <<tok, restarts, id, call, wire>>
      BY <1>5 DEF RefreshFails, SaveFails, Refreshing, source, server
    <2>2. store <= store'
      BY <1>0, <2>1, RefreshState
    <2>3. \A d \in Callers : Refreshing(d) => Refreshing(d)' /\ id'[d] = id[d]
      BY <2>1 DEF Refreshing, IInv, WellFormed, TypeOK
    <2> QED BY <1>0, <2>1, <2>2, <2>3, ConsumedKept
  <1>6. ASSUME NEW c \in Callers, Settle(c)
        PROVE  Consumed'
    <2>1. /\ Refreshing(c) /\ pc[c] = "settling"
          /\ tok' = IF call[id[c]].refreshed # None THEN call[id[c]].refreshed ELSE tok
          /\ UNCHANGED <<store, restarts, call, wire>>
      BY <1>6 DEF Settle, Refreshing, server
    <2>2. /\ call[id[c]].refreshed \in {None, tok + 1}
          /\ \A d \in Callers : Refreshing(d) => d = c
      BY <2>1, RefreshState
    <2>3. tok <= tok' /\ (call[id[c]].refreshed # None => call[id[c]].refreshed <= tok')
      BY <1>0, <2>1, <2>2
    <2> QED BY <1>0, <2>1, <2>2, <2>3, ConsumedKept
  <1>7. ASSUME NEW c \in Callers, CloseDone(c)
        PROVE  Consumed'
    <2>1. /\ ~Refreshing(c) /\ pc' = [pc EXCEPT ![c] = "idle"]
          /\ call' = [call EXCEPT ![id[c]].done = TRUE]
          /\ UNCHANGED <<tok, store, restarts, id, wire>>
      BY <1>7 DEF CloseDone, Outcome, Return, Refreshing, source, server
    <2>2. \A d \in Callers : Refreshing(d) => Refreshing(d)' /\ id'[d] = id[d]
      BY <2>1 DEF Refreshing, IInv, WellFormed, TypeOK
    <2>3. \A j \in Ids : /\ call'[j].refreshed = call[j].refreshed
                         /\ call'[j].presented = call[j].presented
                         /\ call'[j].saved = call[j].saved
      BY <2>1 DEF IInv, WellFormed, TypeOK
    <2> QED BY <1>0, <2>1, <2>2, <2>3, ConsumedKept
  <1>8. ASSUME NEW i \in Ids, Grant(i)
        PROVE  Consumed'
    <2>1. /\ UNCHANGED <<tok, store, restarts, pc, id, call>>
          /\ wire' = [wire EXCEPT ![i] = [status |-> "granted", pair |-> live + 1]]
      BY <1>8 DEF Grant, source, locals
    <2>2. \A j \in Ids : wire[j].status = "granted" => wire'[j].status = "granted"
      BY <2>1 DEF IInv, WellFormed, TypeOK
    <2> QED BY <1>0, <2>1, <2>2, ConsumedKept DEF Refreshing
  <1>9. CASE Authorize \/ Tick \/ UNCHANGED vars
    <2>1. /\ UNCHANGED <<tok, restarts, pc, id, call, wire>>
          /\ store' = store \/ (store = None /\ store' = 1)
      BY <1>9 DEF Authorize, Tick, vars, source, locals, server
    <2>2. store <= store'
      BY <1>0, <2>1 DEF None
    <2> QED BY <1>0, <2>1, <2>2, ConsumedKept DEF Refreshing
  <1>10. CASE Restart
    <2>1. restarts' # 0 /\ UNCHANGED <<store, call, wire>>
      BY <1>10, BoundsAssumption DEF Restart, server, IInv, WellFormed, TypeOK
    <2> QED BY <1>0, <2>1, ConsumedKept
  <1> QED BY <1>1, <1>2, <1>3, <1>4, <1>5, <1>6, <1>7, <1>8, <1>9, <1>10
          DEF Next, LockSteps, LeaderSteps

\* Only Lead sends a refresh, of a call in which nothing has come back.
LEMMA SendingIsLeading ==
  ASSUME IInv, [Next]_vars, NEW i \in Ids, wire[i].status = "none", wire'[i].status = "sent"
  PROVE  \E c \in Callers, p \in Pairs :
           /\ Lead(c, p) /\ id[c] = i /\ pc[c] \in {"locking", "loading"}
           /\ tok = p \/ (tok = None /\ store = p)
           /\ inflight = None /\ store <= p
  <1>1. ASSUME NEW c \in Callers, CheckCached(c) \/ Loads(c)
        PROVE  \E d \in Callers, p \in Pairs :
                 /\ Lead(d, p) /\ id[d] = i /\ pc[d] \in {"locking", "loading"}
                 /\ tok = p \/ (tok = None /\ store = p)
                 /\ inflight = None /\ store <= p
    <2>1. PICK p \in Pairs :
            /\ Decide(c, p)
            /\ inflight = None => store <= p
            /\ tok = p \/ (tok = None /\ inflight = None /\ store = p)
            /\ pc[c] \in {"locking", "loading"}
      BY <1>1, HeldPair
    <2>2. Lead(c, p)
      BY <2>1, OtherDecision
    <2>3. id[c] = i
      BY <2>1, <2>2, LeadEffect
    <2>4. inflight = None
      BY <2>2 DEF Lead
    <2> QED BY <2>1, <2>2, <2>3, <2>4
  <1>2. CASE \E c \in Callers : CheckCached(c) \/ Loads(c)
    BY <1>1, <1>2
  <1>3. CASE ~\E c \in Callers : CheckCached(c) \/ Loads(c)
    <2>1. ASSUME NEW j \in Ids, Grant(j) PROVE wire'[i].status # "sent"
      BY <2>1 DEF Grant, IInv, WellFormed, TypeOK
    <2>2. CASE ~\E j \in Ids : Grant(j)
      BY <1>3, <2>2
      DEF Next, LockSteps, LeaderSteps, Begin, StartLoad, LoadFails, LoadsNothing,
          RefreshSucceeds, RefreshFails, Save, SaveFails, Settle, CloseDone, WaiterWakes,
          WaiterCancelled, Authorize, Tick, Restart, vars, server
    <2> QED BY <2>1, <2>2
  <1> QED BY <1>2, <1>3

\* A refresh token whose successor came back is not presented again: not while the
\* process lives, whatever became of the save, and never once the save succeeded.
THEOREM ConsumedTokensStayConsumed == Spec => ConsumedNeverPresented
  <1>1. ASSUME IInv, Consumed, [Next]_vars, NEW i \in Ids, NEW j \in Ids,
               wire[i].status = "none", wire'[i].status = "sent",
               call[j].refreshed # None, call[j].saved \/ restarts = 0
        PROVE  call'[i].presented # call[j].presented
    <2>1. PICK c \in Callers, p \in Pairs :
            /\ Lead(c, p) /\ id[c] = i /\ pc[c] \in {"locking", "loading"}
            /\ tok = p \/ (tok = None /\ store = p)
            /\ inflight = None /\ store <= p
      BY <1>1, SendingIsLeading
    <2>2. call'[i].presented = p /\ \A d \in Callers : ~Refreshing(d)
      BY <1>1, <2>1, LeadEffect
    <2>3. /\ call[j].refreshed \in Nat /\ call[j].presented \in Nat /\ p \in Nat /\ store \in Nat
          /\ tok \in Nat
      <3>1. TypeOK
        BY <1>1 DEF IInv, WellFormed
      <3>2. call[j].refreshed \in 0..MaxPairs /\ call[j].presented \in 0..MaxPairs
        BY <3>1, RefreshTyped
      <3>3. p \in Nat /\ store \in Nat /\ tok \in Nat
        BY <3>1 DEF TypeOK, Pairs
      <3> QED BY <3>2, <3>3
    <2>4. call[j].refreshed <= p
      <3>1. CASE call[j].saved
        BY <1>1, <2>1, <2>3, <3>1 DEF Consumed
      <3>2. CASE restarts = 0
        <4>1. call[j].refreshed <= tok
          BY <1>1, <2>2, <3>2 DEF Consumed
        <4> QED BY <2>1, <2>3, <4>1 DEF None
      <3> QED BY <1>1, <3>1, <3>2
    <2>5. call[j].refreshed = call[j].presented + 1
      BY <1>1 DEF Consumed
    <2> QED BY <2>2, <2>3, <2>4, <2>5
  <1>2. IInv /\ Consumed /\ [Next]_vars =>
          [\A i, j \in Ids :
             /\ wire[i].status = "none" /\ wire'[i].status = "sent"
             /\ call[j].refreshed # None /\ (call[j].saved \/ restarts = 0)
             => call'[i].presented # call[j].presented]_vars
    BY <1>1
  <1>3. Init => Consumed
    BY DEF Init, Consumed, NoCall, NewCall
  <1> QED BY <1>2, <1>3, Invariance, NextConsumed, PTL DEF Spec, ConsumedNeverPresented

-----------------------------------------------------------------------------
(* What callers see never goes back. *)

\* Steps that make no pair valid again.
LEMMA OutdatedKept ==
  ASSUME WellFormed, WellFormed', clock <= clock',
         \A p \in Pairs :
           p < live' \/ (\E j \in Ids : call'[j].presented = p)
             => ~AccessValid(p) /\ created'[p] = created[p]
  PROVE  Outdated'
  <1> SUFFICES ASSUME NEW p \in Pairs, p < live' \/ (\E j \in Ids : call'[j].presented = p)
               PROVE  p \in Bare \/ ~(clock' + Leeway < created'[p] + AccessLife)
    BY DEF Outdated, AccessValid
  <1>1. /\ p \in Bare \/ ~(clock + Leeway < created[p] + AccessLife)
        /\ created'[p] = created[p]
    BY DEF AccessValid
  <1>2. clock \in Int /\ clock' \in Int /\ created[p] \in Int
    BY DEF WellFormed, TypeOK, Time
  <1> QED BY <1>1, <1>2, LivesAssumption

\* Steps that leave the endpoint, what was presented and the refresh alone.
LEMMA GrantedKept ==
  ASSUME IInv, GrantedIsNewest, UNCHANGED <<live, wire>>,
         \A j \in Ids : call'[j].presented = call[j].presented,
         \A c \in Callers : Refreshing(c)' =>
           Refreshing(c) /\ id'[c] = id[c] /\ tok' = tok
  PROVE  GrantedIsNewest'
  <1>1. \A c \in Callers : Refreshing(c) => id[c] \in Ids
    BY OneRefreshing DEF IInv
  <1> QED BY <1>1 DEF GrantedIsNewest

\* Steps that bring nothing back and let nobody wait for it.
LEMMA AwaitedKept ==
  ASSUME Awaited,
         \A c \in Callers, i \in Ids : Awaits(c, i)' => Awaits(c, i) /\ since'[c] = since[c],
         \A i \in Ids : call'[i].refreshed # None => call'[i].refreshed = call[i].refreshed
  PROVE  Awaited'
  BY DEF Awaited

\* A goroutine that returns has seen what it returns.
LEMMA SeenAfterReturn ==
  ASSUME IInv, SeenBounds, NEW c \in Callers, NEW kind, NEW pair, Return(c, kind, pair),
         kind = "token" => pair \in 0..MaxPairs /\ pair <= live, live' = live
  PROVE  SeenBounds'
  <1>1. seen \in Nat /\ live \in Nat /\ \A d \in Callers : since[d] \in Nat
    BY DEF IInv, WellFormed, TypeOK
  <1>2. seen <= seen' /\ seen' <= live
    BY <1>1 DEF SeenBounds, Return
  <1>3. seen' \in Nat
    BY <1>1 DEF Return
  <1> QED BY <1>1, <1>2, <1>3 DEF SeenBounds, Return

\* What came back for the refresh in flight is the endpoint's newest pair.
LEMMA NewestCameBack ==
  ASSUME IInv, Consumed, GrantedIsNewest, NEW c \in Callers, Refreshing(c),
         call[id[c]].refreshed # None
  PROVE  call[id[c]].refreshed = live
  <1>1. id[c] \in Ids /\ call[id[c]].refreshed = tok + 1
    BY RefreshState DEF Consumed
  <1> QED BY <1>1 DEF Consumed, GrantedIsNewest

\* Returning what a refresh brought back.
LEMMA OutcomeBounds ==
  ASSUME IInv, SeenBounds, NEW c \in Callers, NEW i \in Ids, Outcome(c, i), live' = live
  PROVE  SeenBounds'
  <1>1. call[i].refreshed \in 0..MaxPairs /\ call[i].refreshed <= live
    BY DEF IInv, WellFormed, TypeOK, Core, Rotation
  <1>2. CASE call[i].saved
    BY <1>1, <1>2, SeenAfterReturn DEF Outcome
  <1>3. CASE ~call[i].saved
    <2>1. Return(c, "errRefresh", None)
      BY <1>3 DEF Outcome
    <2> QED BY <2>1, SeenAfterReturn
  <1> QED BY <1>2, <1>3

\* Only the newest pair can be valid, in every step.
LEMMA NextFresh == IInv /\ Consumed /\ Fresh /\ [Next]_vars => Fresh'
  <1> SUFFICES ASSUME IInv, Consumed, Fresh, [Next]_vars PROVE Fresh'
    OBVIOUS
  <1> USE DEF Fresh
  <1>0. /\ WellFormed /\ WellFormed'
        /\ clock \in Nat /\ live \in Nat /\ tok \in Nat /\ store \in Nat /\ seen \in Nat
        /\ \A j \in Ids : call[j].presented \in Nat /\ call[j].refreshed \in Nat
        /\ \A d \in Callers : since[d] \in Nat
        /\ clock <= clock
    BY WellFormedNext DEF IInv, WellFormed, TypeOK, Time
  <1>1. ASSUME NEW c \in Callers, Begin(c) \/ StartLoad(c) \/ LoadFails(c) \/ LoadsNothing(c)
                                    \/ WaiterWakes(c) \/ WaiterCancelled(c) \/ CloseDone(c)
        PROVE  Fresh'
    <2>1. /\ UNCHANGED <<clock, tok, live, created, wire, joined>>
          /\ pc[c] \in {"idle", "locking", "loading", "waiting", "closing"}
          /\ \E to \in {"locking", "loading", "idle"} : pc' = [pc EXCEPT ![c] = to]
          /\ \A d \in Callers : d # c => id'[d] = id[d] /\ since'[d] = since[d]
      <3>1. /\ UNCHANGED <<clock, tok, live, created, wire, joined>>
            /\ pc[c] \in {"idle", "locking", "loading", "waiting", "closing"}
        BY <1>1
        DEF Begin, StartLoad, LoadFails, LoadsNothing, WaiterWakes, WaiterCancelled, CloseDone,
            Outcome, Return, source, server
      <3>2. \E to \in {"locking", "loading", "idle"} : pc' = [pc EXCEPT ![c] = to]
        BY <1>1
        DEF Begin, StartLoad, LoadFails, LoadsNothing, WaiterWakes, WaiterCancelled, CloseDone,
            Outcome, Return
      <3>3. \/ UNCHANGED <<id, since>>
            \/ id' = [id EXCEPT ![c] = started + 1] /\ since' = [since EXCEPT ![c] = seen]
        BY <1>1
        DEF Begin, StartLoad, LoadFails, LoadsNothing, WaiterWakes, WaiterCancelled, CloseDone,
            Outcome, Return, history
      <3>4. \A d \in Callers : d # c => id'[d] = id[d] /\ since'[d] = since[d]
        BY <3>3 DEF IInv, WellFormed, TypeOK
      <3> QED BY <3>1, <3>2, <3>4
    <2>2. \A j \in Ids : /\ call'[j].presented = call[j].presented
                         /\ call'[j].refreshed = call[j].refreshed
      BY <1>1
      DEF Begin, StartLoad, LoadFails, LoadsNothing, WaiterWakes, WaiterCancelled, CloseDone,
          Outcome, Return, IInv, WellFormed, TypeOK
    <2>3. /\ pc'[c] \in {"locking", "loading", "idle"}
          /\ \A d \in Callers : d # c => pc'[d] = pc[d]
      BY <2>1 DEF IInv, WellFormed, TypeOK
    <2>4. Outdated'
      BY <1>0, <2>1, <2>2, OutdatedKept DEF Outdated
    <2>5. GrantedIsNewest'
      BY <2>1, <2>2, <2>3, GrantedKept DEF Refreshing
    <2>6. Awaited'
      BY <2>1, <2>2, <2>3, AwaitedKept DEF Awaits, Refreshing
    <2>7. SeenBounds'
      <3>1. CASE Begin(c)
        <4>1. live' = live /\ seen' = seen /\ since' = [since EXCEPT ![c] = seen]
          BY <3>1 DEF Begin, server
        <4> QED BY <1>0, <4>1 DEF SeenBounds, IInv, WellFormed, TypeOK
      <3>2. CASE StartLoad(c)
        BY <3>2 DEF StartLoad, server, history, SeenBounds
      <3>3. CASE LoadFails(c) \/ LoadsNothing(c) \/ WaiterCancelled(c)
        <4>1. \E kind \in {"errLoad", "errNoToken", "errContext"} : Return(c, kind, None)
          BY <3>3 DEF LoadFails, LoadsNothing, WaiterCancelled
        <4> QED BY <2>1, <4>1, SeenAfterReturn
      <3>4. CASE WaiterWakes(c) \/ CloseDone(c)
        <4>1. \E i \in Ids : Outcome(c, i)
          BY <3>4, CallNumbers DEF WaiterWakes, CloseDone
        <4> QED BY <2>1, <4>1, OutcomeBounds
      <3> QED BY <1>1, <3>1, <3>2, <3>3, <3>4
    <2> QED BY <2>4, <2>5, <2>6, <2>7
  <1>2. ASSUME NEW c \in Callers, CheckCached(c) \/ Loads(c)
        PROVE  Fresh'
    <2>1. PICK p \in Pairs :
            /\ Decide(c, p) /\ tok' = p /\ p <= live
            /\ tok = p \/ (tok = None /\ inflight = None /\ store = p)
            /\ pc[c] \in {"locking", "loading"}
            /\ UNCHANGED <<clock, live, created>>
      BY <1>2, HeldPair
    <2>2. \A d \in Callers : Refreshing(d) => tok' = tok
      BY <2>1, RefreshState
    <2>3. CASE Lead(c, p)
      <3>1. /\ id[c] \in Ids
            /\ call'[id[c]].presented = p /\ call'[id[c]].refreshed = None /\ p # None
            /\ wire'[id[c]].status = "sent"
            /\ \A i \in Ids : i # id[c] => call'[i] = call[i] /\ wire'[i] = wire[i]
            /\ pc'[c] = "leading" /\ \A d \in Callers : d # c => pc'[d] = pc[d]
            /\ \A d \in Callers : ~Refreshing(d)
            /\ id' = id /\ joined' = joined /\ seen' = seen /\ since' = since
            /\ ~AccessValid(p)
        BY <2>1, <2>3, LeadEffect DEF history
      <3>2. Outdated'
        <4>1. \A q \in Pairs : (\E j \in Ids : call'[j].presented = q)
                => q = p \/ \E j \in Ids : call[j].presented = q
          BY <3>1
        <4> QED BY <1>0, <2>1, <3>1, <4>1, OutdatedKept DEF Outdated
      <3>3. GrantedIsNewest'
        <4>1. \A d \in Callers : Refreshing(d)' => d = c
          BY <3>1 DEF Refreshing
        <4>2. \A j \in Ids : call'[j].presented <= live'
          BY <2>1, <3>1 DEF GrantedIsNewest
        <4>3. \A j \in Ids : wire'[j].status = "sent" => call'[j].presented # None
          BY <3>1 DEF GrantedIsNewest
        <4> QED BY <3>1, <4>1, <4>2, <4>3 DEF GrantedIsNewest
      <3>4. Awaited'
        <4>1. ASSUME NEW d \in Callers, NEW i \in Ids, Awaits(d, i)', call'[i].refreshed # None
              PROVE  since'[d] <= call'[i].refreshed
          <5>1. i # id[c]
            BY <3>1, <4>1
          <5>2. d # c /\ Awaits(d, i)
            BY <3>1, <4>1, <5>1 DEF Awaits, Refreshing
          <5> QED BY <3>1, <4>1, <5>1, <5>2 DEF Awaited
        <4> QED BY <4>1 DEF Awaited
      <3>5. SeenBounds'
        BY <2>1, <3>1 DEF SeenBounds
      <3> QED BY <3>2, <3>3, <3>4, <3>5
    <2>4. CASE ~Lead(c, p)
      <3>1. /\ UNCHANGED <<inflight, id, call, wire>>
            /\ pc'[c] \in {"idle", "waiting"} /\ \A d \in Callers : d # c => pc'[d] = pc[d]
            /\ \A d \in Callers : Refreshing(d)' <=> Refreshing(d)
        BY <2>1, <2>4, OtherDecision
      <3>2. Outdated'
        BY <1>0, <2>1, <3>1, OutdatedKept DEF Outdated
      <3>3. GrantedIsNewest'
        BY <2>1, <2>2, <3>1, GrantedKept
      <3>4. CASE Join(c, p)
        <4>1. /\ inflight # None /\ joined' = [joined EXCEPT ![c] = inflight]
              /\ seen' = seen /\ since' = since
          BY <3>4 DEF Join, history
        <4>2. PICK d \in Callers : Refreshing(d) /\ id[d] = inflight
          BY <4>1 DEF IInv, Core, InflightIsLeader
        <4>3. call[inflight].refreshed # None => call[inflight].refreshed = live
          BY <4>2, NewestCameBack
        <4>4. joined'[c] = inflight /\ \A e \in Callers : e # c => joined'[e] = joined[e]
          BY <4>1 DEF IInv, WellFormed, TypeOK
        <4>5. ASSUME NEW e \in Callers, NEW i \in Ids, Awaits(e, i)', call'[i].refreshed # None
              PROVE  since'[e] <= call'[i].refreshed
          <5>1. CASE e = c
            <6>1. i = inflight
              BY <2>1, <3>1, <4>4, <4>5, <5>1 DEF Awaits, Refreshing
            <6>2. since[c] <= live
              BY <1>0 DEF SeenBounds
            <6> QED BY <3>1, <4>1, <4>3, <4>5, <5>1, <6>1, <6>2
          <5>2. CASE e # c
            <6>1. Awaits(e, i)
              BY <3>1, <4>4, <4>5, <5>2 DEF Awaits, Refreshing
            <6> QED BY <3>1, <4>1, <4>5, <6>1 DEF Awaited
          <5> QED BY <5>1, <5>2
        <4>6. SeenBounds'
          BY <2>1, <4>1 DEF SeenBounds
        <4> QED BY <3>2, <3>3, <4>5, <4>6 DEF Awaited
      <3>5. CASE ~Join(c, p)
        <4>1. joined' = joined /\ pc'[c] = "idle" /\ since' = since
          BY <2>1, <2>4, <3>5 DEF Decide, ReturnCached, ReturnExpired, Return, IInv, WellFormed, TypeOK
        <4>2. Awaited'
          BY <3>1, <4>1, AwaitedKept DEF Awaits, Refreshing
        <4>3. Return(c, "token", p) \/ Return(c, "errRefreshExpired", None)
          BY <2>1, <2>4, <3>5 DEF Decide, ReturnCached, ReturnExpired
        <4>4. SeenBounds'
          <5>1. p \in 0..MaxPairs /\ "errRefreshExpired" # "token"
            BY DEF Pairs
          <5> QED BY <2>1, <4>3, <5>1, SeenAfterReturn
        <4> QED BY <3>2, <3>3, <4>2, <4>4
      <3> QED BY <3>4, <3>5
    <2> QED BY <2>3, <2>4
  <1>3. ASSUME NEW c \in Callers, RefreshSucceeds(c)
        PROVE  Fresh'
    <2>1. /\ Refreshing(c) /\ pc[c] = "leading" /\ wire[id[c]].status = "granted"
          /\ call' = [call EXCEPT ![id[c]].refreshed = wire[id[c]].pair]
          /\ \E at : created' = [created EXCEPT ![wire[id[c]].pair] = at]
          /\ pc' = [pc EXCEPT ![c] = "saving"]
          /\ UNCHANGED <<clock, tok, id, joined, live, wire, seen, since>>
      BY <1>3 DEF RefreshSucceeds, Refreshing, source, history
    <2>2. /\ id[c] \in Ids /\ wire[id[c]].pair = tok + 1
          /\ \A d \in Callers : Refreshing(d) => d = c
      BY <2>1, RefreshState
    <2>3. live = tok + 1 /\ \A j \in Ids : call[j].presented <= tok
      BY <2>1 DEF GrantedIsNewest
    <2>4. /\ call'[id[c]].refreshed = live
          /\ \A j \in Ids : call'[j].presented = call[j].presented
          /\ \A j \in Ids : j # id[c] => call'[j] = call[j]
      BY <2>1, <2>2, <2>3 DEF IInv, WellFormed, TypeOK
    <2>5. pc'[c] = "saving" /\ \A d \in Callers : d # c => pc'[d] = pc[d]
      BY <2>1 DEF IInv, WellFormed, TypeOK
    <2>6. Outdated'
      <3>1. \A q \in Pairs : q # live => created'[q] = created[q]
        BY <2>1, <2>2, <2>3 DEF IInv, WellFormed, TypeOK
      <3>2. \A q \in Pairs : q < live' \/ (\E j \in Ids : call'[j].presented = q)
              => q # live /\ (q < live \/ (\E j \in Ids : call[j].presented = q))
        BY <1>0, <2>1, <2>3, <2>4
      <3> QED BY <1>0, <2>1, <3>1, <3>2, OutdatedKept DEF Outdated
    <2>7. GrantedIsNewest'
      BY <2>1, <2>4, <2>5, GrantedKept DEF Refreshing
    <2>8. SeenBounds'
      BY <2>1 DEF SeenBounds
    <2>9. Awaited'
      <3>1. ASSUME NEW d \in Callers, NEW i \in Ids, Awaits(d, i)', call'[i].refreshed # None
            PROVE  since'[d] <= call'[i].refreshed
        <4>1. CASE i = id[c]
          <5>1. since[d] <= live
            BY <1>0 DEF SeenBounds
          <5> QED BY <2>1, <2>4, <4>1, <5>1
        <4>2. CASE i # id[c]
          <5>1. Awaits(d, i)
            BY <2>1, <2>5, <3>1 DEF Awaits, Refreshing
          <5> QED BY <2>1, <2>4, <3>1, <4>2, <5>1 DEF Awaited
        <4> QED BY <4>1, <4>2
      <3> QED BY <3>1 DEF Awaited
    <2> QED BY <2>6, <2>7, <2>8, <2>9
  <1>4. ASSUME NEW c \in Callers, RefreshFails(c) \/ Save(c) \/ SaveFails(c) \/ Settle(c)
        PROVE  Fresh'
    <2>1. /\ Refreshing(c)
          /\ tok' = tok \/ pc[c] = "settling"
          /\ \/ pc[c] # "settling" /\ pc' = [pc EXCEPT ![c] = "settling"]
             \/ pc[c] = "settling" /\ pc' = [pc EXCEPT ![c] = "closing"]
          /\ UNCHANGED <<clock, id, joined, created, live, wire, seen, since>>
      BY <1>4 DEF RefreshFails, Save, SaveFails, Settle, Refreshing, source, server, history
    <2>2. \A j \in Ids : /\ call'[j].presented = call[j].presented
                         /\ call'[j].refreshed = call[j].refreshed
      BY <1>4 DEF RefreshFails, Save, SaveFails, Settle, IInv, WellFormed, TypeOK
    <2>3. /\ \A d \in Callers : d # c => pc'[d] = pc[d]
          /\ pc[c] # "settling" => pc'[c] = "settling"
          /\ pc[c] = "settling" => pc'[c] = "closing"
      BY <2>1 DEF IInv, WellFormed, TypeOK
    <2>4. \A d \in Callers : Refreshing(d) => d = c
      BY <2>1, RefreshState
    <2>5. Outdated'
      BY <1>0, <2>1, <2>2, OutdatedKept DEF Outdated
    <2>6. GrantedIsNewest'
      <3>1. \A d \in Callers : Refreshing(d)' => Refreshing(d) /\ id'[d] = id[d] /\ tok' = tok
        BY <2>1, <2>3, <2>4 DEF Refreshing
      <3> QED BY <2>1, <2>2, <3>1, GrantedKept
    <2>7. Awaited'
      BY <2>1, <2>2, <2>3, AwaitedKept DEF Awaits, Refreshing
    <2>8. SeenBounds'
      BY <2>1 DEF SeenBounds
    <2> QED BY <2>5, <2>6, <2>7, <2>8
  <1>5. ASSUME NEW i \in Ids, Grant(i)
        PROVE  Fresh'
    <2>1. /\ UNCHANGED <<clock, tok, pc, id, joined, call, seen, since>>
          /\ wire[i].status = "sent" /\ call[i].presented = live /\ live' = live + 1
          /\ created' = [created EXCEPT ![live + 1] = clock]
          /\ wire' = [wire EXCEPT ![i] = [status |-> "granted", pair |-> live + 1]]
      BY <1>5 DEF Grant, source, locals, history
    <2>2. /\ wire'[i].status = "granted"
          /\ \A j \in Ids : j # i => wire'[j] = wire[j]
      BY <2>1 DEF IInv, WellFormed, TypeOK
    <2>3. Outdated'
      <3>1. \A q \in Pairs : q <= live => created'[q] = created[q]
        BY <1>0, <2>1 DEF IInv, WellFormed, TypeOK
      <3>2. \A q \in Pairs : q < live' \/ (\E j \in Ids : call'[j].presented = q)
              => q <= live /\ (q < live \/ (\E j \in Ids : call[j].presented = q))
        BY <1>0, <2>1 DEF GrantedIsNewest, Pairs
      <3> QED BY <1>0, <2>1, <3>1, <3>2, OutdatedKept DEF Outdated
    <2>4. GrantedIsNewest'
      <3>1. \A j \in Ids : call'[j].presented <= live'
        BY <1>0, <2>1 DEF GrantedIsNewest
      <3>2. \A j \in Ids : wire'[j].status = "sent" => call'[j].presented # None
        BY <2>1, <2>2 DEF GrantedIsNewest
      <3>3. ASSUME NEW d \in Callers, Refreshing(d), wire'[id[d]].status = "granted"
            PROVE  live' = tok + 1 /\ \A j \in Ids : call[j].presented <= tok
        <4>1. id[d] \in Ids /\ call[id[d]].presented = tok
          BY <3>3, RefreshState
        <4>2. CASE id[d] = i
          BY <2>1, <4>1, <4>2 DEF GrantedIsNewest
        <4>3. CASE id[d] # i
          <5>1. live = tok + 1 /\ call[i].presented <= tok
            BY <2>2, <3>3, <4>1, <4>3 DEF GrantedIsNewest
          <5> QED BY <1>0, <2>1, <5>1
        <4> QED BY <4>2, <4>3
      <3> QED BY <2>1, <3>1, <3>2, <3>3 DEF GrantedIsNewest, Refreshing
    <2>5. Awaited'
      BY <2>1 DEF Awaited, Awaits, Refreshing
    <2>6. SeenBounds'
      BY <1>0, <2>1 DEF SeenBounds
    <2> QED BY <2>3, <2>4, <2>5, <2>6
  <1>6. CASE Authorize
    <2>1. /\ UNCHANGED <<clock, tok, pc, id, joined, call, wire, seen, since>>
          /\ live = None /\ live' = 1
      BY <1>6 DEF Authorize, source, locals, history
    <2>2. \A d \in Callers : ~Refreshing(d)
      <3>1. tok = None
        BY <1>0, <2>1 DEF IInv, Core, Rotation, None
      <3> QED BY <3>1, RefreshState
    <2>3. \A j \in Ids : call[j].presented = None
      BY <1>0, <2>1 DEF GrantedIsNewest, None
    <2>4. Outdated'
      BY <1>0, <2>1, <2>3 DEF Outdated, Pairs, None
    <2>5. GrantedIsNewest'
      BY <2>1, <2>2, <2>3 DEF GrantedIsNewest, Refreshing, None
    <2>6. Awaited' /\ SeenBounds'
      BY <1>0, <2>1 DEF Awaited, Awaits, Refreshing, SeenBounds, None
    <2> QED BY <2>4, <2>5, <2>6
  <1>7. CASE Tick \/ UNCHANGED vars
    <2>1. /\ UNCHANGED <<tok, pc, id, joined, call, live, created, wire, seen, since>>
          /\ clock <= clock'
      BY <1>0, <1>7 DEF Tick, vars, source, locals, server, history
    <2>2. Outdated'
      BY <1>0, <2>1, OutdatedKept DEF Outdated
    <2>3. GrantedIsNewest' /\ Awaited' /\ SeenBounds'
      BY <2>1 DEF GrantedIsNewest, Awaited, Awaits, Refreshing, SeenBounds
    <2> QED BY <2>2, <2>3
  <1>8. CASE Restart
    <2>1. /\ UNCHANGED <<clock, call, live, created, wire, seen, since>>
          /\ pc' = [c \in Callers |-> "idle"]
      BY <1>8 DEF Restart, server, history
    <2>2. \A c \in Callers : pc'[c] = "idle"
      BY <2>1
    <2>3. Outdated'
      BY <1>0, <2>1, OutdatedKept DEF Outdated
    <2>4. GrantedIsNewest' /\ Awaited' /\ SeenBounds'
      BY <2>1, <2>2 DEF GrantedIsNewest, Awaited, Awaits, Refreshing, SeenBounds
    <2> QED BY <2>3, <2>4
  <1> QED BY <1>1, <1>2, <1>3, <1>4, <1>5, <1>6, <1>7, <1>8 DEF Next, LockSteps, LeaderSteps

\* A goroutine that returns a pair returns one no older than what had been seen
\* when it called valid(): the store that was left behind by a failed save holds
\* a pair that lapsed before its successor was asked for.
THEOREM TokensNeverGoBack == Spec => MonotonicReads
  <1>1. ASSUME IInv, Fresh, [Next]_vars, NEW c \in Callers,
               pc[c] # "idle", pc'[c] = "idle", ret'[c].kind = "token"
        PROVE  ret'[c].pair >= since[c]
    <2> USE DEF Fresh
    <2>0. /\ live \in Nat /\ seen \in Nat /\ \A d \in Callers : since[d] \in Nat
          /\ \A d \in Callers : pc[d] # "idle" => id[d] \in Ids
          /\ \A d \in Callers : pc[d] = "waiting" => joined[d] \in Ids
      <3>1. live \in Nat /\ seen \in Nat /\ \A d \in Callers : since[d] \in Nat
        BY <1>1 DEF IInv, WellFormed, TypeOK
      <3>2. /\ \A d \in Callers : pc[d] # "idle" => id[d] \in Ids
            /\ \A d \in Callers : pc[d] = "waiting" => joined[d] \in Ids
        BY <1>1, CallNumbers
      <3> QED BY <3>1, <3>2
    <2>1. CASE CheckCached(c) \/ Loads(c)
      <3>1. PICK p \in Pairs : /\ Decide(c, p)
                               /\ UNCHANGED <<clock, live, created>>
        BY <1>1, <2>1, HeldPair
      <3>2. ReturnCached(c, p)
        BY <1>1, <3>1
        DEF Decide, ReturnExpired, Join, Lead, Return, IInv, WellFormed, TypeOK
      <3>3. ret'[c].pair = p /\ AccessValid(p)
        BY <1>1, <3>2 DEF ReturnCached, Return, IInv, WellFormed, TypeOK
      <3>4. p >= live
        BY <1>1, <2>0, <3>3 DEF Outdated, Pairs
      <3> QED BY <1>1, <2>0, <3>3, <3>4 DEF SeenBounds, Pairs
    <2>2. CASE CloseDone(c) \/ WaiterWakes(c)
      <3>1. PICK i \in Ids : Awaits(c, i) /\ Outcome(c, i)
        BY <2>0, <2>2 DEF CloseDone, WaiterWakes, Awaits
      <3>2. call[i].saved /\ ret'[c].pair = call[i].refreshed
        BY <1>1, <3>1 DEF Outcome, Return, IInv, WellFormed, TypeOK
      <3>3. call[i].refreshed # None /\ call[i].refreshed \in Nat
        BY <1>1, <3>2 DEF IInv, WellFormed, RealPairs, TypeOK
      <3> QED BY <1>1, <2>0, <3>1, <3>2, <3>3 DEF Awaited
    <2>3. CASE LoadFails(c) \/ LoadsNothing(c) \/ WaiterCancelled(c)
      BY <1>1, <2>3 DEF LoadFails, LoadsNothing, WaiterCancelled, Return, IInv, WellFormed, TypeOK
    <2>4. ASSUME NEW d \in Callers,
                 \/ Begin(d) \/ StartLoad(d)
                 \/ RefreshSucceeds(d) \/ RefreshFails(d) \/ Save(d) \/ SaveFails(d) \/ Settle(d)
          PROVE  pc'[c] # "idle"
      BY <1>1, <2>4
      DEF Begin, StartLoad, RefreshSucceeds, RefreshFails, Save, SaveFails, Settle,
          IInv, WellFormed, TypeOK
    <2>5. ASSUME NEW d \in Callers, d # c,
                 \/ CheckCached(d) \/ Loads(d) \/ LoadFails(d) \/ LoadsNothing(d)
                 \/ CloseDone(d) \/ WaiterWakes(d) \/ WaiterCancelled(d)
          PROVE  pc'[c] = pc[c]
      BY <1>1, <2>5
      DEF CheckCached, Loads, Decide, ReturnCached, ReturnExpired, Join, Lead, LoadFails,
          LoadsNothing, CloseDone, WaiterWakes, WaiterCancelled, Outcome, Return,
          IInv, WellFormed, TypeOK
    <2>6. (\E i \in Ids : Grant(i)) \/ Authorize \/ Tick \/ UNCHANGED vars => pc'[c] = pc[c]
      BY DEF Grant, Authorize, Tick, vars, locals
    <2>7. Restart => ret'[c].kind # "token"
      BY DEF Restart, NoReturn
    <2> QED BY <1>1, <2>1, <2>2, <2>3, <2>4, <2>5, <2>6, <2>7 DEF Next, LockSteps, LeaderSteps
  <1>2. IInv /\ Fresh /\ [Next]_vars =>
          [\A c \in Callers :
             pc[c] # "idle" /\ pc'[c] = "idle" /\ ret'[c].kind = "token"
               => ret'[c].pair >= since[c]]_vars
    BY <1>1
  <1>3. Init => Consumed /\ Fresh
    <2>1. Init => Consumed /\ GrantedIsNewest /\ SeenBounds /\ Awaited
      BY DEF Init, Consumed, GrantedIsNewest, SeenBounds, Awaited, Awaits, Refreshing, NoCall,
             NewCall, NoRequest, None
    <2>2. Init => Outdated
      BY DEF Init, Outdated, NoCall, NewCall, Pairs, None
    <2> QED BY <2>1, <2>2 DEF Fresh
  <1> QED BY <1>2, <1>3, Invariance, NextConsumed, NextFresh, PTL DEF Spec, MonotonicReads

-----------------------------------------------------------------------------
(* Nobody waits in vain. *)

\* One goroutine moves: the refreshes it drove are done or still its own, and
\* if it begins to wait there is something to wait for.
LEMMA WaitersKept ==
  ASSUME NobodyAbandoned, IInv, NEW e \in Callers,
         \A d \in Callers \ {e} : pc'[d] = pc[d] /\ id'[d] = id[d] /\ joined'[d] = joined[d],
         \A i \in Ids : call[i].done => call'[i].done \/ Drives(e, i)',
         \A i \in Ids : Drives(e, i) => call'[i].done \/ Drives(e, i)',
         pc'[e] = "waiting" =>
           \/ pc[e] = "waiting" /\ joined'[e] = joined[e]
           \/ \E d \in Callers \ {e} : Drives(d, joined'[e])
  PROVE  \A c \in Callers : pc'[c] = "waiting" =>
           call'[joined'[c]].done \/ \E d \in Callers : Drives(d, joined[c])'
  <1> SUFFICES ASSUME NEW c \in Callers, pc'[c] = "waiting", ~call'[joined'[c]].done
               PROVE  \E d \in Callers : Drives(d, joined[c])'
    OBVIOUS
  <1>1. ASSUME NEW d \in Callers, d # e, NEW i, Drives(d, i)
        PROVE  Drives(d, i)'
    BY <1>1 DEF Drives, Refreshing
  <1>2. CASE pc[c] = "waiting" /\ joined'[c] = joined[c]
    <2>1. joined[c] \in Ids
      BY <1>2, CallNumbers
    <2>2. CASE call[joined[c]].done
      BY <1>2, <2>1, <2>2
    <2>3. CASE \E d \in Callers : Drives(d, joined[c])
      <3>1. PICK d \in Callers : Drives(d, joined[c])
        BY <2>3
      <3>2. CASE d = e
        BY <1>2, <2>1, <3>1, <3>2
      <3>3. CASE d # e
        BY <1>1, <1>2, <3>1, <3>3
      <3> QED BY <3>2, <3>3
    <2> QED BY <1>2, <2>2, <2>3 DEF NobodyAbandoned
  <1>3. CASE ~(pc[c] = "waiting" /\ joined'[c] = joined[c])
    <2>1. c = e
      BY <1>3
    <2>2. PICK d \in Callers \ {e} : Drives(d, joined'[e])
      BY <1>3, <2>1
    <2> QED BY <1>1, <2>1, <2>2
  <1> QED BY <1>2, <1>3

\* Steps by which a goroutine takes the lock, leaves valid() or moves on to the
\* closing of its refresh leave every other goroutine alone.
LEMMA OneMoves ==
  ASSUME IInv, NEW e \in Callers, NEW to, pc' = [pc EXCEPT ![e] = to],
         \/ id' = id \/ id' = [id EXCEPT ![e] = started + 1],
         \/ joined' = joined \/ joined' = [joined EXCEPT ![e] = inflight]
  PROVE  /\ pc'[e] = to
         /\ \A d \in Callers \ {e} : pc'[d] = pc[d] /\ id'[d] = id[d] /\ joined'[d] = joined[d]
  <1>1. /\ pc \in [Callers -> Points] /\ id \in [Callers -> 0..MaxCalls]
        /\ joined \in [Callers -> 0..MaxCalls]
    BY DEF IInv, WellFormed, TypeOK
  <1> QED BY <1>1

\* Whoever waits is woken, in every step: the second half says that the lock
\* is held by a goroutine with a step of its own.
LEMMA NextNobodyAbandoned == IInv /\ NobodyAbandoned /\ [Next]_vars => NobodyAbandoned'
  <1> SUFFICES ASSUME IInv, NobodyAbandoned, [Next]_vars PROVE NobodyAbandoned'
    OBVIOUS
  <1> DEFINE Waiters == \A c \in Callers : pc[c] = "waiting" =>
                call[joined[c]].done \/ \E d \in Callers : Drives(d, joined[c])
  <1> DEFINE Lock == mu # "nobody" => pc[mu] = "loading"
  <1>0. /\ Waiters /\ Lock /\ mu \in Callers \cup {"nobody"}
        /\ Waiters' /\ Lock' => NobodyAbandoned'
    BY DEF NobodyAbandoned, IInv, WellFormed, TypeOK
  <1>1. ASSUME NEW c \in Callers, Begin(c)
        PROVE  Waiters' /\ Lock'
    <2>1. /\ UNCHANGED <<mu, call, joined>> /\ pc[c] = "idle"
          /\ pc' = [pc EXCEPT ![c] = "locking"] /\ id' = [id EXCEPT ![c] = started + 1]
      BY <1>1 DEF Begin, source
    <2>2. /\ pc'[c] = "locking"
          /\ \A d \in Callers \ {c} : pc'[d] = pc[d] /\ id'[d] = id[d] /\ joined'[d] = joined[d]
      BY <2>1, OneMoves
    <2>3. Waiters'
      BY <2>1, <2>2, WaitersKept DEF Drives, Refreshing
    <2>4. Lock'
      BY <1>0, <2>1, <2>2
    <2> QED BY <2>3, <2>4
  <1>2. ASSUME NEW c \in Callers, StartLoad(c)
        PROVE  Waiters' /\ Lock'
    <2>1. /\ UNCHANGED <<call, joined, id>> /\ pc[c] = "locking"
          /\ pc' = [pc EXCEPT ![c] = "loading"] /\ mu' = c
      BY <1>2 DEF StartLoad
    <2>2. /\ pc'[c] = "loading"
          /\ \A d \in Callers \ {c} : pc'[d] = pc[d] /\ id'[d] = id[d] /\ joined'[d] = joined[d]
      BY <2>1, OneMoves
    <2>3. Waiters'
      BY <2>1, <2>2, WaitersKept DEF Drives, Refreshing
    <2> QED BY <2>1, <2>2, <2>3
  <1>3. ASSUME NEW c \in Callers, LoadFails(c) \/ LoadsNothing(c)
        PROVE  Waiters' /\ Lock'
    <2>1. /\ UNCHANGED <<call, joined, id>> /\ pc[c] = "loading"
          /\ pc' = [pc EXCEPT ![c] = "idle"] /\ mu' = "nobody"
      BY <1>3 DEF LoadFails, LoadsNothing, Return
    <2>2. /\ pc'[c] = "idle"
          /\ \A d \in Callers \ {c} : pc'[d] = pc[d] /\ id'[d] = id[d] /\ joined'[d] = joined[d]
      BY <2>1, OneMoves
    <2>3. Waiters'
      BY <2>1, <2>2, WaitersKept DEF Drives, Refreshing
    <2> QED BY <2>1, <2>3
  <1>4. ASSUME NEW c \in Callers, CheckCached(c) \/ Loads(c)
        PROVE  Waiters' /\ Lock'
    <2>1. mu' = "nobody"
      BY <1>4 DEF CheckCached, Loads
    <2>2. PICK p \in Pairs : Decide(c, p) /\ pc[c] \in {"locking", "loading"}
      BY <1>4, HeldPair
    <2>3. CASE Lead(c, p)
      <3>1. /\ id[c] \in Ids /\ id' = id /\ joined' = joined
            /\ \A i \in Ids : i # id[c] => call'[i] = call[i]
            /\ pc'[c] = "leading" /\ \A d \in Callers : d # c => pc'[d] = pc[d]
        BY <2>2, <2>3, LeadEffect
      <3>2. \A i \in Ids : i # id[c] => call'[i] = call[i]
        BY <3>1
      <3>3. Drives(c, id[c])'
        BY <3>1 DEF Drives, Refreshing
      <3>4. \A i \in Ids : ~Drives(c, i)
        BY <2>2 DEF Drives, Refreshing
      <3>5. Waiters'
        BY <3>1, <3>2, <3>3, <3>4, WaitersKept
      <3> QED BY <2>1, <3>5
    <2>4. CASE ~Lead(c, p)
      <3>1. UNCHANGED <<id, call>> /\ pc'[c] \in {"idle", "waiting"}
            /\ \A d \in Callers : d # c => pc'[d] = pc[d]
        BY <2>2, <2>4, OtherDecision
      <3>2. \A i \in Ids : ~Drives(c, i)
        BY <2>2 DEF Drives, Refreshing
      <3>3. CASE Join(c, p)
        <4>1. inflight # None /\ joined' = [joined EXCEPT ![c] = inflight]
          BY <3>3 DEF Join
        <4>2. PICK d \in Callers : Refreshing(d) /\ id[d] = inflight
          BY <4>1 DEF IInv, Core, InflightIsLeader
        <4>3. joined'[c] = inflight /\ \A e \in Callers \ {c} : joined'[e] = joined[e]
          BY <4>1 DEF IInv, WellFormed, TypeOK
        <4>4. d \in Callers \ {c} /\ Drives(d, joined'[c])
          BY <2>2, <4>2, <4>3 DEF Drives, Refreshing
        <4>5. Waiters'
          BY <3>1, <3>2, <4>3, <4>4, WaitersKept
        <4> QED BY <2>1, <4>5
      <3>4. CASE ~Join(c, p)
        <4>1. joined' = joined /\ pc'[c] = "idle"
          BY <2>2, <2>4, <3>4 DEF Decide, ReturnCached, ReturnExpired, Return, IInv, WellFormed, TypeOK
        <4>2. Waiters'
          BY <3>1, <3>2, <4>1, WaitersKept
        <4> QED BY <2>1, <4>2
      <3> QED BY <3>3, <3>4
    <2> QED BY <2>3, <2>4
  <1>5. ASSUME NEW c \in Callers,
               RefreshSucceeds(c) \/ RefreshFails(c) \/ Save(c) \/ SaveFails(c) \/ Settle(c)
        PROVE  Waiters' /\ Lock'
    <2>1. /\ UNCHANGED <<mu, id, joined>> /\ Refreshing(c)
          /\ \E to \in {"saving", "settling", "closing"} : pc' = [pc EXCEPT ![c] = to]
      BY <1>5 DEF RefreshSucceeds, RefreshFails, Save, SaveFails, Settle, Refreshing, source
    <2>2. \A i \in Ids : call'[i].done = call[i].done
      BY <1>5 DEF RefreshSucceeds, RefreshFails, Save, SaveFails, Settle, IInv, WellFormed, TypeOK
    <2>3. /\ pc'[c] \in {"saving", "settling", "closing"}
          /\ \A d \in Callers \ {c} : pc'[d] = pc[d] /\ id'[d] = id[d] /\ joined'[d] = joined[d]
      BY <2>1, OneMoves
    <2>4. \A i \in Ids : Drives(c, i) => Drives(c, i)'
      BY <2>1, <2>3 DEF Drives, Refreshing
    <2>5. Waiters'
      BY <2>2, <2>3, <2>4, WaitersKept
    <2>6. Lock'
      BY <1>0, <2>1, <2>3 DEF Refreshing
    <2> QED BY <2>5, <2>6
  <1>6. ASSUME NEW c \in Callers, CloseDone(c)
        PROVE  Waiters' /\ Lock'
    <2>1. /\ UNCHANGED <<mu, id, joined>> /\ pc[c] = "closing"
          /\ pc' = [pc EXCEPT ![c] = "idle"]
          /\ call' = [call EXCEPT ![id[c]].done = TRUE]
      BY <1>6 DEF CloseDone, Outcome, Return, source
    <2>2. id[c] \in Ids
      BY <2>1, CallNumbers
    <2>3. call'[id[c]].done /\ \A i \in Ids : i # id[c] => call'[i] = call[i]
      BY <2>1, <2>2 DEF IInv, WellFormed, TypeOK
    <2>4. /\ pc'[c] = "idle"
          /\ \A d \in Callers \ {c} : pc'[d] = pc[d] /\ id'[d] = id[d] /\ joined'[d] = joined[d]
      BY <2>1, OneMoves
    <2>5. \A i \in Ids : Drives(c, i) => call'[i].done
      BY <2>3 DEF Drives
    <2>6. \A i \in Ids : call[i].done => call'[i].done
      BY <2>3
    <2>7. Waiters'
      BY <2>4, <2>5, <2>6, WaitersKept
    <2>8. Lock'
      BY <1>0, <2>1, <2>4
    <2> QED BY <2>7, <2>8
  <1>7. ASSUME NEW c \in Callers, WaiterWakes(c) \/ WaiterCancelled(c)
        PROVE  Waiters' /\ Lock'
    <2>1. /\ UNCHANGED <<mu, id, joined, call>> /\ pc[c] = "waiting"
          /\ pc' = [pc EXCEPT ![c] = "idle"]
      BY <1>7 DEF WaiterWakes, WaiterCancelled, Outcome, Return, source
    <2>2. /\ pc'[c] = "idle"
          /\ \A d \in Callers \ {c} : pc'[d] = pc[d] /\ id'[d] = id[d] /\ joined'[d] = joined[d]
      BY <2>1, OneMoves
    <2>3. Waiters'
      BY <2>1, <2>2, WaitersKept DEF Drives, Refreshing
    <2>4. Lock'
      BY <1>0, <2>1, <2>2
    <2> QED BY <2>3, <2>4
  <1>8. CASE (\E i \in Ids : Grant(i)) \/ Authorize \/ Tick \/ UNCHANGED vars
    <2>1. UNCHANGED <<mu, pc, id, joined, call>>
      BY <1>8 DEF Grant, Authorize, Tick, vars, source, locals
    <2> QED BY <1>0, <2>1 DEF Drives, Refreshing
  <1>9. CASE Restart
    <2>1. mu' = "nobody" /\ \A c \in Callers : pc'[c] = "idle"
      BY <1>9 DEF Restart
    <2>2. Lock'
      BY <2>1
    <2>3. Waiters'
      BY <2>1
    <2> QED BY <1>0, <2>2, <2>3
  <1> HIDE DEF Waiters, Lock
  <1> QED
    BY <1>0, <1>1, <1>2, <1>3, <1>4, <1>5, <1>6, <1>7, <1>8, <1>9 DEF Next, LockSteps, LeaderSteps

\* The code closes done on every path out of a refresh: whoever waits finds it
\* closed, or its leader still on the way, for any number of goroutines.
THEOREM NobodyWaitsInVain == Spec => []NobodyAbandoned
  <1>1. Init => NobodyAbandoned
    BY DEF Init, NobodyAbandoned
  <1> QED BY <1>1, Invariance, NextNobodyAbandoned, PTL DEF Spec

=============================================================================
