----------------------------- MODULE TokenSource -----------------------------
(***************************************************************************)
(* connect.tokenSource: the cache of one user's OAuth token pair, shared   *)
(* by every goroutine that calls Client.Token or sends a request.  Its     *)
(* method valid() returns a usable token; callers that find the access     *)
(* token lapsing collapse into one refresh whose outcome they all share.   *)
(*                                                                         *)
(* A token pair is its generation: pair g+1 is what the token endpoint     *)
(* issues for the refresh token of pair g, and None is "no token".  The    *)
(* calls of valid() are numbered, and a refreshCall has the number of the  *)
(* call of valid() that leads it.  The mutex is explicit only where it is  *)
(* held across I/O (the store's Load); the other critical sections are one *)
(* action each.  The token endpoint, the store and the network are         *)
(* external and may fail at any point.                                     *)
(***************************************************************************)
EXTENDS Integers

CONSTANTS
  Callers,      \* goroutines that call valid()
  MaxCalls,     \* bound: calls of valid() in a behaviour
  MaxPairs,     \* bound: token pairs the endpoint issues
  MaxTime,      \* bound: last reading of the clock
  MaxRestarts,  \* bound: restarts of the process
  AccessLife,   \* Token.AccessExpiresIn
  RefreshLife,  \* Token.RefreshExpiresIn
  Leeway,       \* refreshLeeway
  Bare          \* the pairs that come without an access token

ASSUME BoundsAssumption ==
  /\ MaxCalls \in Nat /\ MaxPairs \in Nat \ {0}
  /\ MaxTime \in Nat /\ MaxRestarts \in Nat

ASSUME LivesAssumption == AccessLife \in Nat /\ RefreshLife \in Nat /\ Leeway \in Nat

ASSUME CallersAssumption == "nobody" \notin Callers

VARIABLES
  clock,     \* tokenSource.now()
  mu,        \* the goroutine that holds tokenSource.mu across Load, or "nobody"
  tok,       \* tokenSource.tok
  inflight,  \* tokenSource.inflight: the number of the call, or None
  store,     \* the pair in the TokenStore
  started,   \* calls of valid() begun so far
  restarts,  \* restarts so far
  pc,        \* where each goroutine is in valid()
  id,        \* the number of the call each goroutine is in
  joined,    \* the refreshCall a waiter waits on
  call,      \* the refreshCalls, with the leader's locals refreshed and err
  ret,       \* what each goroutine's last call of valid() returned
  live,      \* endpoint: the newest pair it issued, the only refreshable one
  created,   \* Token.CreatedAt of each pair
  wire,      \* endpoint: the refresh request of each call, and its answer
  seen,      \* history: newest pair a call of valid() has returned
  since      \* history: seen, when each goroutine's call began

source  == <<mu, tok, inflight>>
locals  == <<pc, id, joined, call, ret>>
server  == <<live, created, wire>>
history == <<seen, since>>
vars == <<clock, source, store, started, restarts, locals, server, history>>

None  == 0
Pairs == 1..MaxPairs
Ids   == 1..MaxCalls
Time  == 0..MaxTime

\* A new refreshCall that presents the refresh token of pair p.
NewCall(p) == [presented |-> p, refreshed |-> None, saved |-> FALSE, done |-> FALSE]
NoCall == NewCall(None)
NoRequest == [status |-> "none", pair |-> None]
NoReturn == [kind |-> "nothing", pair |-> None]

Failures == {"nothing", "errNoToken", "errLoad", "errRefreshExpired", "errRefresh",
             "errContext"}
Points  == {"idle", "locking", "loading", "leading", "saving", "settling",
            "closing", "waiting"}

(***************************************************************************)
(* Token.accessValid and Token.RefreshExpiry.                              *)
(***************************************************************************)
AccessValid(p) == p \notin Bare /\ clock + Leeway < created[p] + AccessLife
RefreshLapsed(p) == clock >= created[p] + RefreshLife

-----------------------------------------------------------------------------
(* Steps of a goroutine in valid(). *)

Return(c, kind, pair) ==
  /\ pc' = [pc EXCEPT ![c] = "idle"]
  /\ ret' = [ret EXCEPT ![c] = [kind |-> kind, pair |-> pair]]
  /\ seen' = IF kind = "token" /\ pair > seen THEN pair ELSE seen
  /\ UNCHANGED since

Begin(c) ==
  /\ pc[c] = "idle"
  /\ started < MaxCalls
  /\ started' = started + 1
  /\ id' = [id EXCEPT ![c] = started + 1]
  /\ pc' = [pc EXCEPT ![c] = "locking"]
  /\ since' = [since EXCEPT ![c] = seen]
  /\ UNCHANGED <<clock, source, store, restarts, joined, call, ret, server, seen>>

ReturnCached(c, p) ==
  /\ AccessValid(p)
  /\ Return(c, "token", p)
  /\ UNCHANGED <<inflight, id, joined, call, wire>>

ReturnExpired(c, p) ==
  /\ ~AccessValid(p)
  /\ RefreshLapsed(p)
  /\ Return(c, "errRefreshExpired", None)
  /\ UNCHANGED <<inflight, id, joined, call, wire>>

Join(c, p) ==
  /\ ~AccessValid(p)
  /\ ~RefreshLapsed(p)
  /\ inflight # None
  /\ joined' = [joined EXCEPT ![c] = inflight]
  /\ pc' = [pc EXCEPT ![c] = "waiting"]
  /\ UNCHANGED <<inflight, id, call, ret, wire, history>>

\* Faulty variant of Lead: an inflight refresh is not looked at.
LeadRegardless(c, p) ==
  /\ ~AccessValid(p) /\ ~RefreshLapsed(p)
  /\ inflight' = id[c]
  /\ call' = [call EXCEPT ![id[c]] = NewCall(p)]
  /\ wire' = [wire EXCEPT ![id[c]] = [status |-> "sent", pair |-> None]]
  /\ pc' = [pc EXCEPT ![c] = "leading"]
  /\ UNCHANGED <<id, joined, ret, history>>

Lead(c, p) ==
  /\ ~AccessValid(p)
  /\ ~RefreshLapsed(p)
  /\ inflight = None
  /\ inflight' = id[c]
  /\ call' = [call EXCEPT ![id[c]] = NewCall(p)]
  /\ wire' = [wire EXCEPT ![id[c]] = [status |-> "sent", pair |-> None]]
  /\ pc' = [pc EXCEPT ![c] = "leading"]
  /\ UNCHANGED <<id, joined, ret, history>>

\* What valid() does under the lock once it holds pair p.
Decide(c, p) ==
  \/ ReturnCached(c, p)
  \/ ReturnExpired(c, p)
  \/ Join(c, p)
  \/ Lead(c, p)

CheckCached(c) ==
  /\ pc[c] = "locking" /\ mu = "nobody" /\ tok # None
  /\ Decide(c, tok)
  /\ UNCHANGED <<clock, mu, tok, store, started, restarts, live, created>>

StartLoad(c) ==
  /\ pc[c] = "locking" /\ mu = "nobody" /\ tok = None
  /\ mu' = c
  /\ pc' = [pc EXCEPT ![c] = "loading"]
  /\ UNCHANGED <<clock, tok, inflight, store, started, restarts, id, joined, call,
                 ret, server, history>>

LoadFails(c) ==
  /\ pc[c] = "loading"
  /\ mu' = "nobody"
  /\ Return(c, "errLoad", None)
  /\ UNCHANGED <<clock, tok, inflight, store, started, restarts, id, joined, call,
                 server>>

LoadsNothing(c) ==
  /\ pc[c] = "loading" /\ store = None
  /\ mu' = "nobody"
  /\ Return(c, "errNoToken", None)
  /\ UNCHANGED <<clock, tok, inflight, store, started, restarts, id, joined, call,
                 server>>

Loads(c) ==
  /\ pc[c] = "loading" /\ store # None
  /\ mu' = "nobody"
  /\ tok' = store
  /\ Decide(c, store)
  /\ UNCHANGED <<clock, store, started, restarts, live, created>>

-----------------------------------------------------------------------------
(* Steps of the leader of a refresh. *)

\* Faulty variant of RefreshSucceeds: the pair is published before it is saved.
PublishBeforeSave(c) ==
  LET i == id[c] IN
  /\ pc[c] = "leading" /\ wire[i].status = "granted"
  /\ call' = [call EXCEPT ![i].refreshed = wire[i].pair]
  /\ tok' = wire[i].pair /\ inflight' = None
  /\ pc' = [pc EXCEPT ![c] = "saving"]
  /\ UNCHANGED <<clock, mu, store, started, restarts, id, joined, ret, server,
                 history>>

\* The endpoint's answer arrives.  When it carries no created_at the time of
\* receipt stands in.
RefreshSucceeds(c) ==
  LET i == id[c] IN
  /\ pc[c] = "leading" /\ wire[i].status = "granted"
  /\ call' = [call EXCEPT ![i].refreshed = wire[i].pair]
  /\ \E at \in {created[wire[i].pair], clock} :
       created' = [created EXCEPT ![wire[i].pair] = at]
  /\ pc' = [pc EXCEPT ![c] = "saving"]
  /\ UNCHANGED <<clock, source, store, started, restarts, id, joined, ret, live,
                 wire, history>>

\* A refusal, a 5xx, a lost request or response, the HTTP timeout or the
\* cancellation of the leader's context: a POST is never sent again.
RefreshFails(c) ==
  /\ pc[c] = "leading"
  /\ pc' = [pc EXCEPT ![c] = "settling"]
  /\ UNCHANGED <<clock, source, store, started, restarts, id, joined, call, ret,
                 server, history>>

Save(c) ==
  LET i == id[c] IN
  /\ pc[c] = "saving"
  /\ store' = call[i].refreshed
  /\ call' = [call EXCEPT ![i].saved = TRUE]
  /\ pc' = [pc EXCEPT ![c] = "settling"]
  /\ UNCHANGED <<clock, source, started, restarts, id, joined, ret, server, history>>

\* A Save that reports an error may have written the pair or not.
SaveFails(c) ==
  /\ pc[c] = "saving"
  /\ store' \in {store, call[id[c]].refreshed}
  /\ pc' = [pc EXCEPT ![c] = "settling"]
  /\ UNCHANGED <<clock, source, started, restarts, id, joined, call, ret, server,
                 history>>

\* Faulty variant of Settle: a pair that could not be saved is dropped.
KeepOnlySaved(c) ==
  LET i == id[c] IN
  /\ pc[c] = "settling" /\ mu = "nobody"
  /\ tok' = IF call[i].saved THEN call[i].refreshed ELSE tok
  /\ inflight' = None
  /\ pc' = [pc EXCEPT ![c] = "closing"]
  /\ UNCHANGED <<clock, mu, store, started, restarts, id, joined, call, ret, server,
                 history>>

\* Faulty variant of Settle: inflight is cleared only when a pair came back.
ClearOnSuccess(c) ==
  LET refreshed == call[id[c]].refreshed IN
  /\ pc[c] = "settling" /\ mu = "nobody"
  /\ tok' = IF refreshed # None THEN refreshed ELSE tok
  /\ inflight' = IF refreshed # None THEN None ELSE inflight
  /\ pc' = [pc EXCEPT ![c] = "closing"]
  /\ UNCHANGED <<clock, mu, store, started, restarts, id, joined, call, ret, server,
                 history>>

\* The last critical section: a pair that came back is kept even unsaved.
Settle(c) ==
  LET refreshed == call[id[c]].refreshed IN
  /\ pc[c] = "settling" /\ mu = "nobody"
  /\ tok' = IF refreshed # None THEN refreshed ELSE tok
  /\ inflight' = None
  /\ pc' = [pc EXCEPT ![c] = "closing"]
  /\ UNCHANGED <<clock, mu, store, started, restarts, id, joined, call, ret, server,
                 history>>

\* Faulty variants of Outcome: the error of a failed refresh is dropped; a
\* failed refresh falls back on the pair it presented.
DropError(c, i) == Return(c, "token", call[i].refreshed)

FallBack(c, i) ==
  IF call[i].saved THEN Return(c, "token", call[i].refreshed)
                   ELSE Return(c, "token", call[i].presented)

\* What a refreshCall hands to the leader and to every waiter.
Outcome(c, i) ==
  IF call[i].saved THEN Return(c, "token", call[i].refreshed)
                   ELSE Return(c, "errRefresh", None)

\* Faulty variant of CloseDone: done is closed only after a success.
CloseOnSuccess(c) ==
  LET i == id[c] IN
  /\ pc[c] = "closing"
  /\ call' = [call EXCEPT ![i].done = call[i].saved]
  /\ Outcome(c, i)
  /\ UNCHANGED <<clock, source, store, started, restarts, id, joined, server>>

\* call.tok or call.err is set and done is closed, outside the lock.
CloseDone(c) ==
  LET i == id[c] IN
  /\ pc[c] = "closing"
  /\ call' = [call EXCEPT ![i].done = TRUE]
  /\ Outcome(c, i)
  /\ UNCHANGED <<clock, source, store, started, restarts, id, joined, server>>

WaiterWakes(c) ==
  /\ pc[c] = "waiting" /\ call[joined[c]].done
  /\ Outcome(c, joined[c])
  /\ UNCHANGED <<clock, source, store, started, restarts, id, joined, call, server>>

WaiterCancelled(c) ==
  /\ pc[c] = "waiting"
  /\ Return(c, "errContext", None)
  /\ UNCHANGED <<clock, source, store, started, restarts, id, joined, call, server>>

-----------------------------------------------------------------------------
(* The environment. *)

\* The endpoint rotates the newest pair, once.  A request is answered whether
\* or not its sender still waits.
Grant(i) ==
  /\ wire[i].status = "sent"
  /\ call[i].presented = live
  /\ live < MaxPairs
  /\ live' = live + 1
  /\ created' = [created EXCEPT ![live + 1] = clock]
  /\ wire' = [wire EXCEPT ![i] = [status |-> "granted", pair |-> live + 1]]
  /\ UNCHANGED <<clock, source, store, started, restarts, locals, history>>

\* The user completes the authorization flow and the platform stores the pair.
Authorize ==
  /\ store = None /\ live = None
  /\ live' = 1
  /\ created' = [created EXCEPT ![1] = clock]
  /\ store' = 1
  /\ UNCHANGED <<clock, source, started, restarts, locals, wire, history>>

Tick ==
  /\ clock < MaxTime
  /\ clock' = clock + 1
  /\ UNCHANGED <<source, store, started, restarts, locals, server, history>>

\* The process dies and starts again over the same store.
Restart ==
  /\ restarts < MaxRestarts
  /\ restarts' = restarts + 1
  /\ mu' = "nobody" /\ tok' = None /\ inflight' = None
  /\ pc' = [c \in Callers |-> "idle"]
  /\ ret' = [c \in Callers |-> NoReturn]
  /\ UNCHANGED <<clock, store, started, id, joined, call, server, history>>

Init ==
  /\ clock = 0
  /\ mu = "nobody" /\ tok = None /\ inflight = None
  /\ store = None /\ live = None
  /\ started = 0 /\ restarts = 0
  /\ pc = [c \in Callers |-> "idle"]
  /\ id = [c \in Callers |-> None]
  /\ joined = [c \in Callers |-> None]
  /\ call = [i \in Ids |-> NoCall]
  /\ ret = [c \in Callers |-> NoReturn]
  /\ created = [p \in Pairs |-> 0]
  /\ wire = [i \in Ids |-> NoRequest]
  /\ seen = None
  /\ since = [c \in Callers |-> None]

LockSteps(c) ==
  \/ CheckCached(c) \/ StartLoad(c) \/ LoadFails(c) \/ LoadsNothing(c) \/ Loads(c)

LeaderSteps(c) ==
  \/ RefreshSucceeds(c) \/ RefreshFails(c) \/ Save(c) \/ SaveFails(c)
  \/ Settle(c) \/ CloseDone(c)

Next ==
  \/ \E c \in Callers : \/ Begin(c) \/ LockSteps(c) \/ LeaderSteps(c)
                        \/ WaiterWakes(c) \/ WaiterCancelled(c)
  \/ \E i \in Ids : Grant(i)
  \/ Authorize \/ Tick \/ Restart

Spec == Init /\ [][Next]_vars

(***************************************************************************)
(* A goroutine inside valid() keeps running; the POST ends by the HTTP     *)
(* client's timeout, and Load and Save are assumed to return.  Nothing     *)
(* obliges a caller to call, a context to be cancelled or the endpoint to  *)
(* answer.                                                                 *)
(***************************************************************************)
Fairness == \A c \in Callers : WF_vars(LockSteps(c) \/ LeaderSteps(c) \/ WaiterWakes(c))

FairSpec == Spec /\ Fairness

-----------------------------------------------------------------------------
(* Properties. *)

\* Every variable has its type; in particular valid() returns a pair or an
\* error, never a nil token without one.
TypeOK ==
  /\ clock \in Time
  /\ mu \in Callers \cup {"nobody"}
  /\ tok \in 0..MaxPairs /\ store \in 0..MaxPairs /\ live \in 0..MaxPairs
  /\ inflight \in 0..MaxCalls /\ started \in 0..MaxCalls
  /\ restarts \in 0..MaxRestarts
  /\ pc \in [Callers -> Points]
  /\ id \in [Callers -> 0..MaxCalls]
  /\ joined \in [Callers -> 0..MaxCalls]
  /\ call \in [Ids -> [presented : 0..MaxPairs, refreshed : 0..MaxPairs,
                       saved : BOOLEAN, done : BOOLEAN]]
  /\ ret \in [Callers -> [kind : {"token"}, pair : Pairs]
                         \cup [kind : Failures, pair : {None}]]
  /\ created \in [Pairs -> Time]
  /\ wire \in [Ids -> [status : {"none", "sent", "granted"}, pair : 0..MaxPairs]]
  /\ seen \in 0..MaxPairs
  /\ since \in [Callers -> 0..MaxPairs]

\* The goroutine is between taking the refresh and settling it.
Refreshing(c) == pc[c] \in {"leading", "saving", "settling"}

\* Concurrent callers collapse into one refresh: two goroutines are never
\* refreshing at once, whatever order they pass the lock in.
SingleFlight == \A c, d \in Callers : Refreshing(c) /\ Refreshing(d) => c = d

\* The goroutine that drives refresh i and has not closed its done channel yet.
Drives(c, i) == (Refreshing(c) \/ pc[c] = "closing") /\ id[c] = i

\* Nobody waits for an answer that cannot come: whoever waits on a refresh finds it
\* done or its leader on the way to closing it, whatever failed before, and the
\* lock is held across I/O only by a goroutine that is about to release it.
NobodyAbandoned ==
  /\ \A c \in Callers : pc[c] = "waiting" =>
       call[joined[c]].done \/ \E d \in Callers : Drives(d, joined[c])
  /\ mu # "nobody" => pc[mu] = "loading"

\* A refresh token whose successor came back is never presented again, as the
\* rotation consumed it: not even when saving the successor failed, and, once it
\* was saved, not even after a restart.
ConsumedNeverPresented ==
  [][\A i, j \in Ids :
       /\ wire[i].status = "none" /\ wire'[i].status = "sent"
       /\ call[j].refreshed # None /\ (call[j].saved \/ restarts = 0)
       => call'[i].presented # call[j].presented]_vars

\* A failed refresh does not stick: a goroutine only ever joins a refresh whose
\* outcome is still open, so a later caller drives a new one.
JoinsOpenCall ==
  [][\A c \in Callers : pc[c] # "waiting" /\ pc'[c] = "waiting"
                          => ~call'[joined'[c]].done]_vars

\* A refresh never replaces the pair in the store by an older one, across slow
\* saves, failed saves and restarts.
StoreNeverRegresses == [][store' >= store]_store

\* Token never goes back: a call of valid() that begins after another returned
\* pair g returns g or a newer one, even over a restart with a store left behind.
MonotonicReads ==
  [][\A c \in Callers :
       pc[c] # "idle" /\ pc'[c] = "idle" /\ ret'[c].kind = "token"
         => ret'[c].pair >= since[c]]_vars

\* ErrRefreshExpired means that the user must authorize again: it is not
\* returned while a refresh in flight has already brought back a new pair.
ExpiredMeansReauthorize ==
  [][\A c \in Callers :
       pc[c] # "idle" /\ pc'[c] = "idle" /\ ret'[c].kind = "errRefreshExpired"
         => inflight = None \/ call[inflight].refreshed = None]_vars

\* Every call of valid() returns, the leader's and the waiters', whatever fails.
EveryCallReturns == \A c \in Callers : pc[c] # "idle" ~> pc[c] = "idle"

=============================================================================
