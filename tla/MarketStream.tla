---------------------------- MODULE MarketStream ----------------------------
(***************************************************************************)
(* streaming.Stream's subscriptions.  Subscribe and Unsubscribe are HTTP   *)
(* calls that bind the session of the MQTT connection; the Stream          *)
(* remembers what it subscribed to and replays it after every connect.     *)
(* subMu is held across each call's POST, so the goroutine that holds it   *)
(* is a variable, and a step of one is interleaved with the network, the   *)
(* server and the connection.                                              *)
(*                                                                         *)
(* A key is a symbol and a data type (the category is fixed) and an option *)
(* stands for depth, snapshot and overnight.  POSTs are numbered; one the  *)
(* client gave up on may still be executed later.  The broker forgets a    *)
(* session whose connection drops and refuses a POST that has none.        *)
(***************************************************************************)
EXTENDS StreamParams

Keys == Symbols \X Types

VARIABLES
  mu,         \* the holder of Stream.subMu
  subs,       \* Stream.subs
  request,    \* the POST that the holder of subMu waits for, NoRequest if none
  answer,     \* what became of it
  groups,     \* resubscribe's requests still to send
  handlers,   \* OnConnect handlers paho started that did not finish
  dropped,    \* Stream.dropped, of failed resubscribes
  connected,  \* the MQTT connection is up
  closed,     \* Stream.closed
  drops,      \* connections lost so far
  posts,      \* POSTs sent so far
  late,       \* POSTs the client gave up on that may still be executed
  server,     \* what the broker streams to this session
  clears,     \* history: the keys of the current POST with no other on its way
  doubt       \* history: keys of a POST that failed, until a later one that
              \* nothing can overtake succeeds

call   == <<request, answer, posts>>
replay == <<groups, handlers, dropped>>
net    == <<connected, closed, drops>>
ghosts == <<clears, doubt>>
vars   == <<mu, subs, call, replay, net, late, server, ghosts>>

Nothing == [k \in Keys |-> NoOption]
Put(f, keys, o) == [k \in Keys |-> IF k \in keys THEN o ELSE f[k]]

\* The keys a request names: its symbols times its types.
Request(syms, types, o) == [keys |-> syms \X types, option |-> o]
NoRequest == Request({}, {}, NoOption)
Requests == [keys : SUBSET Keys, option : Options \cup {NoOption}]

-----------------------------------------------------------------------------
(* One POST of the goroutine that holds subMu. *)

Sends(r) ==
  /\ posts < MaxPosts
  /\ posts' = posts + 1
  /\ request' = r /\ answer' = "none"
  /\ clears' = {k \in r.keys : \A l \in late : k \notin l.request.keys}
  /\ UNCHANGED <<net, late, server, doubt>>

Succeeds ==
  /\ answer = "executed"
  /\ request' = NoRequest /\ answer' = "none"
  /\ doubt' = doubt \ clears
  /\ UNCHANGED <<posts, net, late, server, clears>>

\* Refused, timed out, cancelled or its response lost: executed, or still on
\* its way, or neither.
Fails ==
  /\ request # NoRequest
  /\ request' = NoRequest /\ answer' = "none"
  /\ late' = IF answer = "none" THEN late \cup {[id |-> posts, request |-> request]}
             ELSE late
  /\ doubt' = doubt \cup request.keys
  /\ UNCHANGED <<posts, net, server, clears>>

-----------------------------------------------------------------------------
(* Subscribe and Unsubscribe *)

Subscribe(u) ==
  /\ mu = "free"
  /\ mu' = u
  /\ \E syms \in (SUBSET Symbols) \ {{}}, types \in (SUBSET Types) \ {{}},
        o \in Options :
       Cardinality(syms) <= MaxSymbols /\ Sends(Request(syms, types, o))
  /\ UNCHANGED <<subs, replay>>

\* Of some keys, or of All.
Unsubscribe(u) ==
  /\ mu = "free"
  /\ mu' = u
  /\ \E syms \in (SUBSET Symbols) \ {{}}, types \in (SUBSET Types) \ {{}} :
       /\ Cardinality(syms) <= MaxSymbols \/ <<syms, types>> = <<Symbols, Types>>
       /\ Sends(Request(syms, types, NoOption))
  /\ UNCHANGED <<subs, replay>>

\* Faulty variant of CallSucceeds: an Unsubscribe does not forget.
RememberOnly(u) ==
  /\ mu = u
  /\ Succeeds
  /\ subs' = IF request.option # NoOption THEN Put(subs, request.keys, request.option)
             ELSE subs
  /\ mu' = "free"
  /\ UNCHANGED replay

\* remember or forget, and unlock.
CallSucceeds(u) ==
  /\ mu = u
  /\ Succeeds
  /\ subs' = Put(subs, request.keys, request.option)
  /\ mu' = "free"
  /\ UNCHANGED replay

\* Faulty variant of CallFails: the lock is not released.
FailLocked(u) ==
  /\ mu = u
  /\ Fails
  /\ UNCHANGED <<mu, subs, replay>>

CallFails(u) ==
  /\ mu = u
  /\ Fails
  /\ mu' = "free"
  /\ UNCHANGED <<subs, replay>>

-----------------------------------------------------------------------------
(* resubscribe *)

\* One request for each option and type, with every symbol that has them.
Grouped ==
  {Request({s \in Symbols : subs[<<s, t>>] = o}, {t}, o) : t \in Types, o \in Options}

\* Faulty variant of StartReplay: it does not wait for subMu.
ReplayRegardless ==
  /\ mu # "replay" /\ handlers > 0
  /\ mu' = "replay"
  /\ groups' = {g \in Grouped : g.keys # {}}
  /\ UNCHANGED <<subs, call, handlers, dropped, net, late, server, ghosts>>

StartReplay ==
  /\ mu = "free" /\ handlers > 0
  /\ mu' = "replay"
  /\ groups' = {g \in Grouped : g.keys # {}}
  /\ UNCHANGED <<subs, call, handlers, dropped, net, late, server, ghosts>>

ReplayGroup ==
  /\ mu = "replay" /\ request = NoRequest
  /\ \E g \in groups : Sends(g) /\ groups' = groups \ {g}
  /\ UNCHANGED <<mu, subs, handlers, dropped>>

ReplayGroupSucceeds ==
  /\ mu = "replay"
  /\ Succeeds
  /\ UNCHANGED <<mu, subs, replay>>

ReplayGroupFails ==
  /\ mu = "replay"
  /\ Fails
  /\ dropped' = dropped + 1
  /\ UNCHANGED <<mu, subs, groups, handlers>>

\* The context of the replay has expired: a group is not even sent.
ReplayExpires ==
  /\ mu = "replay" /\ request = NoRequest
  /\ \E g \in groups : groups' = groups \ {g} /\ doubt' = doubt \cup g.keys
  /\ dropped' = dropped + 1
  /\ UNCHANGED <<mu, subs, call, handlers, net, late, server, clears>>

EndReplay ==
  /\ mu = "replay" /\ request = NoRequest /\ groups = {}
  /\ mu' = "free" /\ handlers' = handlers - 1
  /\ UNCHANGED <<subs, call, groups, dropped, net, late, server, ghosts>>

-----------------------------------------------------------------------------
(* The connection, the broker and Close. *)

Disconnect ==
  /\ connected /\ drops < MaxDrops
  /\ connected' = FALSE /\ drops' = drops + 1
  /\ server' = Nothing
  /\ UNCHANGED <<mu, subs, call, replay, closed, late, ghosts>>

\* Faulty variant of Reconnect: only the first connect has a handler.
ReconnectSilently ==
  /\ ~connected /\ ~closed
  /\ connected' = TRUE
  /\ UNCHANGED <<mu, subs, call, replay, closed, drops, late, server, ghosts>>

\* paho connects again and starts the OnConnect handler in a goroutine.
Reconnect ==
  /\ ~connected /\ ~closed
  /\ connected' = TRUE /\ handlers' = handlers + 1
  /\ UNCHANGED <<mu, subs, call, groups, dropped, closed, drops, late, server, ghosts>>

Close ==
  /\ ~closed
  /\ closed' = TRUE /\ connected' = FALSE
  /\ server' = Nothing
  /\ UNCHANGED <<mu, subs, call, replay, drops, late, ghosts>>

Executes ==
  /\ request # NoRequest /\ answer = "none" /\ connected
  /\ answer' = "executed"
  /\ server' = Put(server, request.keys, request.option)
  /\ UNCHANGED <<mu, subs, request, posts, replay, net, late, ghosts>>

\* No connection is up for the session, or the broker has another reason.
Refuses ==
  /\ request # NoRequest /\ answer = "none"
  /\ answer' = "refused"
  /\ UNCHANGED <<mu, subs, request, posts, replay, net, late, server, ghosts>>

\* A POST the client gave up on is executed, or lost after all.
ExecutesLate(l) ==
  /\ connected
  /\ late' = late \ {l}
  /\ server' = Put(server, l.request.keys, l.request.option)
  /\ UNCHANGED <<mu, subs, call, replay, net, ghosts>>

LosesLate(l) ==
  /\ late' = late \ {l}
  /\ UNCHANGED <<mu, subs, call, replay, net, server, ghosts>>

-----------------------------------------------------------------------------

\* Connect has returned; the handler of the first connection may not have run.
Init ==
  /\ mu = "free" /\ request = NoRequest /\ answer = "none" /\ groups = {}
  /\ subs = Nothing /\ server = Nothing
  /\ handlers = 1 /\ dropped = 0
  /\ connected = TRUE /\ closed = FALSE /\ drops = 0
  /\ posts = 0 /\ late = {}
  /\ clears = {} /\ doubt = {}

Replays ==
  \/ ReplayGroup \/ ReplayGroupSucceeds \/ ReplayGroupFails \/ ReplayExpires
  \/ EndReplay

Next ==
  \/ \E u \in Users : \/ Subscribe(u) \/ Unsubscribe(u)
                      \/ CallSucceeds(u) \/ CallFails(u)
  \/ StartReplay \/ Replays
  \/ Disconnect \/ Reconnect \/ Close
  \/ Executes \/ Refuses \/ (\E l \in late : ExecutesLate(l) \/ LosesLate(l))

Spec == Init /\ [][Next]_vars

(***************************************************************************)
(* Every POST ends by its context or the HTTP client's timeout, and subMu, *)
(* as a Go mutex, starves nobody.  Nothing obliges the broker to answer.   *)
(***************************************************************************)
FairSpec ==
  /\ Spec
  /\ \A u \in Users : WF_vars(CallSucceeds(u) \/ CallFails(u))
  /\ WF_vars(Replays) /\ SF_vars(StartReplay)

-----------------------------------------------------------------------------
(* Properties. *)

\* Every variable has its type.
TypeOK ==
  /\ mu \in Users \cup {"free", "replay"}
  /\ subs \in [Keys -> Options \cup {NoOption}]
  /\ server \in [Keys -> Options \cup {NoOption}]
  /\ request \in Requests /\ answer \in {"none", "executed", "refused"}
  /\ posts \in 0..MaxPosts
  /\ late \subseteq [id : 1..MaxPosts, request : Requests]
  /\ groups \subseteq [keys : SUBSET Keys, option : Options]
  /\ handlers \in 0..(MaxDrops + 1) /\ drops \in 0..MaxDrops /\ dropped \in Nat
  /\ connected \in BOOLEAN /\ closed \in BOOLEAN
  /\ clears \subseteq Keys /\ doubt \subseteq Keys

\* A user's call is under way for key k.
Calling(k) == mu \in Users /\ k \in request.keys

\* What Unsubscribe cancelled stays cancelled: no replay, of this connection or
\* a later one, revives a key the Stream has forgotten.  A key in doubt is excepted:
\* a POST the client gave up on may revive it, and the code cannot know.
ForgottenStaysForgotten ==
  \A k \in Keys \ doubt : subs[k] = NoOption /\ ~Calling(k) => server[k] = NoOption

\* Once the handlers have run, the broker streams exactly what was subscribed
\* to, with its latest options, however many connections dropped meanwhile; a
\* difference is confined to keys of a call or of a replay that failed.
ReplayedInFull ==
  connected /\ handlers = 0 /\ mu = "free"
    => \A k \in Keys \ doubt : server[k] = subs[k]

\* A request never names more symbols than the endpoint takes.
WithinLimit ==
  request.option # NoOption =>
    \A t \in Types :
      Cardinality({s \in Symbols : <<s, t>> \in request.keys}) <= MaxSymbols

\* Every replay runs to its end: a call in flight holds subMu for a while only.
EveryReplayEnds == handlers > 0 ~> handlers = 0

=============================================================================
