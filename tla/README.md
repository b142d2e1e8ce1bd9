# TLA+ verification of the Webull Go SDK

The repository is a Go client library for Webull's OpenAPI: signed HTTP requests, the
Connect (OAuth) token lifecycle, orders and groups of orders, a trade event stream over
gRPC and a market data stream over MQTT. Most of its methods build one request and
decode one response. The logic that is hard to test is elsewhere: in the token shared by
goroutines, in retries over a network that loses and delays requests, in two streams
that reconnect while other goroutines call into them, and in order placement whose
outcome is unknown. This directory models those parts, checks them with TLC, and proves
the central claims with TLAPS. `PROJECT.json` maps every definition to source lines and
lists runs, mutants, hazards, findings and theorems.

Paths below are relative to the repository's root (`src/` in `PROJECT.json`).

## 1. Inventory

### Parts, their state and how they interact

| Part | Source | State it keeps | Operations | What makes it correct |
|---|---|---|---|---|
| Connect token source | `connect/client.go` | `mu`, `tok`, `inflight`, one `refreshCall` per refresh; the `TokenStore` outside the process | `valid()` behind `bearer`, `Token` and every request | one refresh at a time; a rotated refresh token is not presented again; the store and what callers see never go back; every waiter is woken |
| Connect OAuth flow | `connect/oauth.go`, `connect/connect.go` | none | `AuthorizeURL`, `ExchangeCode`, `Refresh`, response decoding | a response becomes a pair with the right lifetimes, or an error |
| Signed HTTP transport | `internal/transport` | per call: attempt, last error | `Doer.Do`, `attempt`, `sleep`, `RetryPolicy` | a write is executed at most once; success means it was executed; a call returns |
| Request signing | `internal/signing` | nonce source | canonical string, HMAC | the server computes the same string |
| Trade event stream | `events` | `ctx`, `mu`, `conn`, `rpc` | `Subscribe`, `Recv`, `Close`; inside: `connect`, `renew`, `reconnect`, `dropConn` | one connection at a time, none leaked, a bounded number of failures, refusals are not retried, `Close` ends it |
| Market data stream: subscriptions | `streaming/client.go`, `stream.go` | `subMu`, `subs`, the MQTT client, `dropped` | `Subscribe`, `Unsubscribe`, `Close`; the `OnConnect` handler (`resubscribe`) | after a reconnect the broker streams what was subscribed to, and no replay revives what was cancelled |
| Market data stream: queue | `streaming/stream.go` | `queue`, `dropped`, `closed` | publish handler, `enqueue`, `Recv`, `Dropped`, `Close` | never blocks the MQTT goroutine, loses the oldest, counts each loss (and each failed request of a replay) |
| Market data messages | `streaming/messages.go` | none | `decode` by topic | a payload is decoded whole or rejected; what does not parse is absent, never zero; a level keeps its place |
| Order groups | `trade/combos.go` | client order IDs written into the `Combo` | `PreviewCombo`, `PlaceCombo`, `CancelCombo` | placing again does not duplicate; cancelling leaves nothing working |
| Order rules, placement | `trade/orders.go`, `assets.go`, `enums.go` | defaults and IDs written into the `Order` | `prepare`, `PreviewOrder`, `PlaceOrder(s)`, `ReplaceOrder`, `CancelOrder` | one value is one order at the server; what is sent is what the caller wrote, but for what `prepare` derived earlier; only combinations the API documents are sent |
| Accounts, instruments, market data | rest of `trade`, `marketdata` | none | one request per method | the request asks for what the arguments say; absent fields decode to nothing |
| Watchlists | `marketdata/watchlists.go` | none | writes whose body may say failure under a 200 | only an explicit receipt is success, where one is read; no write is sent with a method that is retried |
| Root client, errors | `client.go`, `auth.go`, `config.go`, `errors.go` | hosts resolved at construction, the token | construction, token operations, classification of errors | a client stays where it was built; an error is classified by the code it came with, or as no named outcome |
| Wire types, queries, endpoints | `internal/wire`, `query`, `endpoints` | none | parsing and formatting | the shapes of a value are read alike; an optional value that is not set is not sent |
| Generated protobuf code | `internal/eventspb`, `streampb` | - | - | - |

Interactions: every request of every package goes through a `Doer`; a Connect client's
`Doer` calls `tokenSource.bearer` once per request, before its attempts; `valid()` itself
posts through the `Authorizer`'s `Doer`. A market data stream lives in two places: the
MQTT connection, and HTTP calls that bind that connection's session. Both streams are
used by an application goroutine (`Recv`), goroutines that call `Subscribe`,
`Unsubscribe` or `Close`, and the libraries' own goroutines.

### Hard behaviours

* *Interleavings*: goroutines around `valid()`'s two critical sections; `Close` against
  `connect`; `Recv` between the steps of `enqueue`; replays against `Unsubscribe`.
* *Failures between two steps*: the endpoint rotated the pair and the response, the save
  or the process is lost; a write was executed and its answer is lost or unreadable.
* *Late and lost requests*: a request that timed out executes after the next one.
* *Budgets and limits*: attempts, reconnects, the queue, symbols per request.
* *Values that callers keep*: `prepare` writes defaults, IDs and roles into an `Order`
  that the caller edits, groups and sends again.
* *Arithmetic*: the backoff doubles past what a Duration holds.
* *Liveness*: waiters of a refresh, calls without an answer, handlers waiting for a lock,
  `Recv` against `Close`.

`PROJECT.json` lists each as a hazard at its line, with the property that covers it or
the reason why none does yet.

## 2. Modules

| Module | Models | Used by |
|---|---|---|
| `TokenSource` | `tokenSource.valid` with lock, refresh, store, restarts, token endpoint, clock | `MCTokenSource`, `TokenReauth`, `TokenSourceProofs` |
| `MCTokenSource` | symmetric callers for the counterexample run | runs `token_source*` |
| `TokenReauth` | composition: `TokenSource` and a platform that stores a new authorization in the same store | run `token_reauth` |
| `Exchange` | abstract specification of a signed request | `Doer` |
| `Doer` | `Doer.Do` with its attempts, a lossy network, the server | `MCDoer` |
| `Backoff` | `RetryPolicy.backoff` and `Retry-After` in 64-bit arithmetic | `MCDoer` |
| `ApiErrors` | `decodeAPIError`, `APIError.Is`, `Temporary`, the codes the packages wrap | `MCDoer` |
| `Signing` | the canonical form of a request and the headers an attempt sends | `MCDoer` |
| `ClientConfig` | `NewClient`, hosts and tokens | `MCDoer` |
| `Queries` | method and query of the methods of `marketdata` and `trade` | `MCDoer` |
| `Decoding` | the wire types, list shapes, receipts, the token response | `MCDoer`, `TradeEvents` |
| `MCDoer` | two requests, and bounded arguments of the six modules above | run `doer`, `DoerProofs` |
| `EventStream` | `events.Stream` | `MCEventStream`, run `event_stream_terminal` |
| `TradeEvents` | the subscription mask, `decodeEvent` | `MCEventStream` |
| `MCEventStream` | both, with bounded payloads | run `event_stream`, `EventStreamProofs` |
| `StreamParams`, `MarketStream` | subscriptions of `streaming.Stream` and the broker's session | `MCStreaming`, run `market_stream_limit`, `MarketStreamProofs` |
| `Feed` | abstract specification of what a caller of `Recv` may rely on | `MessageQueue` |
| `MessageQueue` | the buffer of `streaming.Stream` | `MCMessageQueue`, run `message_queue_dropped` |
| `Messages` | `decode` and the payload types | `MCMessageQueue` |
| `MCMessageQueue` | both, with bounded payloads | `MCStreaming`, `MessageQueueProofs` |
| `MCStreaming` | buffer and subscriptions, one part at a time | run `streaming` |
| `OrderRules` | `Order.prepare`, the asset rules, `forPlacement`, `LegFromSymbol`, modifications | `ComboRules` |
| `ComboRules` | the constructors and rule tables of groups, `Combo.prepare` | `OrderDesk` |
| `OrderDesk` | a caller that keeps, edits, groups, previews, places and replaces orders | `MCOrderDesk`, `OrderLemmas` |
| `MCOrderDesk` | two cells, five kinds of order, the edits | `MCTrade`, run `order_desk_corrected` |
| `ComboParams`, `ComboOrders`, `MCComboOrders` | `PlaceCombo` and `CancelCombo` with the server's group | `MCTrade`, run `combo_orders_late`, `ComboOrdersProofs` |
| `MCTrade` | the caller's values and a group at the server, one part at a time | run `trade` |
| `OrderLemmas` | lemmas about the operators of the three modules above | `OrderDeskProofs` |
| `*Proofs` | theorems about `TokenSource`, `Doer` and the functions beside it, `EventStream`, `MarketStream`, `MessageQueue`, `ComboOrders`, `OrderDesk` | |

`MCStreaming` and `MCTrade` run two components that share no state the properties read: a
variable chosen at the start says which of them moves, the other rests, and each keeps
its own properties and fairness. The `...Params` modules hold the parameters of a
component and their assumption, so that both are extended where the component is
instantiated.

Definitions commented "Faulty variant of ..." are plausible bugs. `Next` uses none of
them; they show that each property depends on the code (section 4).

### TokenSource

A goroutine's place in `valid()` is `pc`: waiting for the first lock, loading the pair
under the lock, posting the refresh, saving, waiting for the second lock (`settling`),
about to close `done`, or waiting for another's `done`. Token pairs are numbered in the
order the endpoint issues them, 0 being no pair, so "older" is `<`; `created` is
`Token.CreatedAt`. Each call of `valid()` has a number, and the number names the
`refreshCall` it leads; `inflight` is the number of that call. `wire` is the endpoint's
side of each refresh, which proceeds whether or not the client still waits.

`CheckCached` and `Loads` are the first critical section, in the order of the code:
cached, expired, join, lead. `RefreshSucceeds` or `RefreshFails`, `Save` or `SaveFails`
and `Settle` are the leader; `CloseDone` is outside the lock as in the code, so another
goroutine may start a refresh before the waiters of the last one wake. A failed save may
have written or not. `Restart` loses everything but the store and the endpoint. When a
response carries no `created_at`, the time of receipt stands in, and both outcomes are
taken. A pair in `Bare` came without an access token, so it is never valid as it is
(`accessValid`) and is refreshed at once.

`TokenReauth` adds one action, a platform that completes a second authorization flow and
saves its pair, as `connect/client.go`'s doc comment invites it to.

### Exchange and Doer

`Doer` has one process per call of `Do`. `wire` holds the copies that its attempts put on
the network; the server takes them at any time, in any order, executes or refuses each,
and answers. The client may give up on any attempt at any moment (`TransportFails`:
timeout, broken response, context), whatever has happened to the copy. Statuses are the
classes `Do` tells apart. `Exchange` is what a caller may rely on: a counter of
executions and an outcome, where a write is executed at most once, success is reported
only for what was executed, and a refused write is never executed. The refinement maps
`result` to `outcome` (everything but success and the server's own refusal is "unknown")
and `executed` to itself.

### EventStream

`conn`, `rpc` and `ctx` (`done`) are the Stream's fields; `open` is the set of
connections that exist; `dials` is the number of the newest one, `connect`'s local. `pc`
and `mode` tell where the receiver is and which of `Subscribe`, `renew` and `reconnect`
called `connect`. `Close` is two steps, as in the code: cancel, then the critical section
that closes the connection. A finished rpc keeps returning its error, and a message that
was buffered may still be read after the context is done. `by` and `failed` are history:
which call of `Recv` dialled a connection, and how many consecutive delayed reconnects
failed.

### MarketStream and MessageQueue

`subMu` is a variable because a POST happens under it. A goroutine holds it for its whole
call, so goroutines that call `Subscribe` and `Unsubscribe` differ in name only; the
instances have one, and the replay is the other party. `subs` and `server` map each key
(symbol and data type) to its options. POSTs that the client gave up on stay in `late`
and may be executed later. `doubt` is history: the keys about which a failed call left
the client unsure, until a later call that nothing can overtake has succeeded; the
properties are claimed outside `doubt`, where the code can know. So nothing is said of a
late POST that revives what was cancelled after it: the code cannot notice, and no
document promises that it does.

`MessageQueue` gives each channel operation of `enqueue` a step of its own, with `Recv`
between any two. It is separate because the queue and the subscriptions share only the
counter `dropped` and the flag `closed`. The goroutine of a reconnect is there as its one
effect on the queue's state: a request of `resubscribe` that fails is counted in `dropped`
(`ReplayFails`, `unreplayed`; bound `MaxUnreplayed`), beside full queues and payloads that
do not decode. So `Accounted` equates `dropped` with the losses plus the failed replays,
and the documented meaning, losses alone, is refuted (run `message_queue_dropped`).

`Feed` is what the caller of `Recv` may rely on, without the channel and the steps of
`enqueue`: numbered messages of which an unbroken run up to the newest is held, `Read` in
order, and a feed that never waits for its reader. A message that finds the buffer full
(`Press`) then costs the oldest one held, or none if the reader has taken them all
meanwhile. `counted` goes up for every loss, and for every replay that fails. `MessageQueue!Promise` maps `Newest` (the newest
message that `enqueue` is done with) to `sent`, its distance to the queue's length to
`oldest`, the step between the failed send and the eviction to `pressed`, and `dropped`,
with the eviction that is not counted yet, to `counted`. So the loss happens at the
eviction, the message joins at the send that succeeds, and the other steps stutter.
`ImplementsFeed` says more than the invariants: the second, silent send may neither lose
a message nor let one overtake another, and the count shows every loss once, with the
failed replays and nothing else beside it: it is never short of the losses, but may be
ahead of them.

### ComboOrders

One `Combo`, with its client order IDs as one number (0 is empty). The server's group
follows the package documentation: a master works and holds its exits, a fill of the
master releases them, a fill of an exit cancels the other. Cancelling a master that has
not filled cancels its exits; once it has filled they are orders of their own and a cancel
of the master does nothing to them (`Cancels`), which is why `CancelCombo` goes on after an
answer that says "gone". Requests may be late or lost, as `Exchange` allows. `PlaceCombo`, `PlaceReturns`,
`PlaceUnknown` are one placement; `CancelCombo` goes through the orders one POST at a
time, with fills between.

### OrderRules, ComboRules and OrderDesk

An order is a record of the fields that decide something; the rest (market, algorithm,
position fields) is carried unchanged by the code and left out. `Prepared` is `prepare`:
defaults first, in the code's order (an instrument that is derived decides the default
session), then validation, whose outcome is kept as valid or not, since every check is
made and none hides another. `ForPlacement` drops the fields that only a preview takes
and clears null decimals; `Modification` is what `ReplaceOrder` sends.

`ComboRules` gives the constructors' roles and the rule table of each kind of group.

`OrderDesk` is the composition. The caller keeps `Order` values (`order`, by cell) and
groups that point to them, so that an edit after grouping changes what the group sends,
and a value may sit in two groups or twice in one. A call has two steps, since `prepare`
has written to the caller's values (`WriteBack`) whether or not the server then accepts:
preparing ends in a refusal, or in `call.body`, the request. `want` is what the caller
itself wrote; `OnlyDerivedIsStale` compares what is sent with a fresh preparation of
`want`. Where the caller edits a field after `prepare` derived another from it, the two
differ: a leg keeps the old quantity, the entrust type is of the old way of sizing. Such
fields are in `loose`, which the property excepts: it bounds the damage. That there is any
contradicts "a corrected Order may be resent as is", which run `order_desk_corrected`
refutes. `NameGroup` is a caller that writes a group ID of its own of a wrong length, which
`SendGroup` refuses before it looks at the group's kind.

`Prepare` states what the loop of a batch or a group leaves behind, not the loop: the
orders up to the first bad one are prepared. An order that the list names twice is
prepared once there and twice in the code; the second time changes nothing
(`OrderLemmas!PreparedTwice`, `ValidTwice`), so the two agree. A string field is open, as
it is in the code: any value may be one Webull added later.

### Pure functions

`Backoff`, `ApiErrors`, `Signing`, `ClientConfig`, `Queries`, `Decoding`, `Messages` and
`TradeEvents` have operators and no variables. Each abstracts its data to what decides
the outcome: a JSON scalar is its form (missing, null, empty, number, text, structure)
and what it denotes; a protobuf payload is whole or not, with text fields that parse or
do not; a query is a set of pairs; a signature is the canonical form it covers. `Backoff`
keeps the width of a Duration: products wrap, and a float64 that does not fit converts to
either extreme, as the language leaves it open. In `Decoding` a text of eight digits
(`"compact"`) is a date to `Time` and a number to the other decoders, as in the code, and
`CreateResult` is `CreateWatchlist`, which reads an ID and no receipt. `Signing` has the
canonical form as a function of its parameters: it is written in sorted order, so the
order in which Go iterates a map cannot matter and is left out.

## 3. Runs

Runs without an error:

| Run | Instance | What it shows |
|---|---|---|
| `token_source` | 2 goroutines, 3 calls, 3 pairs, clock to 4, 1 restart, lifetimes 2 and 3, leeway 1 | `SingleFlight`; `ConsumedNeverPresented` (also after a failed save, and after a restart if the save succeeded); `JoinsOpenCall`: failures do not stick; `StoreNeverRegresses`; `MonotonicReads`, across a restart; `NobodyAbandoned`: whoever waits can be woken; `EveryCallReturns` |
| `doer` | one read, one write, 3 attempts; bounded arguments of the pure functions | a write is executed at most once and never after it was refused, success was executed, a cancelled backoff keeps the error it was retrying for, `Do` implements `Exchange`, `Do` returns. And: `DelaysAreSound`, `ErrorsAreClassified`, `SignatureVerifies`, `RequestsAreAsAsked`, `AnswersAreRead` |
| `event_stream` | 2 concurrent `Close`s, budget 2, 5 connections, 3 `Recv`s; event payloads alike but for one field | no leak, one connection at a time, gives up after exactly the budget, refusals are not retried, `Close` ends `Recv`; `EventsAreWhole` |
| `streaming` | subscriptions: 2 symbols, 2 options, 3 POSTs, 2 lost connections; buffer: capacity 2, 6 messages, 1 garbled, 2 failed replays; payloads of every topic alike but for some fields | outside `doubt` no replay revives what was cancelled and replays restore everything; every handler ends (`EveryReplayEnds`). All losses are counted, the newest survive, `Close` ends `Recv`, `Recv` and `enqueue` implement `Feed`; `MessagesAreWhole` |
| `trade` | values: 2 cells; a plain, a by-cash, an option, a futures and an order with a wrong ID, and a closing order; 2 edits or groups, 2 calls. Group: a bracket (3 orders), 3 placements, 2 cancellations | `OneOrderPerValue`, `OnlyDerivedIsStale`, `PreviewedIsPlaced`, `SentIsDocumented`, `GroupIsDocumented`; a group is placed once, a successful cancellation leaves nothing working |

A pure function has no state, so that what it does in one state it does in all. The
properties about them (`Unsent => ...` in `MCDoer`, `dials = 0 => ...` in
`MCEventStream`, the state after the first message in `MCMessageQueue`) are evaluated in a few
states at the start instead of in every state, and fail there if any of the bounded arguments gives a wrong result.

* `DelaysAreSound`: nine settings of base and cap around zero, one and the limit, 14
  attempts, 201 values of the header: the delay is positive, capped and never shrinks,
  and the header's seconds are kept.
* `ErrorsAreClassified`: statuses 300 to 599, bodies JSON or not and cut off or not, with
  each field a text, another type or missing: the classes agree with what is retried; a
  code that came beside a field of the wrong type is the one the error is classified by; a
  code that was lost, or cut off, leaves an error of no named outcome, never a duplicate
  or an order that is gone.
* `SignatureVerifies`: a query key and authorizer headers that collide with a signature
  header: the server computes from what is sent what was signed.
* `RequestsAreAsAsked`: all overrides of hosts in both environments: a client, whose map
  of overrides is a clone of the caller's, stays where it was built and the sandbox stays apart, every write uses a method that `Do` does not
  repeat, and the flags and categories of a query are honoured.
* `AnswersAreRead`: scalars in every form, lists in both shapes, receipts in every shape,
  token responses: a field left out is nothing, the decoders of numbers agree, a change of
  a watchlist is done only if its receipt says so, an ID that `CreateWatchlist` returns is
  the body's, and a token that was just issued is usable.
* `EventsAreWhole`, `MessagesAreWhole`: decoding gives a whole typed value or none, with
  the payload kept, and never a number for what is not one.

Runs that refute a sentence of the repository, each with the counterexample TLC finds:

| Run | Sentence | What the code does |
|---|---|---|
| `token_source_expired` | `connect/client.go:20`: `ErrRefreshExpired` means the user must authorize again | the cached pair's expiry is judged before `inflight` is looked at; a caller can get the error while the refresh in flight already holds the successor |
| `token_reauth` | `connect/client.go:58`: a possibly newer pair in the store is never overwritten with a stale one | the leader saves what it refreshed without looking at the store, over the pair of a new authorization |
| `event_stream_terminal` | `events/client.go:241`: terminal failures end the stream | `Recv` returns the error and changes nothing; the next `Recv` reads from the same rpc or dials with a new budget |
| `market_stream_limit` | `streaming/client.go:118`: a request holds up to 100 symbols | the replay joins subscriptions of several requests into one. The instance has the limit 1 and two subscriptions |
| `combo_orders_late` | `trade/combos.go:320`: the goal is that nothing is left working | `CancelCombo` takes NOT_FOUND for "gone", also when the placement is still on its way. The same holds with the proviso `settled` (`NothingLeftWorking`, run `trade`) |
| `message_queue_dropped` | `streaming/stream.go:135`: `Dropped` counts messages discarded because the queue was full or a payload failed to decode | line 221 counts a failed request of a replay too; in the run before any message has arrived |
| `order_desk_corrected` | `trade/orders.go:222`, `trade/doc.go:38`: a corrected Order may be resent as is | `prepare` wrote the quantity into the option leg of the caller's value; after a correction of the order's quantity the leg is sent with the old one |

Two more sentences disagree with the code and have no run of their own, because one call
of one function shows each:

* `errors.go:115`: `Temporary` "never reports true for a client error". Line 120 reports
  true for 429, and `errors_test.go` expects that. `StatusesAgree` states what the code
  and the test do, and `ApiErrors` notes the comment.
* `marketdata/watchlists.go:13`: `ErrWatchlistFailed` "is returned when Webull answers a
  watchlist mutation with HTTP 200 but reports it unsuccessful". `CreateWatchlist` (line
  38) never returns it: to `{"success": false}` it returns an empty ID and no error.
  `ReceiptIsExplicit` states this, and that an ID it does return is the body's.

### Bounds, and why they are enough

Every bound is a CONSTANT that a guard names.

* `MaxCalls = 3` with two callers: a leader, a waiter and a call after both, which is
  what joining a finished refresh or leading beside a running one takes. `MaxPairs = 3`:
  a first pair and two rotations, so that a consumed pair can be older than the previous
  one. `MaxTime = 4` with `AccessLife = 2`, `RefreshLife = 3`, `Leeway = 1`: a pair is
  fresh, within the leeway, past it and past its refresh life, and its successor lapses
  too. `Bare = {1}`: the first pair has no access token. `MaxRestarts = 1`. In `TokenReauth` two calls suffice for the counterexample.
* `MaxAttempts = 3` is the default policy: a first, a middle and a last attempt.
* `MaxReconnectAttempts = 2` with `MaxConns = 5`: a first connection, the two of a
  budget, a renewal and another. `MaxRecvs = 3`: a `Recv` after a terminal one and one
  more. `Closers` are two, to run `Close` concurrently with itself.
* `MaxPosts = 3` and `MaxDrops = 2`: a subscription, a change or cancellation of it and a
  replay, or a subscription with two replays, of which the second starts before the first
  ends. `MaxSymbols` is 2, no restriction, in `streaming`, and 1 in the limit run.
* `MaxEdits = 2` and `MaxCalls = 2`: build a group and edit one of its orders, then
  preview and place, or place, correct and place again. Every hazard of a value that is
  kept is between two calls, and every kind of call can be first or second.
* `MaxDuration = 1023` in tenths of a second, `DefaultBase = 2`, `DefaultMax = 20`: the
  limit of a Duration is scaled down, so that doubling overflows at the tenth attempt. The
  theorems about `Backoff` in `DoerProofs` hold for the real limit.
* `QueueSize = 2`, `MaxMessages = 6`: the queue fills, evicts and empties three times;
  `MaxGarbled = 1` and `MaxUnreplayed = 2` add the other two sources of the counter.
* `MaxPlaces = 3`, `MaxCancels = 2`: an unknown placement, one again, one more;
  cancelling before and after.

Deadlock is not checked (`CHECK_DEADLOCK FALSE`): when the calls of a bound are used up
and have returned, or the application has closed its stream, the system rightly stops.
Goroutines that are stuck in a call are what the liveness properties are about.

### Fairness

Each is weak fairness of the steps that a goroutine takes by itself, and no more.

* `TokenSource`: whoever is inside `valid()` goes on. The POST ends by the HTTP client's
  timeout, and `Load` and `Save` of the application's store are assumed to return; a
  `sync.Mutex` starves nobody. Neither the endpoint's answer nor a context's end is
  assumed.
* `Doer`: an attempt ends by the HTTP client's timeout and a backoff by its timer. The
  default client has 30 s; a client that the application supplies keeps its own timeout,
  and with none `EveryDoReturns` would need the context or the server. No answer of the
  server is assumed.
* `EventStream`: the receiver goes on, a `Close` that cancelled ends, and gRPC ends what
  waits on a context that is done (`WF_vars(done /\ Hears)`). A silent server may leave
  `Recv` waiting until then: the rpc has no deadline.
* `MarketStream`: a call that holds `subMu` ends, as its POST has a timeout. The handler
  that waits for `subMu` gets it in the end (`SF_vars(StartReplay)`): a Go mutex hands
  itself to a waiter after 1 ms. The broker need not answer.
* `MessageQueue`: both goroutines go on. Of the ready cases of `Recv`'s select, any is
  taken.

### What is external

Modelled from how the code uses it: the token endpoint rotates a pair once and refuses a
refresh token that is not the newest; the API executes or refuses each copy of a request
independently; the broker forgets a clean session when its connection drops and refuses
HTTP calls without one; paho starts the `OnConnect` handler in a goroutine after every
connect; a gRPC stream that ended keeps returning its error; the order server treats a
client order ID it has seen as a duplicate.

## 4. Mutants

Each property of each passing run has at least one mutant: a definition replaced by a
faulty variant that a plausible bug would give, such as publishing a refreshed pair before
it is saved, leading beside a refresh in flight, retrying a lost write, forgetting to look
for a concurrent `Close`, replaying without `subMu`, dropping the newest message, placing
again under fresh IDs, capping a delay without looking at its sign, stopping a cancellation at the first order
that is gone, stripping the preview
fields from the caller's own value, or reading a malformed number as zero. TLC finds the
property violated under the same configuration. A property that is a conjunction of
several claims has a mutant for each that matters (`RequestsAreAsAsked` has six).

## 5. Proofs

All proofs hold for every value of the constants that the modules' assumptions allow. The
assumptions are type facts: bounds are naturals, reads are requests, callers are not the
lock's "nobody", a group has an order, a Duration's limit, second and defaults are
positive, and the caller's orders are values of the type `Order`. TLC evaluates each on
every run of its module.

Each of the seven state machines has one inductive invariant `IInv` (`Inv` for
`OrderDesk`), a conjunction of named parts, and the theorems follow from it. It was
checked with TLC on the instances of section 3 before it was proved.

### TokenSourceProofs

`WellFormed` strengthens `TypeOK`: goroutines inside `valid()` are in different calls, and
a granted, refreshed or saved pair is a pair. With it `TypeCorrect` follows.

`Core` is the rest of the inductive invariant, with `IInv == WellFormed /\ Core`:

* `InflightIsLeader`: `inflight` names the one goroutine between taking a refresh and
  settling it. `SingleFlight` says less and is not inductive: without the link to
  `inflight`, nothing stops a second leader.
* `LockHeld`: who loads holds the lock, and there is no pair in memory.
* `LeaderOpen`: `done` is open until its leader closes it.
* `Rotation`: the refresh in flight presents the pair in memory, what it brings back is
  the next pair, and the store is not ahead of memory except between saving and settling.
  `StoreNeverRegresses` needs all of it: a leader's save is of `tok + 1`, and the store
  is at most `tok`.

Each action that moves a goroutine preserves `Core` by the same argument for the others:
lemmas about bystanders (steps that touch neither the refresh nor the pair) and about
there being one refreshing goroutine are stated once. The theorems are `TypeCorrect`,
`RefreshIsSingleFlight`, `JoinsOnlyOpenCalls` and `StoredPairOnlyAdvances`.

`NobodyWaitsInVain` is the part of `EveryCallReturns` that is a matter of safety:
`NobodyAbandoned` says that the refresh a goroutine waits on is done or still driven by a
leader who has a step of its own, and that the lock is held across `Load` by a goroutine
that is in `Load`. Over `IInv` it is inductive: a goroutine joins only while there is a
leader (`InflightIsLeader`), a leader stays one until it closes `done`, and a call that is
reset is led by the goroutine that resets it (`WaitersKept`, `NextNobodyAbandoned`).

Two more properties relate a step to what happened before it. They have invariants of
their own, over `IInv`.

`Consumed`: what came back is the successor of what was presented; once saved it is not
ahead of the store, and while the process lives it is in memory or with the leader that is
about to put it there. When a refresh begins there is no leader, so the pair it presents
is no older: `ConsumedTokensStayConsumed`.

`Fresh` is why the store that a failed save left behind does no harm after a restart:

* `Outdated`: a pair that was presented, or is not the endpoint's newest, is not valid any
  more. So a pair that `valid()` returns from memory is the newest there is.
* `GrantedIsNewest`: what the refresh in flight was granted is the newest pair and has not
  been presented. Without it, an orphaned request of a process that died could move the
  endpoint past it, and receiving it could make an old pair valid again (`created` is set on
  receipt).
* `SeenBounds`, `Awaited`: what has come back for a goroutine, as a leader or a waiter, is
  no older than what had been seen when it called.

`TokensNeverGoBack` follows: a pair that is returned is the endpoint's newest, or the
outcome of the refresh the goroutine led or joined.

### DoerProofs

`IInv` adds to the types where the copies can be: a write stays in its first attempt with
one copy, unsent, on its way or answered, and one that was answered with a refusal was
not executed (`OneCopy`); a copy on its way and an attempt not yet sent have no answer
(`Unanswered`); an accepting answer means that the server executed the request
(`AnsweredAfterExecution`); and what a call reports rests on the answer to its last
attempt (`ReportsAnswer`). `WriteAtMostOnce` alone is not inductive: without the link to
`attempt` and `pc` a second copy could be sent. Theorems: `TypeCorrect`,
`WritesExecuteAtMostOnce`, `RefusedWritesNeverExecute`, `SuccessMeansExecuted`, and
`DoImplementsExchange`, the refinement: initial states map to initial states and each
step to `Execute`, to `Report` or to a stutter. `BackoffKeepsFailure` has an invariant of
its own, `WaitsAfterFailure`: whoever waits has the failure in `lastErr`.

The functions that prepare a request and read its answer keep nothing, so what is proved
of them holds in every state. Each is stated for all its arguments, and then, as the
invariant of `MCDoer`, for those the run tries:

* Errors: `EveryStatusAgrees` for every integer status, `EveryCodeDecides` for every body
  and operation; `ErrorsClassified`.
* Queries: `EveryCompletedHonoured` and `EveryAssetFixed` for every call. Configuration:
  `EveryClientStays`, `EverySandboxIsolated`, `EveryRequestCarriesToken` for every set of
  configurations. `RequestsAsked`.
* Answers: `EveryScalarRead`, `EveryListAgrees`, `EveryReceiptExplicit`,
  `EveryFreshTokenUsable`, whatever is read; `AnswersRead`. A receipt needs the premises
  that a body in the form of a boolean holds one and that a member is there once, a token
  that its lives are integers.
* Signature: `EverySignatureVerifies` for any requests, also with query keys that collide
  with a header, and any authorizer that sets none of the client's own three headers;
  `SignaturesVerify`.
* Delays: `DelaysAreBounded`, `DelaysNeverShrink` and `RetryAfterIsKept`, for every
  setting, attempt and limit of a Duration; `DelaysSound`. The first needs nothing about
  the product: whatever the conversion gives is a Duration, and `Capped` bounds those. The
  second does: up to the overflow the delay is the doubled base, from there on the cap
  (`DelayOf`), and a power of two is half the next.

The delays need an induction over the powers of two, for which the library's theorems
cannot be used (section "What is only model-checked"). They are counted instead: `2^n` is
the number of subsets of `1..n`, and adding an element pairs each with another
(`PowersDouble`).

### EventStreamProofs

* `Located`: the receiver reads from, and `connect` works on, a connection there is.
* `Owned`: `NoLeak`, and while `connect` runs the Stream has no connection; that a `Close`
  has begun means `done`, which rules `Publish` out. `NoLeak` alone does not survive
  `Publish`, and `OneConnection` needs that the old one is dropped before the dial.
* `Charged`: `failed` and `failures` differ by the attempt under way, by the mode that
  called `connect`. `GivesUpAtBudget` speaks of the end only.
* `Refused`: the Recv that was refused has returned, so that later connections are of
  later Recvs.

Each part is preserved by a lemma with one step per action. Theorems: `TypeCorrect`,
`NothingLeaks`, `HoldsOneConnection`, `GivesUpExactlyAtBudget`, `RefusalsEndRecv`.

Of the functions: `MaskAsksForUnion`, for every list of event types, which argues over the
eight values of the mask bit by bit (`BitsOfSum`), `EventKeepsPayload`, for every kind,
content type and payload, and with both `EventsKept`.

### MarketStreamProofs

* `Locked`: there is a request only while somebody holds `subMu`, a replay is one of the
  handlers, and there is at most one handler more than connections were lost.
* `Confined`: what a late POST can change is in doubt, and nothing that the current POST
  will clear. This is what makes `doubt` mean what the properties take it to mean.
* `Replaying`: a replay sends what is remembered, which nobody changes meanwhile.
* `Follows`: outside `doubt`, the broker streams nothing, or what is remembered, or what a
  call has just asked for.
* `Restored`: it is not nothing while the connection stays up, except for what the replay
  has still to send. "Stays up" is `Quiet`: connected, with no handler waiting.

Both theorems except the keys in `doubt`: of a key one of whose POSTs may still arrive they
say nothing. `ForgottenIsNotRevived` follows from `Follows`, `ReplaysRestore` from `Restored`; neither
property is inductive, as both say nothing about a POST that was executed and not yet
answered.

### MessageQueueProofs

* `AllCounted`: the equation of `Accounted`, failed replays included, in every step of `enqueue`, with the message
  under way, and the evicted one before it is counted; and that after an eviction there is
  room until the second send (`RoomMade`), as nobody else fills the queue.
* `UnbrokenRun`: the queue is the run up to the newest message sent, also while the next is
  under way.

Theorems, for any capacity: `TypeCorrect`, `EveryMessageAccounted`, `NewestMessagesKept`.

`QueueImplementsFeed` is the refinement: the initial states of `MessageQueue` are initial
states of `Feed`, and a lemma for each action shows which step of `Feed` it takes
(`JoinStep`, `LoseStep`, `ReadStep`, `SpoilStep`, `OwnStep`) or that it takes none. The
invariant is needed twice: `UnbrokenRun` makes the message that leaves the queue the
oldest one held, and `RoomMade` makes the second send succeed.
`MessagesReadInOrder` is proved from the steps of `Feed` alone: `Recv` returns messages in
the order they arrived, none twice and none that is still held.

Of `decode`, for every payload: `TypeTellsField`, the field that is set is the one the type
names; `NumbersAreRead`, a number that does not parse is absent, never made up; and
`DepthIsKept`, an order book has as many levels as arrived, each in its place. The last
two need that a payload's books are sequences. With them `MessagesKept`.

### ComboOrdersProofs

* `OneGroup`: every placement that the server has seen or will see carries the Combo's ID,
  which never changes once written. `PlacedOnce` is its consequence.
* `Answered`: an answer is to the POST under way.
* `Behind`: with no placement on its way, the orders before `CancelCombo`'s place are no
  longer open, and none becomes open again by a fill, a release or a cancellation.

Theorems, for a group of any orders: `TypeCorrect`, `ComboPlacedOnce`,
`CancelLeavesNothingWorking`.

### OrderLemmas and OrderDeskProofs

The proofs about `OrderDesk` rest on what `prepare` does to one order, for every order of
the type. `OrderLemmas` splits it into `Filled`, the defaults and the completed legs, and
the id:

* `FilledIsSettled`, `SettledIsFilled`: preparing is idempotent but for the id; hence
  `PreparedTwice`, and `ValidTwice`: preparing an order that passed does not refuse it.
* `FieldReaches`, `NumReaches`, `EditedAgrees`: which fields of the prepared order an edit
  can reach. These justify the sets that `OrderDesk` puts into `loose` edit by edit.
* `SoundIsDocumented`, `SoundHasNoNulls`, `PassedIsDocumented`: what passes the checks of
  one order, and of a group, is what the comments promise. The documented rules speak of
  order types and the like that the package lists, as the code lets others through.
* `AssignedCell`: what a constructor does to one order, whatever else it holds.

`Inv` has six parts:

* `TypeOK` and `OneOrderPerValue` are properties themselves.
* `CallOK`: the request under way is what the caller's own orders are, settled and valid,
  and a group still passes the rule of its kind. Without the link to `order`, nothing
  could be said of an answer that arrives later.
* `IdStable`: while an accepted placement's generation lasts, its id is still in its cell.
  `OneOrderPerValue` is not inductive without it: a second placement under another id would
  be accepted. `WriteBack`, before the request is sent, is what establishes it.
* `WantOK`: outside `loose`, filling in what the caller's order has become gives what
  filling in `want` gives. `OnlyDerivedIsStale` speaks of requests only, and so says nothing of an
  order between calls.
* `PreviewOK`: what was previewed is still what the order is, settled and with an id.

One lemma per action shows that it keeps `Inv`; the six calls share `Prepares`, what
preparing leaves. Theorems, for any orders, edits, batches, groups and bounds:
`TypeCorrect`, `OneAccepted`, `OnlyDerivedStale`, `PreviewedAlike`, `SentAsDocumented`,
`GroupAsDocumented`.

### What is only model-checked

The liveness properties (`EveryCallReturns`, `EveryDoReturns`, `CloseEndsStream`,
`EveryReplayEnds`, `CloseEndsRecv`): liveness under fairness rests on ENABLED, which is
beyond this prover. Every invariant and every action property that a passing run checks
is a theorem; of `EveryCallReturns` the part that is safety is one too
(`NobodyWaitsInVain`). The induction theorems of the library take an operator as a parameter and
cannot be used; where an induction was needed, counting stands in for it.
`Inv` and the closed form of `Prepare` were checked with TLC on the instance of
`trade` before they were proved.

## 6. Not modelled

* The fields of response types (`trade`, `marketdata`): data that nothing in the package
  decides on, including tables such as `trade/futures_units.go` and the names of most
  enumeration values. How a field is decoded is in `Decoding`.
* HMAC, hashing, escaping, sorting, UUIDs, TLS, protobuf and JSON themselves: libraries, or
  functions that the properties do not tell apart. Marshalling back of the wire types.
* The texts of errors, the user agent, the authorization URL, service URLs.
* Reading and truncating a body: I/O. That a body may be cut off is in `ApiErrors`.
* `internal/eventspb`, `internal/streampb`: generated.
* The lost response of a refresh is in `TokenSource` (`RefreshFails` after `Grant`), but
  no property claims that the client recovers: it cannot, and the user authorizes again.
* A store that blocks in `Load` under the lock. A response without a refresh lifetime is
  in `Decoding`, but nothing says what it should mean. A bearer token that lapses during
  the attempts of one request needs `TokenSource` and `Doer` composed with durations.
* `CancelOrder` has no action of its own: it is a step of `CancelCombo`, and a group of one.

## 7. Plan

What is left, in this order:

1. `BearerRetry`: `Doer` over `TokenSource` with the durations of attempts and leeway,
   which the hazard at `internal/transport/transport.go:117` needs.
2. An abstract specification of a stream of subscriptions that `MarketStream` implements,
   with `doubt` as what its users cannot know.

## 8. Running

    tlc -config Doer.cfg MCDoer
    tlc -config TokenSource.cfg MCTokenSource
    tlapm DoerProofs.tla

and likewise for the other rows of `PROJECT.json`. The longest runs take two to three
minutes on two workers.
