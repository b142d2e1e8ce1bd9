---------------------------- MODULE ClientConfig ----------------------------
(***************************************************************************)
(* webull.NewClient: where the requests of a client go and what they carry, *)
(* from the configuration it was built with.  An override that is missing  *)
(* and one that is empty are the same to Config.host.                      *)
(*                                                                         *)
(* The service clients keep the host NewClient resolved; the operations of *)
(* Client itself resolve it again on every call.                           *)
(***************************************************************************)
EXTENDS Integers

\* The zero value of a string field.
Unset == ""

Services == {"trading", "marketdata", "streaming", "events"}

hosts ==
  [production |-> [trading |-> "api.webull.com", marketdata |-> "api.webull.com",
                   streaming |-> "data-api.webull.com", events |-> "events-api.webull.com"],
   sandbox |-> [trading |-> "api.sandbox.webull.com", marketdata |-> "api.sandbox.webull.com",
                streaming |-> "data-api.sandbox.webull.com",
                events |-> "events-api.sandbox.webull.com"]]

Validate(cfg) == cfg.key # Unset /\ cfg.secret # Unset /\ cfg.environment \in DOMAIN hosts

\* Faulty variant of Host: market data follows the override of the host it shares.
SharedOverride(cfg, s) ==
  CASE cfg.overrides[s] # Unset -> cfg.overrides[s]
    [] s = "marketdata" /\ cfg.overrides[s] = Unset /\ cfg.overrides["trading"] # Unset ->
         cfg.overrides["trading"]
    [] OTHER -> hosts[cfg.environment][s]

\* Config.host, of a valid configuration.
Host(cfg, s) ==
  IF cfg.overrides[s] # Unset THEN cfg.overrides[s] ELSE hosts[cfg.environment][s]

\* NewClient.  The map of overrides is cloned.
NewClient(cfg) ==
  [cfg |-> cfg,
   trade |-> Host(cfg, "trading"),
   marketData |-> Host(cfg, "marketdata"),
   events |-> [host |-> Host(cfg, "events"), token |-> cfg.token],
   streaming |-> [http |-> Host(cfg, "marketdata"), broker |-> Host(cfg, "streaming")],
   authorizer |-> cfg.token]

\* Faulty variant of OverridesOf: the client shares its caller's map.
SharedMap(client, callers) == callers

\* The overrides a running client sees while its caller's map holds `callers`.
OverridesOf(client, callers) == client.cfg.overrides

RootOperations == {"TokenCheckEnabled", "CreateAccessToken", "CheckAccessToken"}
Operations == RootOperations \cup {"trade", "marketdata", "subscribe", "stream", "events"}

\* Where an operation connects to.
Destination(client, operation, callers) ==
  CASE operation \in RootOperations ->
         Host([client.cfg EXCEPT !.overrides = OverridesOf(client, callers)], "trading")
    [] operation = "trade" -> client.trade
    [] operation = "marketdata" -> client.marketData
    [] operation = "subscribe" -> client.streaming.http
    [] operation = "stream" -> client.streaming.broker
    [] operation = "events" -> client.events.host

\* Faulty variant of SentToken: the Doer's header is the only one.
HeaderOnly(client, operation) == IF operation = "events" THEN Unset ELSE client.authorizer

\* The x-access-token of its request: the Doer's authorizer sets the header, the
\* events client its own metadata.  The broker connection is not a signed request.
SentToken(client, operation) ==
  IF operation = "events" THEN client.events.token ELSE client.authorizer

-----------------------------------------------------------------------------
(* Properties. *)

ServiceOf(operation) ==
  CASE operation \in RootOperations \cup {"trade"} -> "trading"
    [] operation \in {"marketdata", "subscribe"} -> "marketdata"
    [] operation = "stream" -> "streaming"
    [] operation = "events" -> "events"

\* A running client keeps to the hosts it was built with, in the operations that
\* resolve them again as in those that do not, whatever its caller does with the
\* map of overrides afterwards.
StaysWhereBuilt(configs) ==
  \A cfg, later \in configs : Validate(cfg) =>
    \A operation \in Operations :
      Destination(NewClient(cfg), operation, later.overrides) =
        Host(cfg, ServiceOf(operation))

\* A sandbox client reaches a production host only through an override of that
\* very service: overriding one moves no other, and an empty override none.
SandboxIsIsolated(configs) ==
  \A cfg \in configs : Validate(cfg) /\ cfg.environment = "sandbox" =>
    \A operation \in Operations :
      LET host == Destination(NewClient(cfg), operation, cfg.overrides) IN
        host # cfg.overrides[ServiceOf(operation)] =>
          /\ \E s \in Services : host = hosts["sandbox"][s]
          /\ \A s \in Services : host # hosts["production"][s]

\* "AccessToken, when set, is sent ... with every request", over gRPC too.
TokenOnEveryRequest(configs) ==
  \A cfg \in configs : Validate(cfg) =>
    \A operation \in Operations \ {"stream"} :
      SentToken(NewClient(cfg), operation) = cfg.token

=============================================================================
