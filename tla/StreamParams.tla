---------------------------- MODULE StreamParams ----------------------------
(***************************************************************************)
(* The parameters of MarketStream, in a module of their own so that one    *)
(* that composes MarketStream with another part extends them.              *)
(***************************************************************************)
EXTENDS Naturals, FiniteSets

CONSTANTS
  Users,       \* goroutines that call Subscribe and Unsubscribe
  Symbols,
  Types,       \* SubscribeRequest.Types
  Options,     \* subscription values
  NoOption,    \* not subscribed
  MaxSymbols,  \* the symbols a request may hold
  MaxPosts,    \* bound: POSTs sent
  MaxDrops     \* bound: connections lost

ASSUME StreamAssumption ==
  /\ NoOption \notin Options /\ {"free", "replay"} \cap Users = {}
  /\ MaxSymbols \in Nat /\ MaxPosts \in Nat /\ MaxDrops \in Nat

=============================================================================
