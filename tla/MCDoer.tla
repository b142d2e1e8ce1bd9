------------------------------- MODULE MCDoer -------------------------------
(***************************************************************************)
(* Instance of Doer for TLC: a look-up and a placement, with the method    *)
(* the package sends each with.  The functions that prepare a request and  *)
(* read its answer are checked on bounded arguments in the same run.       *)
(***************************************************************************)
EXTENDS Doer, Backoff, ApiErrors, Signing, ClientConfig, Queries, Decoding

MCRequests == {"OpenOrders", "PlaceOrder"}
IdempotentMethods == {"GET", "HEAD", "OPTIONS"}

MCReads == {op \in MCRequests : Method(op) \in IdempotentMethods}

-----------------------------------------------------------------------------
(* The functions below keep nothing: checking them before the first        *)
(* attempt is checking them in every state.                                *)

Unsent == \A r \in Requests : pc[r] = "start"

-----------------------------------------------------------------------------
(* Durations up to 1023 in units of a tenth of a second: overflow starts at *)
(* the tenth attempt, or with a base or a cap of its own.                   *)

Settings == {-1, 0, 1, 2, 3, 20, 511, 512, 1023} \cap Durations

\* RetryPolicy.backoff waits, no longer than its cap, and never less than before,
\* past every overflow; APIError.RetryAfter is the delay the header asks for.
DelaysAreSound ==
  Unsent =>
    /\ DelayBounded(Settings, Settings, 1..14)
    /\ DelayGrows(Settings, Settings, 1..14)
    /\ RetryAfterIsWhatWasAsked(0..200)

-----------------------------------------------------------------------------
(* Every status, and bodies with each field a text, missing or of another  *)
(* type, JSON or not, cut off or not.                                      *)

Codes == {Missing, WrongType, "OPENAPI_TRADE_PLACE_ORDER_REPEAT", "OPENAPI_ORDER_NOT_FOUND",
          "MARKET_DATA_NOT_SUBSCRIBED"}
Texts == {Missing, WrongType, "text"}
ErrorBodies ==
  {[json |-> w, cut |-> t, fields |-> [error_code |-> c, message |-> m, error_msg |-> g]] :
     w \in BOOLEAN, t \in BOOLEAN, c \in Codes, m \in Texts, g \in Texts}

\* APIError.Is, Temporary and the retries of Do agree on every status, and an error
\* is classified by the code the server sent or, if decodeAPIError could not read
\* it, as none of the outcomes that have a name.
ErrorsAreClassified ==
  Unsent =>
    /\ StatusesAgree(300..599)
    /\ CodeDecides(ErrorBodies, {"place", "marketdata", "cancelCombo", "other"})

-----------------------------------------------------------------------------
(* A query key that collides with a signature header, and authorizer       *)
(* headers that collide with one.                                          *)

SignedRequests ==
  [host : {"h"}, path : {Empty, "/p"}, body : {Empty, "b"},
   query : [{"symbols", "x-timestamp"} -> {<<>>, <<"a">>, <<"a", "b">>}]]
AuthHeaders == {[k \in ks |-> <<"t">>] : ks \in SUBSET {"x-access-token", "x-signature-nonce"}}

\* What attempt signs is what the server reads from what it sends, and the token
\* arrives with it.
SignatureVerifies == Unsent => Verifies(SignedRequests, AuthHeaders)

-----------------------------------------------------------------------------
(* Any service overridden or not, in both environments.                    *)

Configs ==
  {[key |-> "k", secret |-> s, environment |-> e, token |-> t, overrides |-> o] :
     s \in {Unset, "s"}, e \in {"sandbox", "production"}, t \in {Unset, "t"},
     o \in [Services -> {Unset, "proxy.local"}]}

-----------------------------------------------------------------------------
(* Calls that leave the list of symbols and the category out or give them. *)

Calls ==
  {[set |-> [k \in ks |-> "US_ETF"], flags |-> fs] :
     ks \in SUBSET {"symbols", "category"}, fs \in SUBSET {"completed", "overnight", "extendedHours"}}

\* A request goes where NewClient resolved it to, with the token it was given, by
\* a method fit for what it does, and asks for what its arguments say.
RequestsAreAsAsked ==
  Unsent =>
    /\ StaysWhereBuilt({c \in Configs : c.token = Unset})
    /\ SandboxIsIsolated(Configs)
    /\ TokenOnEveryRequest(Configs)
    /\ \A op \in Effects : Method(op) \notin IdempotentMethods
    /\ CompletedIsHonoured(Calls)
    /\ AssetIsFixed(Calls)

-----------------------------------------------------------------------------
(* Scalars in every form, receipts in every shape, tokens issued at 20.    *)

AnyScalar == Scalars({0, 5, 7})
Created == {Scalar(f, w, 20) : f \in Forms, w \in Denotes}
Lives == {Scalar(f, w, n) : f \in Forms, w \in {"integer", "garbage"}, n \in {0, 7}}

Receipts ==
  {[form |-> "boolean", value |-> b] : b \in BOOLEAN}
    \cup {Object([success |-> <<v>>]) : v \in {TRUE, FALSE}}
    \cup {Object([watchlist_id |-> <<v>>]) : v \in {"w", NotText}}
    \cup {Object([error_code |-> <<"no">>]), NullBody, List(<<>>)}

\* The wire types read a field left out as nothing, the list types both shapes of
\* a list alike, successBody nothing but a receipt as one, and CreateWatchlist no
\* ID but the body's; a token that was just issued is usable.
AnswersAreRead ==
  Unsent =>
    /\ AbsentIsNotAnError(AnyScalar)
    /\ ListShapesAgree({<<>>, <<"a">>, <<"a", "b">>})
    /\ ReceiptIsExplicit(Receipts)
    /\ FreshTokenIsUsable([created_at : Created, expires_in : Lives, rt_expires_in : Lives], 20, 1)

=============================================================================
