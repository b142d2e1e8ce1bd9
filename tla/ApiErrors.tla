------------------------------ MODULE ApiErrors ------------------------------
(***************************************************************************)
(* What becomes of an answer that is not a success: decodeAPIError makes an *)
(* *APIError of it, APIError.Is and Temporary say what it is, and the      *)
(* service packages wrap the codes they have a name for.                   *)
(*                                                                         *)
(* A body is a record of its JSON fields, each a text, of another type, or *)
(* missing (""); `json` says whether the server sent JSON, and `cut`       *)
(* whether the body was longer than maxErrorBody and only its beginning    *)
(* kept, which is JSON no more.                                            *)
(***************************************************************************)
EXTENDS Integers

Missing == ""
WrongType == "wrong type"

Sentinels == {"authentication", "permission", "invalid", "notFound", "rateLimited", "server"}

\* APIError.Is
Is(status, sentinel) ==
  CASE sentinel = "authentication" -> status = 401
    [] sentinel = "permission" -> status = 403
    [] sentinel = "invalid" -> status \in {400, 417}
    [] sentinel = "notFound" -> status = 404
    [] sentinel = "rateLimited" -> status = 429
    [] sentinel = "server" -> status >= 500

\* Faulty variant of Temporary: throttling is left out.
ServerOnly(status) == status >= 500

Temporary(status) == status = 429 \/ status >= 500

\* RetryPolicy.retryStatus, of a request that is safe to replay.
Retried(status) == status >= 500

Whole(body) == body.json /\ ~body.cut

\* Faulty variant of Field: an error on one field discards them all.
AllOrNothing(body, name) ==
  IF Whole(body) /\ \A f \in {"error_code", "message", "error_msg"} : body.fields[f] # WrongType
    THEN body.fields[name] ELSE Missing

\* A field json.Unmarshal filled: one of another type is skipped and the rest is
\* still decoded, but nothing is taken from a text that is not JSON.
Field(body, name) ==
  IF Whole(body) /\ body.fields[name] # WrongType THEN body.fields[name] ELSE Missing

\* decodeAPIError: an application error has a code and a message, one of the
\* gateway only error_msg.
Decoded(status, body) ==
  [status |-> status,
   code |-> Field(body, "error_code"),
   message |-> IF Field(body, "message") # Missing THEN Field(body, "message")
               ELSE Field(body, "error_msg"),
   truncated |-> body.cut]

HasCode(err, codes) == err.code \in codes

DuplicateOrder == {"OPENAPI_TRADE_PLACE_ORDER_REPEAT"}
NotSubscribed == {"MARKET_DATA_NOT_SUBSCRIBED"}
\* Faulty variant of AlreadyDone: an error without a code is taken for one.
GoneOrUnreadable == {"OPENAPI_ORDER_NOT_FOUND", "OPENAPI_ORDER_CAN_NOT_BE_CANCEL", Missing}

AlreadyDone == {"OPENAPI_ORDER_NOT_FOUND", "OPENAPI_ORDER_CAN_NOT_BE_CANCEL"}

\* The name a service package gives the error: trade wraps what a placement
\* returned, marketdata everything, and CancelCombo drops an order that is gone.
Classified(operation, err) ==
  CASE operation = "place" /\ HasCode(err, DuplicateOrder) -> "duplicate order"
    [] operation = "marketdata" /\ HasCode(err, NotSubscribed) -> "not subscribed"
    [] operation = "cancelCombo" /\ HasCode(err, AlreadyDone) -> "no error"
    [] OTHER -> "error"

-----------------------------------------------------------------------------
(* Properties. *)

\* No status matches two sentinels, so a caller's order of errors.Is tests does
\* not matter; whatever Do retries is reported as temporary; and throttling is
\* temporary although Do leaves it to the caller.  (The comment on Temporary, that
\* it "never reports true for a client error", does not hold of that last one.)
StatusesAgree(statuses) ==
  \A status \in statuses :
    /\ \A s, t \in Sentinels : Is(status, s) /\ Is(status, t) => s = t
    /\ Retried(status) => Temporary(status)
    /\ Is(status, "rateLimited") => Temporary(status) /\ ~Retried(status)

\* What the error is classified by.  A code that came as a text in JSON survives
\* whatever the other fields look like, unless Truncated says that the body was cut
\* off.  A code that was lost, or never was, leaves a plain error: the answer is never
\* taken for a duplicate, a missing subscription or an order that is gone.
CodeDecides(bodies, operations) ==
  \A body \in bodies, operation \in operations :
    LET err == Decoded(417, body)
        sent == body.fields["error_code"] IN
      /\ body.json /\ ~err.truncated /\ sent # WrongType =>
           Classified(operation, err) = Classified(operation, [err EXCEPT !.code = sent])
      /\ ~body.json \/ err.truncated \/ sent \in {Missing, WrongType} =>
           Classified(operation, err) = "error"

=============================================================================
