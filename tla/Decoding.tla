------------------------------ MODULE Decoding ------------------------------
(***************************************************************************)
(* How the packages read the JSON values Webull sends in several shapes:   *)
(* numbers and times as numbers, texts or nothing, lists bare or wrapped,  *)
(* receipts as a boolean or an object, and the OAuth token.                *)
(*                                                                         *)
(* A scalar is a record: `form` says how it is written ("missing" when the *)
(* field is not there), `what` what its text denotes, and n its value.     *)
(* "compact" is yyyyMMdd: eight digits that spell a date and are a number  *)
(* too, n.  Decoding gives an error, nothing (the zero value), or a value. *)
(***************************************************************************)
EXTENDS Integers, Sequences

Forms == {"missing", "null", "empty", "number", "text", "structure"}
Integral == {"integer", "compact"}
Denotes == Integral \cup {"fraction", "timestamp", "date", "garbage"}

Scalar(form, what, n) == [form |-> form, what |-> what, n |-> n]
Scalars(values) == [form : Forms, what : Denotes, n : values]

Error == [kind |-> "error"]
Nothing == [kind |-> "nothing"]
Value(n) == [kind |-> "value", n |-> n]

\* A field that is missing is never decoded and keeps its zero value.
Blank(s) == s.form \in {"missing", "null", "empty"}
Literal(s, denotes) == s.form \in {"number", "text"} /\ s.what \in denotes

\* The instant that eight digits spell: no two of them the same one.
Midnight(digits) == 100 + digits

\* Faulty variant of Decimal: shopspring's type rejects the empty text.
StrictDecimal(s) ==
  CASE s.form \in {"missing", "null"} -> Nothing
    [] Literal(s, Integral \cup {"fraction"}) -> Value(s.n)
    [] OTHER -> Error

\* Decimal and NullDecimal, for which nothing is zero and absent.
Decimal(s) ==
  CASE Blank(s) -> Nothing
    [] Literal(s, Integral \cup {"fraction"}) -> Value(s.n)
    [] OTHER -> Error

\* Time: ISO 8601 in two spellings, or a date with dashes or without, which need
\* not be quoted.
Time(s) ==
  CASE Blank(s) -> Nothing
    [] Literal(s, {"timestamp", "date"}) -> Value(s.n)
    [] Literal(s, {"compact"}) -> Value(Midnight(s.n))
    [] OTHER -> Error

\* Millis: zero counts as absent, and a fraction is refused.
Millis(s) ==
  CASE Blank(s) \/ (Literal(s, Integral) /\ s.n = 0) -> Nothing
    [] Literal(s, Integral) -> Value(s.n)
    [] OTHER -> Error

\* flexInt64
FlexInt(s) ==
  CASE Blank(s) -> Nothing
    [] Literal(s, Integral) -> Value(s.n)
    [] OTHER -> Error

Or0(d) == IF d.kind = "value" THEN d.n ELSE 0

-----------------------------------------------------------------------------
(* Lists.  A body is a bare list, an object with the fields it has, or other. *)

List(items) == [form |-> "list", items |-> items]
Object(fields) == [form |-> "object", fields |-> fields]
NullBody == [form |-> "null"]

Member(body, name) ==
  IF body.form = "object" /\ name \in DOMAIN body.fields THEN body.fields[name] ELSE <<>>

Wrapped(body, name) ==
  CASE body.form = "list" -> Value(body.items)
    [] body.form \in {"object", "null"} -> Value(Member(body, name))
    [] OTHER -> Error

\* Faulty variant of ScreenerList: wrapped like bars.
AsBars(body) == Wrapped(body, "result")

\* barsList and screenerList: bare, or under this name.
BarsList(body) == Wrapped(body, "result")
ScreenerList(body) == Wrapped(body, "data")

\* SectorsPage: a bare list is the last page.
SectorsPage(body) ==
  CASE body.form = "list" -> Value([sectors |-> body.items, key |-> <<>>])
    [] body.form \in {"object", "null"} ->
         Value([sectors |-> Member(body, "data"), key |-> Member(body, "pagination_key")])
    [] OTHER -> Error

\* Faulty variant of Succeeded: an answer that says nothing counts as done.
UnlessDenied(body) ==
  CASE body.form = "boolean" -> Value(body.value)
    [] body.form \in {"object", "null"} -> Value(Member(body, "success") # <<FALSE>>)
    [] OTHER -> Error

\* successBody: a boolean, bare or under "success"; anything else is refused.
Succeeded(body) ==
  CASE body.form = "boolean" -> Value(body.value)
    [] body.form = "object" /\ Member(body, "success") \in {<<TRUE>>, <<FALSE>>} ->
         Value(Member(body, "success") = <<TRUE>>)
    [] OTHER -> Error

\* What UpdateWatchlist and the other writes return.
WatchlistResult(body) ==
  CASE Succeeded(body) = Error -> "decode"
    [] Succeeded(body) = Value(FALSE) -> "watchlist failed"
    [] OTHER -> "done"

\* What CreateWatchlist returns: the error, and the ID the body names, which may
\* be missing; an ID of another type does not decode.
NoID == "no id"
NotText == "not a text"
CreateResult(body) ==
  IF body.form \notin {"object", "null"} \/ Member(body, "watchlist_id") = <<NotText>>
  THEN [err |-> "decode", id |-> NoID]
  ELSE [err |-> "none",
        id |-> IF Member(body, "watchlist_id") = <<>> THEN NoID
               ELSE Member(body, "watchlist_id")[1]]

-----------------------------------------------------------------------------
(* Tokens. *)

\* Faulty variant of TokenOf: a missing created_at stays the zero time.
AsSent(body, now) ==
  [createdAt |-> Or0(Time(body.created_at)),
   accessLife |-> Or0(FlexInt(body.expires_in)),
   refreshLife |-> Or0(FlexInt(body.rt_expires_in))]

\* Token.UnmarshalJSON, and the receipt time Authorizer.token fills in.
TokenOf(body, now) ==
  [createdAt |-> IF Time(body.created_at).kind = "nothing" THEN now
                 ELSE Or0(Time(body.created_at)),
   accessLife |-> Or0(FlexInt(body.expires_in)),
   refreshLife |-> Or0(FlexInt(body.rt_expires_in))]

TokenDecodes(body) ==
  /\ Time(body.created_at) # Error
  /\ FlexInt(body.expires_in) # Error /\ FlexInt(body.rt_expires_in) # Error

-----------------------------------------------------------------------------
(* Properties. *)

Decoders(s) == [decimal |-> Decimal(s), time |-> Time(s), millis |-> Millis(s), int |-> FlexInt(s)]

\* A field Webull leaves out, in any of its ways of doing so, never costs the
\* rest of the answer; and what a field cannot be is never turned into a value.
\* The decoders of numbers never read two values from one text; the only text that
\* is a time to one field and a number to another is a date without dashes.
AbsentIsNotAnError(scalars) ==
  \A s \in scalars :
    /\ \A d \in DOMAIN Decoders(s) :
         /\ Blank(s) => Decoders(s)[d] = Nothing
         /\ ~Blank(s) /\ Decoders(s)[d] = Nothing => d = "millis" /\ FlexInt(s) = Value(0)
         /\ s.form = "structure" \/ (~Blank(s) /\ s.what = "garbage") => Decoders(s)[d] = Error
    /\ \A d, e \in DOMAIN Decoders(s) \ {"time"} :
         Decoders(s)[d].kind = "value" /\ Decoders(s)[e].kind = "value"
           => Decoders(s)[d] = Decoders(s)[e]
    /\ Time(s).kind = "value" /\ Decimal(s).kind = "value" => s.what = "compact"

\* A list answer is decoded "in either of the shapes Webull uses": bare or wrapped,
\* its items are the same, and a bare list "cannot paginate".
ListShapesAgree(lists) ==
  \A items \in lists :
    /\ BarsList(List(items)) = BarsList(Object([result |-> items]))
    /\ ScreenerList(List(items)) = ScreenerList(Object([data |-> items]))
    /\ SectorsPage(List(items)) = SectorsPage(Object([data |-> items]))
    /\ SectorsPage(List(items)).n.key = <<>>

\* A change of a watchlist is reported done only on a receipt that says so: an
\* empty object, null or an error body under HTTP 200 is not a success.
\* CreateWatchlist reads no receipt, so its nil error says nothing: to a body that
\* reports failure it returns nil too, though ErrWatchlistFailed "is returned when
\* Webull answers a watchlist mutation with HTTP 200 but reports it unsuccessful".
\* What tells its caller that a watchlist exists is an ID, and only the body's.
ReceiptIsExplicit(bodies) ==
  \A body \in bodies :
    /\ WatchlistResult(body) = "done" =>
         \/ body.form = "boolean" /\ body.value
         \/ body.form = "object" /\ "success" \in DOMAIN body.fields
              /\ body.fields["success"] = <<TRUE>>
    /\ CreateResult(body).id # NoID =>
         /\ CreateResult(body).err = "none"
         /\ body.form = "object" /\ "watchlist_id" \in DOMAIN body.fields
         /\ body.fields["watchlist_id"] = <<CreateResult(body).id>>
    /\ body = Object([success |-> <<FALSE>>]) =>
         WatchlistResult(body) = "watchlist failed" /\ CreateResult(body).id = NoID

\* A pair that was just issued is neither lapsed nor terminally expired, with or
\* without created_at and however the lifetimes are written, as long as the
\* endpoint gives them.
FreshTokenIsUsable(bodies, now, leeway) ==
  \A body \in bodies :
    /\ TokenDecodes(body)
    /\ Time(body.created_at) \in {Nothing, Value(now)}
    /\ Or0(FlexInt(body.expires_in)) > leeway
    /\ Or0(FlexInt(body.rt_expires_in)) > 0
    => LET tok == TokenOf(body, now) IN
         /\ now + leeway < tok.createdAt + tok.accessLife
         /\ now < tok.createdAt + tok.refreshLife

=============================================================================
