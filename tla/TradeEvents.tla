----------------------------- MODULE TradeEvents -----------------------------
(***************************************************************************)
(* What events.Client subscribes to, and what decodeEvent makes of a       *)
(* business event.                                                         *)
(*                                                                         *)
(* A payload is a record: `whole` says whether it is JSON, and `fields`    *)
(* gives the scalars it has, which are those of Decoding.  A typed event   *)
(* that is absent is <<>>.                                                 *)
(***************************************************************************)
EXTENDS Decoding

Orders == 1
Positions == 2
Options == 4
Families == {Orders, Positions, Options}

\* The bits of a combination of families.
Bits(t) == {b \in Families : (t \div b) % 2 = 1}

Sum(bits) == (IF Orders \in bits THEN Orders ELSE 0)
               + (IF Positions \in bits THEN Positions ELSE 0)
               + (IF Options \in bits THEN Options ELSE 0)

\* Faulty variant of Mask: the types are added up.
AddedUp(types) ==
  LET sum[k \in 0..Len(types)] == IF k = 0 THEN 0 ELSE sum[k - 1] + types[k] IN
    IF types = <<>> THEN Sum(Families) ELSE sum[Len(types)]

\* SubscribeRequest.mask
Mask(types) ==
  IF types = <<>> THEN Sum(Families) ELSE Sum(UNION {Bits(types[k]) : k \in 1..Len(types)})

KindOrder == 1024
KindPosition == 1028
KindOption == 1032

OrderDecimals == {"qty", "filled_qty", "filled_price"}
OrderTimes == {"filled_time"}
OrderTexts == {"request_id", "account_id", "client_order_id", "order_id", "instrument_id",
               "symbol", "category", "order_status", "scene_type", "side", "order_type"}
PositionDecimals == {"quantity", "cost", "settle_amount"}
PositionTexts == {"event_name", "yes_condition", "settle_result", "settle_side"}

\* A field of type string takes a text, of which the empty one is its zero value.
String(s) ==
  CASE Blank(s) -> Nothing
    [] s.form = "text" -> Value(s.n)
    [] OTHER -> Error

\* The result of decoding a payload into the fields of a typed event.
DecodeField(f, s) ==
  CASE f \in OrderTexts \cup PositionTexts -> String(s)
    [] f \in OrderTimes -> Time(s)
    [] OTHER -> Decimal(s)
Fields(kind) ==
  IF kind = KindOrder THEN OrderTexts \cup OrderDecimals \cup OrderTimes
  ELSE PositionTexts \cup PositionDecimals

Unmarshalled(kind, payload) == [f \in Fields(kind) |-> DecodeField(f, payload.fields[f])]
Decodes(kind, payload) ==
  payload.whole /\ \A f \in Fields(kind) : Unmarshalled(kind, payload)[f] # Error

\* Faulty variant of Typed: what was decoded before an error is kept.
TypedAnyway(kind, payload) ==
  IF payload.whole THEN <<Unmarshalled(kind, payload)>> ELSE <<>>

Typed(kind, payload) == IF Decodes(kind, payload) THEN <<Unmarshalled(kind, payload)>> ELSE <<>>

JsonTypes == {"application/json", "application/json;charset=UTF-8"}

\* decodeEvent
DecodeEvent(kind, contentType, payload, requestID, ts) ==
  [kind |-> kind, payload |-> payload, requestID |-> requestID,
   time |-> IF ts = 0 THEN <<>> ELSE <<ts>>,
   order |-> IF contentType \in JsonTypes /\ kind = KindOrder THEN Typed(kind, payload) ELSE <<>>,
   position |-> IF contentType \in JsonTypes /\ kind = KindPosition THEN Typed(kind, payload)
                ELSE <<>>]

-----------------------------------------------------------------------------
(* Properties. *)

\* The server is asked for the families listed and for no other, although they
\* are repeated or combined already; for all of them if none is.
MaskIsUnion(lists) ==
  \A types \in lists :
    /\ Mask(types) \in 1..7
    /\ Bits(Mask(types)) = IF types = <<>> THEN Families
                           ELSE UNION {Bits(types[k]) : k \in 1..Len(types)}

\* Every event keeps its payload, and its typed form is the whole of it: the one
\* of its kind, with no field that failed to decode left out or at zero.
EventIsWhole(kinds, contentTypes, payloads) ==
  \A kind \in kinds, contentType \in contentTypes, payload \in payloads :
    LET ev == DecodeEvent(kind, contentType, payload, "delivery", 1) IN
      /\ ev.payload = payload /\ ev.requestID = "delivery"
      /\ ev.order # <<>> => kind = KindOrder
      /\ ev.position # <<>> => kind = KindPosition
      /\ \A typed \in {ev.order, ev.position} \ {<<>>} :
           \A f \in DOMAIN typed[1] :
             /\ typed[1][f] # Error
             /\ typed[1][f] = Nothing => Blank(payload.fields[f])

=============================================================================
