----------------------------- MODULE OrderRules -----------------------------
(***************************************************************************)
(* What package trade does to one order before it is sent: Order.prepare   *)
(* fills the defaults into the caller's value and validates the result,    *)
(* validateAsset applies the rules of the asset class, forPlacement drops  *)
(* the fields only a preview takes, and the batch adds its own limits.     *)
(*                                                                         *)
(* An order is a record.  NoText is an empty string field, and any name    *)
(* the package does not list stands for a value Webull added later.  A     *)
(* NullDecimal is kept as what the code reads of it: whether it is valid,  *)
(* its payload, and how many decimal places it has.  An ID is 0 when empty *)
(* and BadId when its length is wrong.  The contract of a leg is empty     *)
(* until its strike, expiry and type are all given.  Market, the algorithm *)
(* and position fields are carried unchanged by the code and left out.     *)
(***************************************************************************)
EXTENDS Integers, Sequences

\* The zero value of a string field.
NoText == ""

Buy == "BUY"
Sell == "SELL"
Short == "SHORT"
Sides == {Buy, Sell, Short}

Types == {"MARKET", "LIMIT", "STOP_LOSS", "STOP_LOSS_LIMIT", "TRAILING_STOP_LOSS",
          "MARKET_ON_OPEN", "MARKET_ON_CLOSE", "LIMIT_ON_OPEN"}
TimesInForce == {"DAY", "GTC", "IOC", "GTD", "FOK"}
Normal == "NORMAL"
Roles == {"MASTER", "STOP_PROFIT", "STOP_LOSS", "OTO", "OCO", "OTOCO"}
EntrustTypes == {"QTY", "AMOUNT"}
Instruments == {"EQUITY", "OPTION", "FUTURES", "CRYPTO", "EVENT"}

NoId == 0
BadId == -1

NullDecimal(valid, payload, places) ==
  [valid |-> valid, payload |-> payload, places |-> places]

\* The zero NullDecimal; omitzero leaves it out of the request.
Unset == NullDecimal(FALSE, 0, 0)
Price(payload, places) == NullDecimal(TRUE, payload, places)

Clear(d) == IF d.valid THEN d ELSE Unset

\* An assigned NullDecimal that became invalid is marshalled as null.
IsNull(d) == ~d.valid /\ d # Unset

NumFields == {"quantity", "cash", "limit", "stop", "step", "ask", "bid",
              "targetVol", "maxTarget"}
PreviewFields == {"ask", "bid"}

Decimals == [valid : BOOLEAN, payload : Nat, places : Nat]

LegFields == {"side", "quantity", "instrument", "symbol", "contract"}
OrderFields == {"id", "instrument", "combo", "entrust", "session", "symbol", "side", "type",
                "tif", "expire", "num", "trailing", "outcome", "strategy", "legs"}

\* The types OrderLeg and Order.  The remaining fields are strings, and open: any
\* value can be one Webull added later.
IsLeg(leg) ==
  /\ leg = [f \in LegFields |-> leg[f]]
  /\ leg.quantity \in Decimals

IsOrder(o) ==
  /\ o = [f \in OrderFields |-> o[f]]
  /\ o.id \in Nat \cup {BadId}
  /\ o.num \in [NumFields -> Decimals]
  /\ Len(o.legs) \in Nat /\ o.legs = [k \in 1..Len(o.legs) |-> o.legs[k]]
  /\ \A k \in 1..Len(o.legs) : IsLeg(o.legs[k])

\* The zero values a caller starts from.
EmptyOrder ==
  [id |-> NoId, instrument |-> NoText, combo |-> NoText, entrust |-> NoText,
   session |-> NoText, symbol |-> NoText, side |-> NoText, type |-> NoText,
   tif |-> NoText, expire |-> NoText,
   num |-> [f \in NumFields |-> Unset],
   trailing |-> NoText, outcome |-> NoText, strategy |-> NoText, legs |-> <<>>]

EmptyLeg == [side |-> NoText, quantity |-> Unset, instrument |-> NoText, symbol |-> NoText,
             contract |-> NoText]

\* LegFromSymbol, of a symbol that has the shape and a date of the calendar or
\* not.  The whole contract comes from the symbol, the rest is the caller's.
IsOccSymbol(occ) == occ.shaped /\ occ.dated
LegFromSymbol(occ) == [EmptyLeg EXCEPT !.symbol = occ.root, !.contract = occ.contract]

-----------------------------------------------------------------------------
(* The asset classes. *)

Rule(sides, types, tifs, entrust, maxScale, outcome, combos) ==
  [sides |-> sides, types |-> types, tifs |-> tifs, entrust |-> entrust,
   maxScale |-> maxScale, outcome |-> outcome, combos |-> combos]

EquityRule == Rule(Sides, Types, TimesInForce, EntrustTypes, -1, FALSE, TRUE)

OptionRule == Rule(Sides, {"MARKET", "LIMIT", "STOP_LOSS", "STOP_LOSS_LIMIT"},
                   {"DAY", "GTC"}, {"QTY"}, 0, FALSE, TRUE)

FuturesRule == Rule({Buy, Sell}, {"MARKET", "LIMIT", "STOP_LOSS", "STOP_LOSS_LIMIT",
                                  "TRAILING_STOP_LOSS"},
                    {"DAY", "GTC"}, {"QTY"}, 0, FALSE, FALSE)

\* Faulty variant of CryptoRule: the limit on order types is forgotten.
AnyCryptoType == Rule({Buy, Sell}, Types, {"DAY", "GTC", "IOC"}, EntrustTypes, 8, FALSE, FALSE)

CryptoRule == Rule({Buy, Sell}, {"MARKET", "LIMIT", "STOP_LOSS_LIMIT"},
                   {"DAY", "GTC", "IOC"}, EntrustTypes, 8, FALSE, FALSE)

EventRule == Rule({Buy, Sell}, {"LIMIT"}, TimesInForce, {"QTY"}, 2, TRUE, FALSE)

AssetRules(i) ==
  CASE i = "EQUITY"  -> EquityRule
    [] i = "OPTION"  -> OptionRule
    [] i = "FUTURES" -> FuturesRule
    [] i = "CRYPTO"  -> CryptoRule
    [] i = "EVENT"   -> EventRule

\* A value the package does not know is forwarded for the server to judge.
Supports(known, permitted, value) == value \in known => value \in permitted

TooFine(d, maxScale) == maxScale >= 0 /\ d.valid /\ d.places > maxScale

\* A leg with no instrument yet is an option leg, the default.
WholeContracts(leg) ==
  leg.instrument \in {"OPTION", NoText} => ~TooFine(leg.quantity, 0)

AssetOK(o) ==
  o.instrument \in Instruments =>
    LET rule == AssetRules(o.instrument) IN
      /\ Supports(Sides, rule.sides, o.side)
      /\ Supports(Types, rule.types, o.type)
      /\ Supports(TimesInForce, rule.tifs, o.tif)
      /\ Supports(EntrustTypes, rule.entrust, o.entrust)
      /\ ~TooFine(o.num["quantity"], rule.maxScale)
      /\ \A k \in 1..Len(o.legs) : WholeContracts(o.legs[k])
      /\ rule.outcome <=> o.outcome # NoText
      /\ o.combo = Normal \/ rule.combos

-----------------------------------------------------------------------------
(* Order.prepare *)

Or(value, default) == IF value = NoText THEN default ELSE value

\* Faulty variant of DefaultSession: it looks at the instrument before that is
\* defaulted.
SessionBeforeInstrument(o, instrument) ==
  IF o.session = NoText /\ o.instrument = "EQUITY" THEN "CORE" ELSE o.session

DefaultInstrument(o) == Or(o.instrument, IF Len(o.legs) > 0 THEN "OPTION" ELSE "EQUITY")
DefaultEntrust(o) ==
  Or(o.entrust, IF o.num["cash"].valid /\ ~o.num["quantity"].valid THEN "AMOUNT" ELSE "QTY")
DefaultSession(o, instrument) ==
  IF o.session = NoText /\ instrument = "EQUITY" THEN "CORE" ELSE o.session

\* Faulty variant of Cleared: an assigned null is marshalled as null.
KeepNulls(num) == num

Cleared(num) == [f \in NumFields |-> Clear(num[f])]

\* The defaults of the header, with every invalid decimal reset.
Defaulted(o) ==
  [o EXCEPT !.instrument = DefaultInstrument(o), !.combo = Or(@, Normal),
            !.entrust = DefaultEntrust(o), !.session = DefaultSession(o, DefaultInstrument(o)),
            !.tif = Or(@, "DAY"), !.num = Cleared(@)]

\* The prices an order type needs.
PricesOK(o) ==
  /\ o.type \in {"LIMIT", "LIMIT_ON_OPEN", "STOP_LOSS_LIMIT"} => o.num["limit"].valid
  /\ o.type \in {"STOP_LOSS", "STOP_LOSS_LIMIT"} => o.num["stop"].valid
  /\ o.type = "TRAILING_STOP_LOSS" => o.trailing # NoText /\ o.num["step"].valid

SizeOK(o) ==
  /\ o.entrust = "QTY" => o.num["quantity"].valid
  /\ o.entrust = "AMOUNT" => o.num["cash"].valid

HeaderOK(o) ==
  /\ o.symbol # NoText /\ o.side # NoText /\ o.type # NoText
  /\ PricesOK(o) /\ SizeOK(o)
  /\ o.tif = "GTD" => o.expire # NoText

StrategyOK(o) ==
  /\ Len(o.legs) > 0
  /\ o.strategy = NoText => Len(o.legs) = 1
  /\ o.strategy = "SINGLE" => Len(o.legs) = 1
  /\ o.strategy \notin {NoText, "SINGLE"} => Len(o.legs) >= 2 /\ o.combo = Normal

\* A leg takes the side of its order, and an option leg its quantity too.
PreparedLeg(leg, o) ==
  LET instrument == Or(leg.instrument, "OPTION") IN
    [leg EXCEPT !.instrument = instrument,
                !.side = Or(@, o.side),
                !.quantity = IF instrument = "OPTION" /\ ~@.valid THEN o.num["quantity"] ELSE @]

LegOK(leg) ==
  /\ leg.instrument \in {"OPTION", "EQUITY"}
  /\ leg.symbol # NoText
  /\ leg.instrument = "OPTION" => leg.contract # NoText
  /\ leg.instrument = "EQUITY" => leg.quantity.valid

\* What prepare makes of the strategy and the legs of an option order.
WithLegs(o) ==
  IF o.instrument # "OPTION" THEN o
  ELSE [o EXCEPT !.strategy = IF @ = NoText /\ Len(o.legs) = 1 THEN "SINGLE" ELSE @,
                 !.legs = [k \in 1..Len(@) |-> PreparedLeg(@[k], o)]]

\* Faulty variant of WithId: every preparation generates an ID.
FreshEveryTime(o, fresh) == [o EXCEPT !.id = fresh]

\* A generated ID is written back into the caller's order.
WithId(o, fresh) == IF o.id = NoId THEN [o EXCEPT !.id = fresh] ELSE o

IdOK(o) == o.id # BadId

\* The caller's order after prepare, whether it is valid or not; `fresh` is the
\* ID newClientOrderID would return.
Prepared(o, fresh) ==
  LET identified == WithId(o, fresh) IN
    IF IdOK(identified) THEN WithLegs(Defaulted(identified)) ELSE identified

\* prepare returns no problem.
Valid(o) ==
  IdOK(o) /\
  LET header == Defaulted(o)
      prepared == WithLegs(header) IN
    /\ HeaderOK(header)
    /\ AssetOK(header)
    /\ header.instrument = "OPTION" =>
         /\ StrategyOK(prepared)
         /\ \A k \in 1..Len(prepared.legs) : LegOK(prepared.legs[k])

-----------------------------------------------------------------------------
(* What is sent. *)

\* Faulty variant of ForPlacement: the order is sent as it was previewed.
AsPreviewed(o) == o

ForPlacement(o) == [o EXCEPT !.num = [f \in NumFields |-> IF f \in PreviewFields THEN Unset ELSE @[f]]]

\* PlaceOrders takes plain equity orders only.
BatchOK(o) ==
  /\ o.instrument = "EQUITY" /\ o.combo = Normal
  /\ o.entrust = "QTY" /\ o.type \in {"MARKET", "LIMIT"}
  /\ o.tif = "DAY" /\ o.side # Short

ModFields == {"quantity", "limit", "stop", "step", "targetVol", "maxTarget"}

\* ReplaceOrder names a working order, and every leg by its ID and quantity.
ModificationOK(mod) ==
  /\ mod.id # NoId
  /\ \A k \in 1..Len(mod.legs) : mod.legs[k].id # NoText /\ mod.legs[k].quantity.valid

\* Faulty variant of Modification: a change that was withdrawn is sent as null.
RawModification(mod) == mod

\* What is sent of it: unset fields are left out and leave the order as it is.
Modification(mod) == [mod EXCEPT !.num = [f \in ModFields |-> Clear(@[f])]]

=============================================================================
