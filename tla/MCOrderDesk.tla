---------------------------- MODULE MCOrderDesk ----------------------------
(***************************************************************************)
(* Orders for TLC: a plain limit order, one by cash with the fields left   *)
(* to their defaults, an option order whose leg has no quantity, a futures *)
(* order, one with an ID of the wrong length, and a closing order for the  *)
(* second cell, so that groups of two can be valid.                        *)
(***************************************************************************)
EXTENDS OrderDesk

Plain ==
  [EmptyOrder EXCEPT !.symbol = "X", !.side = Buy, !.type = "LIMIT",
                     !.num["quantity"] = Price(1, 0), !.num["limit"] = Price(5, 2)]

ByCash == [Plain EXCEPT !.type = "MARKET",
                        !.num = [EmptyOrder.num EXCEPT !["cash"] = Price(50, 2)]]

Option == [Plain EXCEPT !.legs = <<[EmptyLeg EXCEPT !.symbol = "X", !.contract = "C"]>>]

Trailing == [Plain EXCEPT !.instrument = "FUTURES", !.type = "TRAILING_STOP_LOSS",
                          !.trailing = "AMOUNT", !.num["step"] = Price(1, 1)]

WrongId == [Plain EXCEPT !.id = BadId]

Exit == [Plain EXCEPT !.side = Sell]

MCTemplates == <<{Plain, ByCash, Option, Trailing, WrongId}, {Exit}>>

\* One order, whose leg takes its quantity from it.
OneOption == <<{Option}>>

MCEdits == {"quantity", "null", "cash", "type", "stop", "side", "instrument", "legs",
            "ask", "id"}

MCBracketArgs == {<<1, 2, 0>>, <<1, 0, 2>>, <<0, 1, 2>>, <<0, 0, 0>>}
MCListArgs == {<<1, 2>>, <<2, 2>>, <<1, 0>>, <<2>>}

\* A new price, a change withdrawn, and a leg without its quantity.
NoChange == [num |-> [f \in ModFields |-> Unset], legs |-> <<>>]
MCChanges == {[NoChange EXCEPT !.num["limit"] = Price(6, 2), !.num["stop"] = NullDecimal(FALSE, 1, 0)],
              [NoChange EXCEPT !.legs = <<[id |-> "leg", quantity |-> Unset]>>]}

MCBatches == {<<>>, <<1, 2>>, <<2, 2>>}

=============================================================================
