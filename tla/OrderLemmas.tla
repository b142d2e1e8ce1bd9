---------------------------- MODULE OrderLemmas ----------------------------
(***************************************************************************)
(* Lemmas about the operators of OrderDesk: what prepare makes of an       *)
(* order, what is sent of it, what a group holds, what an edit of the      *)
(* caller's reaches, and how a fresh order is chosen.                      *)
(***************************************************************************)
EXTENDS OrderDesk, FiniteSetTheorems, TLAPS

(***************************************************************************)
(* What prepare makes of one order.                                        *)
(***************************************************************************)

\* The order once its defaults are filled in and its legs completed.
Filled(o) == WithLegs(Defaulted(o))

\* A cleared decimal is one and carries no explicit null.
LEMMA ClearType ==
  ASSUME NEW d \in Decimals
  PROVE  /\ Clear(d) \in Decimals /\ Clear(d).valid = d.valid
         /\ ~IsNull(Clear(d)) /\ Clear(Clear(d)) = Clear(d)
  BY DEF Clear, Decimals, Unset, NullDecimal, IsNull

\* Clearing the decimals once is enough, and leaves no explicit null.
LEMMA ClearedType ==
  ASSUME NEW num \in [NumFields -> Decimals]
  PROVE  /\ Cleared(num) \in [NumFields -> Decimals]
         /\ Cleared(Cleared(num)) = Cleared(num)
         /\ \A f \in NumFields : /\ Cleared(num)[f] = Clear(num[f])
                                 /\ Cleared(num)[f].valid = num[f].valid
                                 /\ ~IsNull(Cleared(num)[f])
  BY ClearType DEF Cleared

\* The decimals the proofs name.
LEMMA NumNames == {"quantity", "cash", "limit", "stop", "step", "ask", "bid"} \subseteq NumFields
  BY DEF NumFields

\* The legs of an order, as the function they are.
LEMMA LegsOf ==
  ASSUME NEW o, IsOrder(o)
  PROVE  /\ Len(o.legs) \in Nat /\ DOMAIN o.legs = 1..Len(o.legs)
         /\ o.legs = [k \in 1..Len(o.legs) |-> o.legs[k]]
         /\ \A k \in 1..Len(o.legs) : IsLeg(o.legs[k])
  BY DEF IsOrder

\* Field by field, what applyDefaults makes of an order.
LEMMA DefaultedFields ==
  ASSUME NEW o, IsOrder(o)
  PROVE  LET d == Defaulted(o) IN
         /\ IsOrder(d)
         /\ d.id = o.id /\ d.symbol = o.symbol /\ d.side = o.side /\ d.type = o.type
         /\ d.expire = o.expire /\ d.trailing = o.trailing /\ d.outcome = o.outcome
         /\ d.strategy = o.strategy /\ d.legs = o.legs
         /\ d.instrument = DefaultInstrument(o) /\ d.combo = Or(o.combo, Normal)
         /\ d.entrust = DefaultEntrust(o) /\ d.session = DefaultSession(o, DefaultInstrument(o))
         /\ d.tif = Or(o.tif, "DAY") /\ d.num = Cleared(o.num)
  <1> DEFINE i == DefaultInstrument(o)
             c == Or(o.combo, Normal)
             e == DefaultEntrust(o)
             s == DefaultSession(o, DefaultInstrument(o))
             t == Or(o.tif, "DAY")
             n == Cleared(o.num)
             d == Defaulted(o)
  <1>1. n \in [NumFields -> Decimals]
    BY ClearedType DEF IsOrder
  <1>2. d = [o EXCEPT !.instrument = i, !.combo = c, !.entrust = e, !.session = s, !.tif = t, !.num = n]
    BY DEF Defaulted
  <1> HIDE DEF i, c, e, s, t, n, d
  <1>3. o = [f \in OrderFields |-> o[f]]
    BY DEF IsOrder
  <1>4. d = [f \in OrderFields |-> d[f]]
    <2> DEFINE at(f) == IF f = "instrument" THEN i ELSE IF f = "combo" THEN c
                        ELSE IF f = "entrust" THEN e ELSE IF f = "session" THEN s
                        ELSE IF f = "tif" THEN t ELSE IF f = "num" THEN n ELSE o[f]
    <2>1. [o EXCEPT !.instrument = i, !.combo = c, !.entrust = e, !.session = s, !.tif = t, !.num = n]
            = [f \in OrderFields |-> at(f)]
      BY <1>3
    <2>2. d = [f \in OrderFields |-> at(f)]
      BY <1>2, <2>1
    <2> HIDE DEF at
    <2> QED BY <2>2
  <1>5. /\ d.id = o.id /\ d.symbol = o.symbol /\ d.side = o.side /\ d.type = o.type
        /\ d.expire = o.expire /\ d.trailing = o.trailing /\ d.outcome = o.outcome
        /\ d.strategy = o.strategy /\ d.legs = o.legs
    BY <1>2, <1>3 DEF OrderFields
  <1>6. /\ d.instrument = i /\ d.combo = c /\ d.entrust = e /\ d.session = s /\ d.tif = t /\ d.num = n
    BY <1>2, <1>3 DEF OrderFields
  <1>7. IsOrder(d)
    BY <1>1, <1>4, <1>5, <1>6 DEF IsOrder
  <1> QED BY <1>5, <1>6, <1>7 DEF i, c, e, s, t, n, d

\* Field by field, what prepare makes of a leg.
LEMMA PreparedLegType ==
  ASSUME NEW o, IsOrder(o), NEW leg, IsLeg(leg)
  PROVE  LET l == PreparedLeg(leg, o) IN
         /\ IsLeg(l)
         /\ l.symbol = leg.symbol /\ l.contract = leg.contract
         /\ l.instrument = Or(leg.instrument, "OPTION") /\ l.side = Or(leg.side, o.side)
         /\ l.quantity = IF Or(leg.instrument, "OPTION") = "OPTION" /\ ~leg.quantity.valid
                           THEN o.num["quantity"] ELSE leg.quantity
  <1> DEFINE i == Or(leg.instrument, "OPTION")
             s == Or(leg.side, o.side)
             q == IF i = "OPTION" /\ ~leg.quantity.valid THEN o.num["quantity"] ELSE leg.quantity
             l == PreparedLeg(leg, o)
  <1>1. l = [leg EXCEPT !.instrument = i, !.side = s, !.quantity = q]
    BY DEF PreparedLeg, IsLeg, LegFields
  <1>2. q \in Decimals
    BY NumNames DEF IsLeg, IsOrder
  <1> HIDE DEF i, s, q, l
  <1>3. leg = [f \in LegFields |-> leg[f]]
    BY DEF IsLeg
  <1>4. l = [f \in LegFields |-> l[f]]
    <2> DEFINE at(f) == IF f = "instrument" THEN i ELSE IF f = "side" THEN s
                        ELSE IF f = "quantity" THEN q ELSE leg[f]
    <2>1. [leg EXCEPT !.instrument = i, !.side = s, !.quantity = q] = [f \in LegFields |-> at(f)]
      BY <1>3
    <2>2. l = [f \in LegFields |-> at(f)]
      BY <1>1, <2>1
    <2> HIDE DEF at
    <2> QED BY <2>2
  <1>5. l.symbol = leg.symbol /\ l.contract = leg.contract /\ l.instrument = i /\ l.side = s /\ l.quantity = q
    BY <1>1, <1>3 DEF LegFields
  <1> QED BY <1>2, <1>4, <1>5 DEF i, s, q, l, IsLeg

\* Completing the legs changes nothing but the legs and the strategy.
LEMMA WithLegsFields ==
  ASSUME NEW o, IsOrder(o)
  PROVE  LET w == WithLegs(o) IN
         /\ IsOrder(w)
         /\ \A f \in OrderFields \ {"strategy", "legs"} : w[f] = o[f]
         /\ o.instrument = "OPTION" /\ o.strategy = NoText /\ Len(o.legs) = 1 => w.strategy = "SINGLE"
         /\ o.instrument # "OPTION" \/ o.strategy # NoText \/ Len(o.legs) # 1 => w.strategy = o.strategy
         /\ o.instrument # "OPTION" => w.legs = o.legs
         /\ o.instrument = "OPTION" => w.legs = [k \in 1..Len(o.legs) |-> PreparedLeg(o.legs[k], o)]
         /\ Len(w.legs) = Len(o.legs)
  <1> DEFINE w == WithLegs(o)
             legs == [k \in 1..Len(o.legs) |-> PreparedLeg(o.legs[k], o)]
             strategy == IF o.strategy = NoText /\ Len(o.legs) = 1 THEN "SINGLE" ELSE o.strategy
  <1>1. Len(o.legs) \in Nat /\ Len(legs) = Len(o.legs)
    BY DEF IsOrder
  <1>2. /\ legs = [k \in 1..Len(legs) |-> legs[k]]
        /\ \A k \in 1..Len(legs) : IsLeg(legs[k])
    BY <1>1, LegsOf, PreparedLegType
  <1>0. o = [f \in OrderFields |-> o[f]]
    BY DEF IsOrder
  <1>3. CASE o.instrument # "OPTION"
    BY <1>3 DEF WithLegs
  <1>4. CASE o.instrument = "OPTION"
    <2>1. w = [o EXCEPT !.strategy = strategy, !.legs = legs]
      BY <1>4 DEF WithLegs
    <2> HIDE DEF legs, strategy, w
    <2>4. w.strategy = strategy /\ w.legs = legs
      BY <2>1, <1>0 DEF OrderFields
    <2>5. \A f \in OrderFields \ {"strategy", "legs"} : w[f] = o[f]
      BY <2>1, <1>0
    <2>6. w = [f \in OrderFields |-> w[f]]
      <3> DEFINE at(f) == IF f = "strategy" THEN strategy ELSE IF f = "legs" THEN legs ELSE o[f]
      <3>1. [o EXCEPT !.strategy = strategy, !.legs = legs] = [f \in OrderFields |-> at(f)]
        BY <1>0
      <3>2. w = [f \in OrderFields |-> at(f)]
        BY <2>1, <3>1
      <3> HIDE DEF at
      <3> QED BY <3>2
    <2>7. w.id = o.id /\ w.num = o.num
      BY <2>5 DEF OrderFields
    <2>8. IsOrder(w)
      <3>1. /\ Len(w.legs) \in Nat /\ w.legs = [k \in 1..Len(w.legs) |-> w.legs[k]]
            /\ \A k \in 1..Len(w.legs) : IsLeg(w.legs[k])
        BY <1>1, <1>2, <2>4
      <3>2. w.id \in Nat \cup {BadId} /\ w.num \in [NumFields -> Decimals]
        BY <2>7 DEF IsOrder
      <3> QED BY <2>6, <3>1, <3>2 DEF IsOrder
    <2>9. Len(w.legs) = Len(o.legs)
      BY <2>4, <1>1
    <2>10. w.legs = [k \in 1..Len(o.legs) |-> PreparedLeg(o.legs[k], o)]
      BY <2>4 DEF legs
    <2>11. /\ o.strategy = NoText /\ Len(o.legs) = 1 => w.strategy = "SINGLE"
           /\ o.strategy # NoText \/ Len(o.legs) # 1 => w.strategy = o.strategy
      BY <2>4, Zenon DEF strategy
    <2> QED BY <2>5, <2>8, <2>9, <2>10, <2>11, <1>4 DEF w
  <1> QED BY <1>3, <1>4

\* No default is the empty string, so a field once filled in stays so.
LEMMA TextsDiffer ==
  /\ NoText # "EQUITY" /\ NoText # "OPTION" /\ NoText # "QTY" /\ NoText # "AMOUNT"
  /\ NoText # "DAY" /\ NoText # "CORE" /\ NoText # "SINGLE" /\ NoText # Normal
  BY Zenon DEF NoText, Normal

\* Nothing is left for prepare to fill in.
Settled(o) ==
  /\ o.instrument # NoText /\ o.combo # NoText /\ o.entrust # NoText /\ o.tif # NoText
  /\ o.instrument = "EQUITY" => o.session # NoText
  /\ Cleared(o.num) = o.num
  /\ o.instrument = "OPTION" /\ o.strategy = NoText => Len(o.legs) # 1
  /\ o.instrument = "OPTION" => \A k \in 1..Len(o.legs) : PreparedLeg(o.legs[k], o) = o.legs[k]

\* Field by field, what prepare makes of an order, its id aside.
LEMMA FilledFields ==
  ASSUME NEW o, IsOrder(o)
  PROVE  LET w == Filled(o) IN
         /\ IsOrder(w)
         /\ w.id = o.id /\ w.symbol = o.symbol /\ w.side = o.side /\ w.type = o.type
         /\ w.expire = o.expire /\ w.trailing = o.trailing /\ w.outcome = o.outcome
         /\ w.instrument = DefaultInstrument(o) /\ w.combo = Or(o.combo, Normal)
         /\ w.entrust = DefaultEntrust(o) /\ w.session = DefaultSession(o, DefaultInstrument(o))
         /\ w.tif = Or(o.tif, "DAY") /\ w.num = Cleared(o.num)
         /\ Len(w.legs) = Len(o.legs)
         /\ w.instrument = "OPTION" /\ o.strategy = NoText /\ Len(o.legs) = 1
              => w.strategy = "SINGLE"
         /\ w.instrument # "OPTION" \/ o.strategy # NoText \/ Len(o.legs) # 1
              => w.strategy = o.strategy
         /\ w.instrument # "OPTION" => w.legs = o.legs
         /\ w.instrument = "OPTION" => \A k \in 1..Len(o.legs) :
                                         w.legs[k] = PreparedLeg(o.legs[k], Defaulted(o))
  <1> DEFINE d == Defaulted(o)
             w == Filled(o)
  <1>1. /\ IsOrder(d) /\ d.strategy = o.strategy /\ d.legs = o.legs
        /\ d.instrument = DefaultInstrument(o)
    BY DefaultedFields
  <1>2. w = WithLegs(d)
    BY DEF Filled
  <1> HIDE DEF d, w
  <1>3. \A f \in OrderFields \ {"strategy", "legs"} : w[f] = d[f]
    BY <1>1, <1>2, WithLegsFields
  <1>4. /\ w.id = d.id /\ w.symbol = d.symbol /\ w.side = d.side /\ w.type = d.type
        /\ w.expire = d.expire /\ w.trailing = d.trailing /\ w.outcome = d.outcome
        /\ w.instrument = d.instrument /\ w.combo = d.combo /\ w.entrust = d.entrust
        /\ w.session = d.session /\ w.tif = d.tif /\ w.num = d.num
    BY <1>3 DEF OrderFields
  <1>5. /\ IsOrder(w) /\ Len(w.legs) = Len(d.legs)
        /\ d.instrument = "OPTION" /\ d.strategy = NoText /\ Len(d.legs) = 1 => w.strategy = "SINGLE"
        /\ d.instrument # "OPTION" \/ d.strategy # NoText \/ Len(d.legs) # 1 => w.strategy = d.strategy
        /\ d.instrument # "OPTION" => w.legs = d.legs
    BY <1>1, <1>2, WithLegsFields
  <1>6. d.instrument = "OPTION" => \A k \in 1..Len(d.legs) : w.legs[k] = PreparedLeg(d.legs[k], d)
    <2>1. d.instrument = "OPTION" => w.legs = [k \in 1..Len(d.legs) |-> PreparedLeg(d.legs[k], d)]
      BY <1>1, <1>2, WithLegsFields
    <2> QED BY <2>1
  <1>7. /\ d.id = o.id /\ d.symbol = o.symbol /\ d.side = o.side /\ d.type = o.type
        /\ d.expire = o.expire /\ d.trailing = o.trailing /\ d.outcome = o.outcome
        /\ d.instrument = DefaultInstrument(o) /\ d.combo = Or(o.combo, Normal)
        /\ d.entrust = DefaultEntrust(o) /\ d.session = DefaultSession(o, DefaultInstrument(o))
        /\ d.tif = Or(o.tif, "DAY") /\ d.num = Cleared(o.num)
    BY DefaultedFields DEF d
  <1>8. w.instrument = "OPTION" => \A k \in 1..Len(o.legs) :
                                         w.legs[k] = PreparedLeg(o.legs[k], Defaulted(o))
    BY <1>1, <1>4, <1>6 DEF d
  <1> QED BY <1>1, <1>4, <1>5, <1>7, <1>8 DEF w

\* A leg that was completed is not completed again.
LEMMA PreparedLegAgain ==
  ASSUME NEW o, IsOrder(o), NEW p, IsOrder(p), p.side = o.side, p.num = o.num,
         NEW leg, IsLeg(leg)
  PROVE  PreparedLeg(PreparedLeg(leg, o), p) = PreparedLeg(leg, o)
  <1> DEFINE l == PreparedLeg(leg, o)
             m == PreparedLeg(l, p)
  <1>1. /\ IsLeg(l)
        /\ l.symbol = leg.symbol /\ l.contract = leg.contract
        /\ l.instrument = Or(leg.instrument, "OPTION") /\ l.side = Or(leg.side, o.side)
        /\ l.quantity = IF Or(leg.instrument, "OPTION") = "OPTION" /\ ~leg.quantity.valid
                           THEN o.num["quantity"] ELSE leg.quantity
    BY PreparedLegType
  <1> HIDE DEF l
  <1>2. /\ IsLeg(m)
        /\ m.symbol = l.symbol /\ m.contract = l.contract
        /\ m.instrument = Or(l.instrument, "OPTION") /\ m.side = Or(l.side, p.side)
        /\ m.quantity = IF Or(l.instrument, "OPTION") = "OPTION" /\ ~l.quantity.valid
                           THEN p.num["quantity"] ELSE l.quantity
    BY <1>1, PreparedLegType
  <1> HIDE DEF m
  <1>3. m.instrument = l.instrument
    BY <1>1, <1>2, TextsDiffer DEF Or
  <1>4. m.side = l.side
    BY <1>1, <1>2 DEF Or
  <1>5. m.quantity = l.quantity
    BY <1>1, <1>2, <1>3
  <1>6. \A f \in LegFields : m[f] = l[f]
    BY <1>2, <1>3, <1>4, <1>5 DEF LegFields
  <1>7. m = [f \in LegFields |-> m[f]] /\ l = [f \in LegFields |-> l[f]]
    BY <1>1, <1>2 DEF IsLeg
  <1>8. m = l
    BY <1>6, <1>7
  <1> QED BY <1>8 DEF l, m

\* Preparing an order leaves nothing for prepare to fill in.
LEMMA FilledIsSettled ==
  ASSUME NEW o, IsOrder(o)
  PROVE  Settled(Filled(o))
  <1> DEFINE w == Filled(o)
             d == Defaulted(o)
  <1>1. /\ IsOrder(w) /\ w.side = o.side
        /\ w.instrument = DefaultInstrument(o) /\ w.combo = Or(o.combo, Normal)
        /\ w.entrust = DefaultEntrust(o) /\ w.session = DefaultSession(o, DefaultInstrument(o))
        /\ w.tif = Or(o.tif, "DAY") /\ w.num = Cleared(o.num)
    BY FilledFields
  <1>2. /\ w.instrument = "OPTION" /\ o.strategy = NoText /\ Len(o.legs) = 1 => w.strategy = "SINGLE"
        /\ w.instrument # "OPTION" \/ o.strategy # NoText \/ Len(o.legs) # 1 => w.strategy = o.strategy
        /\ Len(w.legs) = Len(o.legs)
        /\ w.instrument = "OPTION" => \A k \in 1..Len(o.legs) : w.legs[k] = PreparedLeg(o.legs[k], d)
    BY FilledFields
  <1>3. IsOrder(d) /\ d.side = o.side /\ d.num = Cleared(o.num)
    BY DefaultedFields
  <1> HIDE DEF w, d
  <1>4. w.instrument # NoText /\ w.combo # NoText /\ w.entrust # NoText /\ w.tif # NoText
    BY <1>1, TextsDiffer DEF DefaultInstrument, DefaultEntrust, Or
  <1>5. w.instrument = "EQUITY" => w.session # NoText
    BY <1>1, TextsDiffer DEF DefaultSession
  <1>6. Cleared(w.num) = w.num
    BY <1>1, ClearedType DEF IsOrder
  <1>7. w.instrument = "OPTION" /\ w.strategy = NoText => Len(w.legs) # 1
    BY <1>2, TextsDiffer
  <1>8. ASSUME w.instrument = "OPTION", NEW k \in 1..Len(w.legs)
        PROVE  PreparedLeg(w.legs[k], w) = w.legs[k]
    <2>1. w.legs[k] = PreparedLeg(o.legs[k], d) /\ IsLeg(o.legs[k])
      BY <1>2, <1>8, LegsOf
    <2> QED BY <2>1, <1>1, <1>3, PreparedLegAgain
  <1>9. Settled(w)
    BY <1>4, <1>5, <1>6, <1>7, <1>8 DEF Settled
  <1> QED BY <1>9 DEF w

\* The defaults of an order that has them all are its own fields.
LEMMA SettledIsDefaulted ==
  ASSUME NEW o, IsOrder(o), Settled(o)
  PROVE  Defaulted(o) = o
  <1> DEFINE d == Defaulted(o)
  <1>1. IsOrder(d) /\ d = [f \in OrderFields |-> d[f]] /\ o = [f \in OrderFields |-> o[f]]
    BY DefaultedFields DEF IsOrder
  <1>2. /\ d.id = o.id /\ d.symbol = o.symbol /\ d.side = o.side /\ d.type = o.type
        /\ d.expire = o.expire /\ d.trailing = o.trailing /\ d.outcome = o.outcome
        /\ d.strategy = o.strategy /\ d.legs = o.legs
        /\ d.instrument = DefaultInstrument(o) /\ d.combo = Or(o.combo, Normal)
        /\ d.entrust = DefaultEntrust(o) /\ d.session = DefaultSession(o, DefaultInstrument(o))
        /\ d.tif = Or(o.tif, "DAY") /\ d.num = Cleared(o.num)
    BY DefaultedFields
  <1> HIDE DEF d
  <1>3. /\ d.instrument = o.instrument /\ d.combo = o.combo /\ d.entrust = o.entrust
        /\ d.tif = o.tif
    BY <1>2 DEF Settled, DefaultInstrument, DefaultEntrust, Or
  <1>4. d.session = o.session
    BY <1>2, <1>3 DEF Settled, DefaultSession
  <1>5. d.num = o.num
    BY <1>2 DEF Settled
  <1>6. \A f \in OrderFields : d[f] = o[f]
    BY <1>2, <1>3, <1>4, <1>5 DEF OrderFields
  <1> QED BY <1>1, <1>6 DEF d

\* Preparing an order that was prepared changes nothing but, perhaps, its id.
LEMMA SettledIsFilled ==
  ASSUME NEW o, IsOrder(o), Settled(o)
  PROVE  Filled(o) = o
  <1> DEFINE w == Filled(o)
  <1>1. w = WithLegs(o)
    BY SettledIsDefaulted DEF Filled
  <1> HIDE DEF w
  <1>2. /\ IsOrder(w)
        /\ \A f \in OrderFields \ {"strategy", "legs"} : w[f] = o[f]
        /\ o.instrument # "OPTION" \/ o.strategy # NoText \/ Len(o.legs) # 1 => w.strategy = o.strategy
        /\ o.instrument # "OPTION" => w.legs = o.legs
        /\ o.instrument = "OPTION" => w.legs = [k \in 1..Len(o.legs) |-> PreparedLeg(o.legs[k], o)]
    BY <1>1, WithLegsFields
  <1>3. w.strategy = o.strategy
    BY <1>2 DEF Settled
  <1>4. w.legs = o.legs
    <2>1. CASE o.instrument # "OPTION"
      BY <2>1, <1>2
    <2>2. CASE o.instrument = "OPTION"
      <3>1. \A k \in 1..Len(o.legs) : PreparedLeg(o.legs[k], o) = o.legs[k]
        BY <2>2 DEF Settled
      <3>2. w.legs = [k \in 1..Len(o.legs) |-> o.legs[k]]
        BY <2>2, <1>2, <3>1
      <3> QED BY <3>2, LegsOf
    <2> QED BY <2>1, <2>2
  <1>5. \A f \in OrderFields : w[f] = o[f]
    BY <1>2, <1>3, <1>4
  <1>6. w = [f \in OrderFields |-> w[f]] /\ o = [f \in OrderFields |-> o[f]]
    BY <1>2 DEF IsOrder
  <1> QED BY <1>5, <1>6 DEF w

\* What each field of the filled order depends on.
LEMMA FilledSame ==
  ASSUME NEW o, IsOrder(o), NEW p, IsOrder(p)
  PROVE  LET v == Filled(o)
             w == Filled(p) IN
         /\ v.id = o.id
         /\ o.symbol = p.symbol => v.symbol = w.symbol
         /\ o.side = p.side => v.side = w.side
         /\ o.type = p.type => v.type = w.type
         /\ o.expire = p.expire => v.expire = w.expire
         /\ o.trailing = p.trailing => v.trailing = w.trailing
         /\ o.outcome = p.outcome => v.outcome = w.outcome
         /\ o.combo = p.combo => v.combo = w.combo
         /\ o.tif = p.tif => v.tif = w.tif
         /\ Cleared(o.num) = Cleared(p.num) => v.num = w.num
         /\ (/\ o.entrust = p.entrust /\ o.num["cash"].valid = p.num["cash"].valid
             /\ o.num["quantity"].valid = p.num["quantity"].valid) => v.entrust = w.entrust
         /\ o.instrument = p.instrument /\ Len(o.legs) = Len(p.legs) =>
              /\ v.instrument = w.instrument
              /\ o.session = p.session => v.session = w.session
              /\ o.strategy = p.strategy => v.strategy = w.strategy
         /\ (/\ o.instrument = p.instrument /\ o.legs = p.legs /\ o.side = p.side
             /\ Cleared(o.num)["quantity"] = Cleared(p.num)["quantity"]) => v.legs = w.legs
  <1> DEFINE v == Filled(o)
             w == Filled(p)
  <1>1. /\ v.id = o.id
        /\ o.symbol = p.symbol => v.symbol = w.symbol
        /\ o.side = p.side => v.side = w.side
        /\ o.type = p.type => v.type = w.type
        /\ o.expire = p.expire => v.expire = w.expire
        /\ o.trailing = p.trailing => v.trailing = w.trailing
        /\ o.outcome = p.outcome => v.outcome = w.outcome
        /\ o.combo = p.combo => v.combo = w.combo
        /\ o.tif = p.tif => v.tif = w.tif
        /\ Cleared(o.num) = Cleared(p.num) => v.num = w.num
    BY FilledFields
  <1>2. (/\ o.entrust = p.entrust /\ o.num["cash"].valid = p.num["cash"].valid
         /\ o.num["quantity"].valid = p.num["quantity"].valid) => v.entrust = w.entrust
    <2>1. v.entrust = DefaultEntrust(o) /\ w.entrust = DefaultEntrust(p)
      BY FilledFields
    <2> HIDE DEF v, w
    <2> QED BY <2>1 DEF DefaultEntrust
  <1>3. ASSUME o.instrument = p.instrument, Len(o.legs) = Len(p.legs)
        PROVE  /\ v.instrument = w.instrument
               /\ o.session = p.session => v.session = w.session
               /\ o.strategy = p.strategy => v.strategy = w.strategy
    <2>1. DefaultInstrument(o) = DefaultInstrument(p)
      BY <1>3 DEF DefaultInstrument
    <2>2. o.session = p.session => DefaultSession(o, DefaultInstrument(o)) = DefaultSession(p, DefaultInstrument(p))
      BY <2>1 DEF DefaultSession
    <2>3. v.instrument = w.instrument /\ (o.session = p.session => v.session = w.session)
      BY <2>1, <2>2, FilledFields
    <2>4. o.strategy = p.strategy => v.strategy = w.strategy
      BY <2>3, <1>3, FilledFields
    <2> QED BY <2>3, <2>4
  <1>4. ASSUME o.instrument = p.instrument, o.legs = p.legs, o.side = p.side,
               Cleared(o.num)["quantity"] = Cleared(p.num)["quantity"]
        PROVE  v.legs = w.legs
    <2>1. v.instrument = w.instrument
      BY <1>3, <1>4
    <2>2. CASE v.instrument # "OPTION"
      BY <2>1, <2>2, <1>4, FilledFields
    <2>3. CASE v.instrument = "OPTION"
      <3>1. \A leg : PreparedLeg(leg, Defaulted(o)) = PreparedLeg(leg, Defaulted(p))
        <4>1. /\ Defaulted(o).side = o.side /\ Defaulted(o).num = Cleared(o.num)
              /\ Defaulted(p).side = p.side /\ Defaulted(p).num = Cleared(p.num)
          BY DefaultedFields
        <4> QED BY <4>1, <1>4 DEF PreparedLeg
      <3>2. \A k \in 1..Len(o.legs) : v.legs[k] = w.legs[k]
        <4>1. \A k \in 1..Len(o.legs) : v.legs[k] = PreparedLeg(o.legs[k], Defaulted(o))
          BY <2>3, FilledFields
        <4>2. \A k \in 1..Len(p.legs) : w.legs[k] = PreparedLeg(p.legs[k], Defaulted(p))
          BY <2>1, <2>3, FilledFields
        <4> QED BY <4>1, <4>2, <3>1, <1>4
      <3>3. IsOrder(v) /\ Len(v.legs) = Len(o.legs) /\ IsOrder(w) /\ Len(w.legs) = Len(o.legs)
        BY FilledFields, <1>4
      <3>4. /\ v.legs = [k \in 1..Len(o.legs) |-> v.legs[k]]
            /\ w.legs = [k \in 1..Len(o.legs) |-> w.legs[k]]
        BY <3>3, LegsOf
      <3> QED BY <3>2, <3>4
    <2> QED BY <2>2, <2>3
  <1> QED BY <1>1, <1>2, <1>3, <1>4

\* An id is only given to an order that has none.
LEMMA WithIdFields ==
  ASSUME NEW o, IsOrder(o), NEW fresh \in Nat \ {NoId}
  PROVE  LET w == WithId(o, fresh) IN
         /\ IsOrder(w)
         /\ o.id = NoId => w.id = fresh
         /\ o.id # NoId => w = o
         /\ \A f \in OrderFields \ {"id"} : w[f] = o[f]
  <1>1. CASE o.id # NoId
    BY <1>1 DEF WithId
  <1>2. CASE o.id = NoId
    <2> DEFINE w == [o EXCEPT !.id = fresh]
    <2>1. o = [f \in OrderFields |-> o[f]]
      BY DEF IsOrder
    <2>2. w = [f \in OrderFields |-> IF f = "id" THEN fresh ELSE o[f]]
      BY <2>1
    <2> HIDE DEF w
    <2>3. w.id = fresh /\ \A f \in OrderFields \ {"id"} : w[f] = o[f]
      BY <2>2 DEF OrderFields
    <2>4. w = [f \in OrderFields |-> w[f]]
      <3> DEFINE at(f) == IF f = "id" THEN fresh ELSE o[f]
      <3>1. w = [f \in OrderFields |-> at(f)]
        BY <2>2
      <3> HIDE DEF at
      <3> QED BY <3>1
    <2>5. w.num = o.num /\ w.legs = o.legs
      BY <2>3 DEF OrderFields
    <2>6. IsOrder(w)
      BY <2>3, <2>4, <2>5 DEF IsOrder
    <2> QED BY <1>2, <2>3, <2>6 DEF WithId, w
  <1> QED BY <1>1, <1>2

\* The values of two orders that differ in nothing but the ID.
LEMMA FilledButId ==
  ASSUME NEW o, IsOrder(o), NEW p, IsOrder(p), \A f \in OrderFields \ {"id"} : p[f] = o[f]
  PROVE  \A f \in OrderFields \ {"id"} : Filled(p)[f] = Filled(o)[f]
  <1>1. /\ o.instrument = p.instrument /\ o.combo = p.combo /\ o.entrust = p.entrust
        /\ o.session = p.session /\ o.symbol = p.symbol /\ o.side = p.side /\ o.type = p.type
        /\ o.tif = p.tif /\ o.expire = p.expire /\ o.num = p.num /\ o.trailing = p.trailing
        /\ o.outcome = p.outcome /\ o.strategy = p.strategy /\ o.legs = p.legs
    BY DEF OrderFields
  <1> DEFINE v == Filled(o)
             w == Filled(p)
  <1>2. /\ v.instrument = w.instrument /\ v.combo = w.combo /\ v.entrust = w.entrust
        /\ v.session = w.session /\ v.symbol = w.symbol /\ v.side = w.side /\ v.type = w.type
        /\ v.tif = w.tif /\ v.expire = w.expire /\ v.num = w.num /\ v.trailing = w.trailing
        /\ v.outcome = w.outcome /\ v.strategy = w.strategy /\ v.legs = w.legs
    BY <1>1, FilledSame
  <1> HIDE DEF v, w
  <1>3. \A f \in OrderFields \ {"id"} : w[f] = v[f]
    BY <1>2 DEF OrderFields
  <1> QED BY <1>3 DEF v, w

\* What prepare leaves of an order: an ID of the wrong length stops it before it
\* changes anything, an ID that is there stays, and the rest is filled in.
LEMMA PreparedFields ==
  ASSUME NEW o, IsOrder(o), NEW fresh \in Nat \ {NoId}
  PROVE  LET p == Prepared(o, fresh) IN
         /\ IsOrder(p) /\ p.id # NoId
         /\ o.id = NoId => p.id = fresh
         /\ o.id # NoId => p.id = o.id
         /\ o.id = BadId => p = o
         /\ o.id # BadId => /\ Settled(p) /\ p.id # BadId
                            /\ \A f \in OrderFields \ {"id"} : p[f] = Filled(o)[f]
                            /\ p = Filled(WithId(o, fresh))
  <1> DEFINE i == WithId(o, fresh)
             p == Prepared(o, fresh)
  <1>1. /\ IsOrder(i) /\ (o.id = NoId => i.id = fresh) /\ (o.id # NoId => i = o)
        /\ \A f \in OrderFields \ {"id"} : i[f] = o[f]
    BY WithIdFields
  <1>2. p = IF i.id # BadId THEN Filled(i) ELSE i
    BY DEF Prepared, IdOK, Filled
  <1>3. \A f \in OrderFields \ {"id"} : Filled(i)[f] = Filled(o)[f]
    BY <1>1, FilledButId
  <1>4. IsOrder(Filled(i)) /\ Filled(i).id = i.id /\ Settled(Filled(i))
    BY <1>1, FilledFields, FilledIsSettled
  <1>5. NoId # BadId /\ fresh # BadId
    BY DEF NoId, BadId
  <1> HIDE DEF p, i
  <1>6. o.id = BadId => p = o
    BY <1>1, <1>2, <1>5
  <1>7. o.id # BadId => p = Filled(i)
    BY <1>1, <1>2, <1>5
  <1>8. CASE o.id = BadId
    BY <1>8, <1>6, <1>5 DEF p, i
  <1>9. CASE o.id # BadId
    <2>1. p = Filled(i) /\ p.id = i.id
      BY <1>7, <1>9, <1>4
    <2>2. p.id # NoId /\ p.id # BadId /\ (o.id = NoId => p.id = fresh) /\ (o.id # NoId => p.id = o.id)
      BY <2>1, <1>1, <1>9, <1>5
    <2>3. IsOrder(p) /\ Settled(p) /\ \A f \in OrderFields \ {"id"} : p[f] = Filled(o)[f]
      BY <2>1, <1>3, <1>4
    <2> QED BY <2>1, <2>2, <2>3, <1>9 DEF p, i
  <1> QED BY <1>8, <1>9

\* Preparing an order a second time changes nothing, whether it was valid or not,
\* and however many IDs are generated.
LEMMA PreparedTwice ==
  ASSUME NEW o, IsOrder(o), NEW fresh \in Nat \ {NoId}, NEW again \in Nat \ {NoId}
  PROVE  Prepared(Prepared(o, fresh), again) = Prepared(o, fresh)
  <1> DEFINE p == Prepared(o, fresh)
  <1>1. /\ IsOrder(p) /\ p.id # NoId /\ (o.id = BadId => p = o)
        /\ (o.id # BadId => Settled(p) /\ p.id # BadId)
    BY PreparedFields
  <1> HIDE DEF p
  <1>2. WithId(p, again) = p
    BY <1>1 DEF WithId
  <1>3. CASE p.id = BadId
    BY <1>2, <1>3 DEF Prepared, IdOK, p
  <1>4. CASE p.id # BadId
    <2>1. Settled(p)
      BY <1>1, <1>4
    <2>2. Filled(p) = p
      BY <2>1, <1>1, SettledIsFilled
    <2>3. Prepared(p, again) = p
      BY <1>2, <1>4, <2>2 DEF Prepared, IdOK, Filled
    <2> QED BY <2>3 DEF p
  <1> QED BY <1>3, <1>4

\* prepare's checks of an order that has nothing left to fill in.
Sound(o) ==
  /\ o.id # BadId /\ HeaderOK(o) /\ AssetOK(o)
  /\ o.instrument = "OPTION" => StrategyOK(o) /\ \A k \in 1..Len(o.legs) : LegOK(o.legs[k])

\* What validate accepts of a prepared order, without preparing it again.
LEMMA ValidIsSound ==
  ASSUME NEW o, IsOrder(o), Settled(o)
  PROVE  Valid(o) <=> Sound(o)
  <1>1. Defaulted(o) = o /\ WithLegs(o) = o
    BY SettledIsDefaulted, SettledIsFilled DEF Filled
  <1> QED BY <1>1 DEF Valid, Sound, IdOK

\* A leg that takes the quantity of a whole number of contracts is whole too.
LEMMA LegsStayWhole ==
  ASSUME NEW o, IsOrder(o), ~TooFine(o.num["quantity"], 0),
         NEW leg, IsLeg(leg), WholeContracts(leg)
  PROVE  WholeContracts(PreparedLeg(leg, o))
  <1> DEFINE l == PreparedLeg(leg, o)
  <1>1. /\ l.instrument = Or(leg.instrument, "OPTION")
        /\ l.quantity = IF Or(leg.instrument, "OPTION") = "OPTION" /\ ~leg.quantity.valid
                           THEN o.num["quantity"] ELSE leg.quantity
    BY PreparedLegType
  <1> HIDE DEF l
  <1>2. WholeContracts(l)
    BY <1>1, TextsDiffer DEF WholeContracts, Or
  <1> QED BY <1>2 DEF l

\* Of the legs, the header's rules read nothing and the asset's whether they are whole.
LEMMA CheckedFields ==
  ASSUME NEW o, NEW p, p.symbol = o.symbol, p.side = o.side, p.type = o.type, p.num = o.num,
         p.trailing = o.trailing, p.entrust = o.entrust, p.tif = o.tif, p.expire = o.expire,
         p.instrument = o.instrument, p.outcome = o.outcome, p.combo = o.combo
  PROVE  /\ HeaderOK(p) <=> HeaderOK(o)
         /\ AssetOK(o) /\ (\A k \in 1..Len(p.legs) : WholeContracts(p.legs[k])) => AssetOK(p)
  <1>1. HeaderOK(p) <=> HeaderOK(o)
    BY DEF HeaderOK, PricesOK, SizeOK
  <1>2. AssetOK(o) /\ (\A k \in 1..Len(p.legs) : WholeContracts(p.legs[k])) => AssetOK(p)
    BY DEF AssetOK
  <1> QED BY <1>1, <1>2

\* An order that was valid is valid when it is prepared again: together with
\* PreparedTwice, an order named twice in one call is prepared as if once.
LEMMA ValidTwice ==
  ASSUME NEW o, IsOrder(o), NEW fresh \in Nat \ {NoId}, Valid(o)
  PROVE  LET p == Prepared(o, fresh) IN
         /\ IsOrder(p) /\ Settled(p) /\ Valid(p)
         /\ p.id \in Nat \ {NoId}
  <1> DEFINE p == Prepared(o, fresh)
             d == Defaulted(o)
             w == Filled(o)
  <1>1. o.id # BadId /\ HeaderOK(d) /\ AssetOK(d)
    BY DEF Valid, IdOK
  <1>2. d.instrument = "OPTION" => StrategyOK(w) /\ \A k \in 1..Len(w.legs) : LegOK(w.legs[k])
    BY DEF Valid, Filled
  <1>3. /\ IsOrder(p) /\ Settled(p) /\ p.id # NoId /\ p.id # BadId
        /\ \A f \in OrderFields \ {"id"} : p[f] = w[f]
    BY <1>1, PreparedFields
  <1>4. IsOrder(d) /\ d.legs = o.legs
    BY DefaultedFields
  <1>5. \A f \in OrderFields \ {"strategy", "legs"} : w[f] = d[f]
    BY <1>4, WithLegsFields DEF Filled
  <1>6. /\ d.instrument # "OPTION" => w.legs = d.legs
        /\ d.instrument = "OPTION" => w.legs = [k \in 1..Len(d.legs) |-> PreparedLeg(d.legs[k], d)]
        /\ Len(w.legs) = Len(d.legs)
    BY <1>4, WithLegsFields DEF Filled
  <1> HIDE DEF p, d, w
  <1>7. /\ p.symbol = d.symbol /\ p.side = d.side /\ p.type = d.type /\ p.num = d.num
        /\ p.trailing = d.trailing /\ p.entrust = d.entrust /\ p.tif = d.tif /\ p.expire = d.expire
        /\ p.instrument = d.instrument /\ p.outcome = d.outcome /\ p.combo = d.combo
    BY <1>3, <1>5 DEF OrderFields
  <1>8. p.legs = w.legs /\ p.strategy = w.strategy /\ p.combo = w.combo
    BY <1>3 DEF OrderFields
  <1>9. d.instrument \in Instruments => \A k \in 1..Len(d.legs) : WholeContracts(d.legs[k])
    BY <1>1 DEF AssetOK
  <1>10. d.instrument = "OPTION" => ~TooFine(d.num["quantity"], 0)
    <2>1. SUFFICES ASSUME d.instrument = "OPTION" PROVE ~TooFine(d.num["quantity"], 0)
      OBVIOUS
    <2>2. AssetRules(d.instrument) = OptionRule
      BY <2>1 DEF AssetRules
    <2>3. ~TooFine(d.num["quantity"], OptionRule.maxScale)
      BY <1>1, <2>1, <2>2 DEF AssetOK, Instruments
    <2> QED BY <2>3 DEF OptionRule, Rule
  <1>11. d.instrument \in Instruments => \A k \in 1..Len(p.legs) : WholeContracts(p.legs[k])
    <2>1. CASE d.instrument # "OPTION"
      BY <2>1, <1>6, <1>8, <1>9
    <2>2. CASE d.instrument = "OPTION"
      <3>1. SUFFICES ASSUME NEW k \in 1..Len(d.legs) PROVE WholeContracts(p.legs[k])
        BY <1>6, <1>8
      <3>2. IsLeg(d.legs[k]) /\ WholeContracts(d.legs[k])
        BY <1>4, <1>9, <2>2, LegsOf DEF Instruments
      <3>3. p.legs[k] = PreparedLeg(d.legs[k], d)
        BY <1>6, <1>8, <2>2
      <3> QED BY <3>2, <3>3, <1>4, <1>10, <2>2, LegsStayWhole
    <2> QED BY <2>1, <2>2
  <1>12. HeaderOK(p)
    BY <1>1, <1>7, CheckedFields
  <1>13. AssetOK(p)
    <2>1. CASE d.instrument \in Instruments
      BY <2>1, <1>1, <1>7, <1>11, CheckedFields
    <2>2. CASE d.instrument \notin Instruments
      BY <2>2, <1>7 DEF AssetOK
    <2> QED BY <2>1, <2>2
  <1>14. p.instrument = "OPTION" => StrategyOK(p) /\ \A k \in 1..Len(p.legs) : LegOK(p.legs[k])
    BY <1>2, <1>7, <1>8 DEF StrategyOK
  <1>15. Valid(p)
    BY <1>3, <1>12, <1>13, <1>14, ValidIsSound DEF Sound
  <1>16. p.id \in Nat \ {NoId}
    BY <1>3 DEF IsOrder
  <1> QED BY <1>3, <1>15, <1>16 DEF p

(***************************************************************************)
(* What is sent.                                                           *)
(***************************************************************************)

\* What is dropped for a placement is the preview's decimals.
LEMMA ForPlacementFields ==
  ASSUME NEW o, IsOrder(o)
  PROVE  LET p == ForPlacement(o) IN
         /\ IsOrder(p)
         /\ \A f \in OrderFields \ {"num"} : p[f] = o[f]
         /\ \A f \in NumFields : p.num[f] = IF f \in PreviewFields THEN Unset ELSE o.num[f]
  <1> DEFINE num == [f \in NumFields |-> IF f \in PreviewFields THEN Unset ELSE o.num[f]]
             p == ForPlacement(o)
  <1>1. p = [o EXCEPT !.num = num]
    BY DEF ForPlacement
  <1>2. num \in [NumFields -> Decimals]
    BY DEF IsOrder, Unset, NullDecimal, Decimals
  <1>3. \A f \in NumFields : num[f] = IF f \in PreviewFields THEN Unset ELSE o.num[f]
    OBVIOUS
  <1> HIDE DEF num, p
  <1>4. o = [f \in OrderFields |-> o[f]]
    BY DEF IsOrder
  <1>5. p.num = num /\ \A f \in OrderFields \ {"num"} : p[f] = o[f]
    BY <1>1, <1>4 DEF OrderFields
  <1>6. p = [f \in OrderFields |-> p[f]]
    <2> DEFINE at(f) == IF f = "num" THEN num ELSE o[f]
    <2>1. [o EXCEPT !.num = num] = [f \in OrderFields |-> at(f)]
      BY <1>4
    <2>2. p = [f \in OrderFields |-> at(f)]
      BY <1>1, <2>1
    <2> HIDE DEF at
    <2> QED BY <2>2
  <1>7. p.id = o.id /\ p.legs = o.legs
    BY <1>5 DEF OrderFields
  <1>8. IsOrder(p)
    BY <1>2, <1>5, <1>6, <1>7 DEF IsOrder
  <1> QED BY <1>3, <1>5, <1>8 DEF p

\* A sound order is one the package documents.
LEMMA SoundIsDocumented ==
  ASSUME NEW o, IsOrder(o), Settled(o), Sound(o)
  PROVE  Documented(o)
  <1>1. HeaderOK(o) /\ AssetOK(o)
    BY DEF Sound
  <1>2. o.tif = "GTD" => o.expire # NoText
    BY <1>1 DEF HeaderOK
  <1>3. o.session = NoText => o.instrument # "EQUITY"
    BY DEF Settled
  <1>4. ASSUME o.instrument \in Instruments
        PROVE  LET rule == AssetRules(o.instrument) IN
               /\ o.type \in Types => o.type \in rule.types
               /\ o.tif \in TimesInForce => o.tif \in rule.tifs
               /\ o.entrust \in EntrustTypes => o.entrust \in rule.entrust
               /\ rule.outcome <=> o.outcome # NoText
    BY <1>1, <1>4 DEF AssetOK, Supports
  <1> DEFINE Is(known, value, promised) == value \in known => value \in promised
  <1>5. o.instrument = "EVENT" => o.outcome # NoText /\ Is(Types, o.type, {"LIMIT"})
    BY <1>4 DEF Instruments, AssetRules, EventRule, Rule
  <1>6. o.instrument = "CRYPTO" => /\ Is(Types, o.type, {"MARKET", "LIMIT", "STOP_LOSS_LIMIT"})
                                  /\ Is(TimesInForce, o.tif, {"DAY", "GTC", "IOC"})
    BY <1>4 DEF Instruments, AssetRules, CryptoRule, Rule
  <1>7. o.instrument = "OPTION" => Is(TimesInForce, o.tif, {"DAY", "GTC"})
    BY <1>4 DEF Instruments, AssetRules, OptionRule, Rule
  <1>8. o.instrument = "FUTURES" => Is(TimesInForce, o.tif, {"DAY", "GTC"})
    BY <1>4 DEF Instruments, AssetRules, FuturesRule, Rule
  <1>9. o.type = "TRAILING_STOP_LOSS" => Is(Instruments, o.instrument, {"EQUITY", "FUTURES"})
    <2>1. SUFFICES ASSUME o.type = "TRAILING_STOP_LOSS", o.instrument \in Instruments
                   PROVE  o.instrument \in {"EQUITY", "FUTURES"}
      OBVIOUS
    <2>2. o.instrument # "CRYPTO" /\ o.instrument # "EVENT"
      BY <2>1, <1>5, <1>6 DEF Types
    <2>3. o.instrument # "OPTION"
      BY <2>1, <1>4 DEF Types, AssetRules, OptionRule, Rule
    <2> QED BY <2>1, <2>2, <2>3 DEF Instruments
  <1>10. o.entrust = "AMOUNT" => Is(Instruments, o.instrument, {"EQUITY", "CRYPTO"})
    <2>1. SUFFICES ASSUME o.entrust = "AMOUNT", o.instrument \in Instruments
                   PROVE  o.instrument \in {"EQUITY", "CRYPTO"}
      OBVIOUS
    <2>2. o.instrument # "OPTION"
      BY <2>1, <1>4 DEF EntrustTypes, AssetRules, OptionRule, Rule
    <2>3. o.instrument # "FUTURES"
      BY <2>1, <1>4 DEF EntrustTypes, AssetRules, FuturesRule, Rule
    <2>4. o.instrument # "EVENT"
      BY <2>1, <1>4 DEF EntrustTypes, AssetRules, EventRule, Rule
    <2> QED BY <2>1, <2>2, <2>3, <2>4 DEF Instruments
  <1> QED BY <1>2, <1>3, <1>5, <1>6, <1>7, <1>8, <1>9, <1>10 DEF Documented

\* ... with no explicit null in it.
LEMMA SoundHasNoNulls ==
  ASSUME NEW o, IsOrder(o), Settled(o), Sound(o)
  PROVE  /\ \A f \in NumFields : ~IsNull(o.num[f])
         /\ o.instrument = "OPTION" => \A k \in 1..Len(o.legs) : ~IsNull(o.legs[k].quantity)
  <1>1. o.num \in [NumFields -> Decimals] /\ Cleared(o.num) = o.num
    BY DEF IsOrder, Settled
  <1>2. \A f \in NumFields : ~IsNull(o.num[f])
    BY <1>1, ClearedType
  <1>3. ASSUME o.instrument = "OPTION", NEW k \in 1..Len(o.legs)
        PROVE  ~IsNull(o.legs[k].quantity)
    <2> DEFINE leg == o.legs[k]
    <2>1. IsLeg(leg) /\ LegOK(leg) /\ PreparedLeg(leg, o) = leg
      BY <1>3, LegsOf DEF Sound, Settled
    <2> HIDE DEF leg
    <2>2. /\ leg.instrument = Or(leg.instrument, "OPTION")
          /\ leg.quantity = IF Or(leg.instrument, "OPTION") = "OPTION" /\ ~leg.quantity.valid
                              THEN o.num["quantity"] ELSE leg.quantity
      BY <2>1, PreparedLegType
    <2>3. CASE leg.quantity.valid
      BY <2>3 DEF IsNull, leg
    <2>4. CASE ~leg.quantity.valid
      <3>1. leg.instrument = "OPTION"
        BY <2>1, <2>4 DEF LegOK
      <3>2. leg.quantity = o.num["quantity"]
        BY <2>2, <2>4, <3>1
      <3> QED BY <3>2, <1>2, NumNames DEF leg
    <2> QED BY <2>3, <2>4
  <1> QED BY <1>2, <1>3

\* Dropping the preview fields takes nothing from that.
LEMMA PlacementIsDocumented ==
  ASSUME NEW o, IsOrder(o), Settled(o), Sound(o)
  PROVE  LET p == ForPlacement(o) IN
         /\ Documented(p)
         /\ \A f \in PreviewFields : p.num[f] = Unset
         /\ \A f \in NumFields : ~IsNull(p.num[f])
         /\ p.instrument = "OPTION" => \A k \in 1..Len(p.legs) : ~IsNull(p.legs[k].quantity)
  <1> DEFINE p == ForPlacement(o)
  <1>1. /\ \A f \in OrderFields \ {"num"} : p[f] = o[f]
        /\ \A f \in NumFields : p.num[f] = IF f \in PreviewFields THEN Unset ELSE o.num[f]
    BY ForPlacementFields
  <1> HIDE DEF p
  <1>2. /\ p.instrument = o.instrument /\ p.type = o.type /\ p.outcome = o.outcome /\ p.tif = o.tif
        /\ p.entrust = o.entrust /\ p.expire = o.expire /\ p.session = o.session /\ p.legs = o.legs
    BY <1>1 DEF OrderFields
  <1>3. Documented(o)
    BY SoundIsDocumented
  <1>4. Documented(p)
    BY <1>2, <1>3 DEF Documented
  <1>5. \A f \in PreviewFields : p.num[f] = Unset
    BY <1>1 DEF PreviewFields, NumFields
  <1>6. \A f \in NumFields : ~IsNull(p.num[f])
    <2>1. ~IsNull(Unset)
      BY DEF IsNull
    <2>2. \A f \in NumFields : ~IsNull(o.num[f])
      BY SoundHasNoNulls
    <2> QED BY <1>1, <2>1, <2>2
  <1>7. p.instrument = "OPTION" => \A k \in 1..Len(p.legs) : ~IsNull(p.legs[k].quantity)
    BY <1>2, SoundHasNoNulls
  <1> QED BY <1>4, <1>5, <1>6, <1>7 DEF p

(***************************************************************************)
(* What a group holds.                                                     *)
(***************************************************************************)

\* The members with a role can be counted.
LEMMA RolesAreFinite ==
  ASSUME NEW body, Len(body) \in Nat, NEW role
  PROVE  /\ IsFiniteSet(WithRole(body, role))
         /\ Cardinality(WithRole(body, role)) \in Nat
         /\ Cardinality(WithRole(body, role)) = 0 <=> WithRole(body, role) = {}
  <1>1. IsFiniteSet(1..Len(body))
    BY FS_Interval
  <1>2. WithRole(body, role) \subseteq 1..Len(body)
    BY DEF WithRole, Indices
  <1>3. IsFiniteSet(WithRole(body, role))
    BY <1>1, <1>2, FS_Subset
  <1> QED BY <1>3, FS_CardinalityType, FS_EmptySet

\* A set that counts at most one member has no two.
LEMMA AtMostOne ==
  ASSUME NEW S, IsFiniteSet(S), Cardinality(S) <= 1, NEW x \in S, NEW y \in S
  PROVE  x = y
  <1>1. IsFiniteSet(S \ {x}) /\ Cardinality(S \ {x}) = Cardinality(S) - 1
    BY FS_RemoveElement
  <1>2. Cardinality(S) \in Nat /\ Cardinality(S \ {x}) \in Nat
    BY <1>1, FS_CardinalityType
  <1>3. Cardinality(S \ {x}) = 0
    BY <1>1, <1>2
  <1>4. S \ {x} = {}
    BY <1>1, <1>3, FS_EmptySet
  <1> QED BY <1>4

\* The counts of a group that passed.
LEMMA GroupCounts ==
  ASSUME NEW orders, Len(orders) \in Nat, NEW kind \in Kinds, GroupOK(orders, kind)
  PROVE  LET Has(role) == Cardinality(WithRole(orders, role)) IN
         /\ kind = "STOP_PROFIT" => Has("MASTER") <= 1 /\ Has("STOP_PROFIT") <= 1 /\ Has("STOP_LOSS") <= 1
         /\ kind = "OCO" => Has("OCO") \in 2..6
         /\ kind = "OTO" => Has("MASTER") = 1 /\ Has("OTO") \in 1..6
         /\ kind = "OTOCO" => Has("MASTER") = 1 /\ Has("OTOCO") \in 1..6
  <1> DEFINE Has(role) == Cardinality(WithRole(orders, role))
  <1>1. \A role \in RolesOf(kind) : /\ ComboRules(kind, role).min <= Has(role)
                                    /\ Has(role) <= ComboRules(kind, role).max
    BY DEF GroupOK, CountsOK
  <1>2. \A role : Has(role) \in Nat
    BY RolesAreFinite
  <1> HIDE DEF Has
  <1>3. kind = "STOP_PROFIT" => Has("MASTER") <= 1 /\ Has("STOP_PROFIT") <= 1 /\ Has("STOP_LOSS") <= 1
    BY <1>1 DEF RolesOf, ComboRules, RoleRule
  <1>4. kind = "OCO" => Has("OCO") \in 2..6
    BY <1>1, <1>2 DEF RolesOf, ComboRules, RoleRule
  <1>5. kind = "OTO" => Has("MASTER") = 1 /\ Has("OTO") \in 1..6
    BY <1>1, <1>2 DEF RolesOf, ComboRules, RoleRule
  <1>6. kind = "OTOCO" => Has("MASTER") = 1 /\ Has("OTOCO") \in 1..6
    BY <1>1, <1>2 DEF RolesOf, ComboRules, RoleRule
  <1> QED BY <1>3, <1>4, <1>5, <1>6 DEF Has

\* The exits of a bracket that passed: the master that prepare looks at is the
\* only one there is.
LEMMA BracketExits ==
  ASSUME NEW orders, Len(orders) \in Nat, GroupOK(orders, "STOP_PROFIT"),
         NEW m \in 1..Len(orders), NEW x \in 1..Len(orders),
         orders[m].combo = "MASTER", orders[x].combo # "MASTER"
  PROVE  orders[x].side # orders[m].side /\ orders[x].symbol = orders[m].symbol
  <1> DEFINE masters == WithRole(orders, "MASTER")
             chosen == CHOOSE k \in masters : \A j \in masters : j <= k
  <1>1. m \in masters /\ x \in Indices(orders) \ masters
    BY DEF WithRole, Indices
  <1>2. IsFiniteSet(masters) /\ Cardinality(masters) <= 1
    BY RolesAreFinite, GroupCounts DEF Kinds
  <1>3. \A k \in masters : k = m
    BY <1>1, <1>2, AtMostOne
  <1>4. chosen = m
    <2>1. \A j \in masters : j <= m
      BY <1>3
    <2>2. chosen \in masters
      BY <2>1, <1>1
    <2> QED BY <2>2, <1>3
  <1>5. BracketOK(orders)
    BY DEF GroupOK
  <1>6. orders[x].symbol = orders[chosen].symbol /\ Opposite(orders[chosen].side, orders[x].side)
    BY <1>1, <1>5 DEF BracketOK
  <1>7. Opposite(orders[m].side, orders[x].side) /\ orders[x].symbol = orders[m].symbol
    BY <1>4, <1>6
  <1> QED BY <1>7 DEF Opposite, Buy, Sell, Short

\* A group that passed is documented, and so is what is sent of it, which differs
\* in the prices a preview takes only.
LEMMA PassedIsDocumented ==
  ASSUME NEW orders, Len(orders) \in Nat, NEW kind \in Kinds, GroupOK(orders, kind),
         NEW body, Len(body) = Len(orders),
         \A k \in 1..Len(orders) : /\ body[k].id = orders[k].id /\ body[k].combo = orders[k].combo
                                   /\ body[k].instrument = orders[k].instrument
                                   /\ body[k].side = orders[k].side /\ body[k].symbol = orders[k].symbol
                                   /\ body[k].type = orders[k].type
  PROVE  DocumentedGroup(body)
  <1> DEFINE Has(role) == Cardinality(WithRole(body, role))
             Only(roles) == \A k \in 1..Len(body) : body[k].combo \in roles
             Equities == \A k \in 1..Len(body) : body[k].instrument = "EQUITY"
  <1>1. \A role : WithRole(body, role) = WithRole(orders, role)
    BY DEF WithRole, Indices
  <1>2. \A j, k \in 1..Len(body) : j # k => body[j].id # body[k].id
    BY DEF GroupOK, DistinctIds, Indices
  <1>3. \A k \in 1..Len(body) : RoleOK(orders[k], kind)
    BY DEF GroupOK, Indices
  <1>4. Only(RolesOf(kind))
    BY <1>3 DEF RoleOK
  <1>5. kind # "STOP_PROFIT" => Equities
    BY <1>3 DEF RoleOK
  <1>6. /\ kind = "STOP_PROFIT" => Has("MASTER") <= 1 /\ Has("STOP_PROFIT") <= 1 /\ Has("STOP_LOSS") <= 1
        /\ kind = "OCO" => Has("OCO") \in 2..6
        /\ kind = "OTO" => Has("MASTER") = 1 /\ Has("OTO") \in 1..6
        /\ kind = "OTOCO" => Has("MASTER") = 1 /\ Has("OTOCO") \in 1..6
    BY <1>1, GroupCounts
  <1>7. kind = "STOP_PROFIT" => Has("STOP_PROFIT") + Has("STOP_LOSS") > 0
    <2>1. SUFFICES ASSUME kind = "STOP_PROFIT" PROVE Has("STOP_PROFIT") + Has("STOP_LOSS") > 0
      OBVIOUS
    <2>2. WithRole(body, "STOP_PROFIT") # {} \/ WithRole(body, "STOP_LOSS") # {}
      BY <2>1, <1>1 DEF GroupOK, BracketOK
    <2>3. /\ Has("STOP_PROFIT") \in Nat /\ Has("STOP_LOSS") \in Nat
          /\ Has("STOP_PROFIT") # 0 \/ Has("STOP_LOSS") # 0
      BY <2>2, RolesAreFinite
    <2> HIDE DEF Has
    <2> QED BY <2>3
  <1>8. kind = "STOP_PROFIT" => \A m, x \in 1..Len(body) :
          body[m].combo = "MASTER" /\ body[x].combo # "MASTER"
            => body[x].side # body[m].side /\ body[x].symbol = body[m].symbol
    BY BracketExits
  <1> DEFINE Typed == \A k \in 1..Len(body) :
                        /\ body[k].combo = "MASTER" => body[k].type \in {"MARKET", "LIMIT"}
                        /\ body[k].combo = "STOP_PROFIT" => body[k].type = "LIMIT"
                        /\ body[k].combo = "STOP_LOSS" => body[k].type = "STOP_LOSS"
  <1>8a. kind = "STOP_PROFIT" => Typed
    <2>1. SUFFICES ASSUME kind = "STOP_PROFIT", NEW k \in 1..Len(body)
                   PROVE  /\ body[k].combo = "MASTER" => body[k].type \in {"MARKET", "LIMIT"}
                          /\ body[k].combo = "STOP_PROFIT" => body[k].type = "LIMIT"
                          /\ body[k].combo = "STOP_LOSS" => body[k].type = "STOP_LOSS"
      OBVIOUS
    <2>2. orders[k].type \in ComboRules("STOP_PROFIT", orders[k].combo).types
      BY <1>3, <2>1 DEF RoleOK
    <2>3. body[k].combo = orders[k].combo /\ body[k].type = orders[k].type
      BY <2>1
    <2>4. body[k].type \in ComboRules("STOP_PROFIT", body[k].combo).types
      BY <2>2, <2>3
    <2>5. /\ ComboRules("STOP_PROFIT", "MASTER").types = {"MARKET", "LIMIT"}
          /\ ComboRules("STOP_PROFIT", "STOP_PROFIT").types = {"LIMIT"}
          /\ ComboRules("STOP_PROFIT", "STOP_LOSS").types = {"STOP_LOSS"}
      BY DEF ComboRules, RoleRule, MarketOrLimit
    <2> QED BY <2>4, <2>5
  <1> HIDE DEF Has
  <1>9. CASE kind = "STOP_PROFIT"
    <2>1. Only({"MASTER", "STOP_PROFIT", "STOP_LOSS"})
      BY <1>4, <1>9 DEF RolesOf
    <2> HIDE DEF Only, Equities, Typed
    <2> QED BY <1>2, <1>6, <1>7, <1>8, <1>8a, <1>9, <2>1 DEF DocumentedGroup, Has, Only, Typed
  <1>10. CASE kind = "OCO"
    <2>1. Only({"OCO"}) /\ Equities
      BY <1>4, <1>5, <1>10 DEF RolesOf
    <2> HIDE DEF Only, Equities
    <2> QED BY <1>2, <1>6, <1>10, <2>1 DEF DocumentedGroup, Has, Only, Equities
  <1>11. CASE kind = "OTO"
    <2>1. Only({"MASTER", "OTO"}) /\ Equities
      BY <1>4, <1>5, <1>11 DEF RolesOf
    <2> HIDE DEF Only, Equities
    <2> QED BY <1>2, <1>6, <1>11, <2>1 DEF DocumentedGroup, Has, Only, Equities
  <1>12. CASE kind = "OTOCO"
    <2>1. Only({"MASTER", "OTOCO"}) /\ Equities
      BY <1>4, <1>5, <1>12 DEF RolesOf
    <2> HIDE DEF Only, Equities
    <2> QED BY <1>2, <1>6, <1>12, <2>1 DEF DocumentedGroup, Has, Only, Equities
  <1> QED BY <1>9, <1>10, <1>11, <1>12 DEF Kinds

(***************************************************************************)
(* The caller's edits.                                                     *)
(***************************************************************************)

\* The order with one field set.
With(o, x, v) == [o EXCEPT ![x] = v]

\* Setting one field leaves the others.
LEMMA Assign ==
  ASSUME NEW o, IsOrder(o), NEW x \in OrderFields \ {"id", "num", "legs"}, NEW v
  PROVE  LET p == With(o, x, v) IN
         IsOrder(p) /\ p[x] = v /\ \A f \in OrderFields \ {x} : p[f] = o[f]
  <1> DEFINE p == [o EXCEPT ![x] = v]
             at(f) == IF f = x THEN v ELSE o[f]
  <1>1. o = [f \in OrderFields |-> o[f]]
    BY DEF IsOrder
  <1>2. p = [f \in OrderFields |-> at(f)]
    BY <1>1
  <1> HIDE DEF p
  <1>3. p[x] = v /\ \A f \in OrderFields \ {x} : p[f] = o[f]
    BY <1>2
  <1>4. p.id = o.id /\ p.num = o.num /\ p.legs = o.legs
    BY <1>3 DEF OrderFields
  <1> HIDE DEF at
  <1>5. p = [f \in OrderFields |-> p[f]]
    BY <1>2
  <1>6. IsOrder(p)
    BY <1>4, <1>5 DEF IsOrder
  <1> QED BY <1>3, <1>6 DEF p, With

\* Setting the decimals leaves the other fields.
LEMMA AssignNum ==
  ASSUME NEW o, IsOrder(o), NEW v \in [NumFields -> Decimals]
  PROVE  LET p == [o EXCEPT !.num = v] IN
         IsOrder(p) /\ p.num = v /\ \A f \in OrderFields \ {"num"} : p[f] = o[f]
  <1> DEFINE p == [o EXCEPT !.num = v]
             at(f) == IF f = "num" THEN v ELSE o[f]
  <1>1. o = [f \in OrderFields |-> o[f]]
    BY DEF IsOrder
  <1>2. p = [f \in OrderFields |-> at(f)]
    BY <1>1
  <1> HIDE DEF p
  <1>3. p.num = v /\ \A f \in OrderFields \ {"num"} : p[f] = o[f]
    BY <1>2 DEF OrderFields
  <1>4. p.id = o.id /\ p.legs = o.legs
    BY <1>3 DEF OrderFields
  <1> HIDE DEF at
  <1>5. p = [f \in OrderFields |-> p[f]]
    BY <1>2
  <1>6. IsOrder(p)
    BY <1>3, <1>4, <1>5 DEF IsOrder
  <1> QED BY <1>3, <1>6 DEF p

\* The order `p` is `o` with one decimal set.
NumSet(p, o, f, d) ==
  /\ IsOrder(p)
  /\ \A g \in OrderFields \ {"num"} : p[g] = o[g]
  /\ Cleared(p.num) = [Cleared(o.num) EXCEPT ![f] = Clear(d)]
  /\ \A g \in NumFields : p.num[g] = IF g = f THEN d ELSE o.num[g]

\* Setting one decimal leaves the others, and the other fields.
LEMMA SetNumFields ==
  ASSUME NEW o, IsOrder(o), NEW f \in NumFields, NEW d \in Decimals
  PROVE  NumSet(SetNum(o, f, d), o, f, d)
  <1> DEFINE num == [o.num EXCEPT ![f] = d]
  <1>1. o.num \in [NumFields -> Decimals]
    BY DEF IsOrder
  <1>2. num \in [NumFields -> Decimals] /\ \A g \in NumFields : num[g] = IF g = f THEN d ELSE o.num[g]
    BY <1>1
  <1>3. SetNum(o, f, d) = [o EXCEPT !.num = num]
    BY DEF SetNum, IsOrder
  <1>4. Cleared(num) = [Cleared(o.num) EXCEPT ![f] = Clear(d)]
    BY <1>1 DEF Cleared
  <1> HIDE DEF num
  <1>5. /\ IsOrder([o EXCEPT !.num = num]) /\ [o EXCEPT !.num = num].num = num
        /\ \A g \in OrderFields \ {"num"} : [o EXCEPT !.num = num][g] = o[g]
    BY <1>2, AssignNum
  <1>6. SetNum(o, f, d).num = num /\ IsOrder(SetNum(o, f, d))
    BY <1>3, <1>5
  <1>7. \A g \in OrderFields \ {"num"} : SetNum(o, f, d)[g] = o[g]
    BY <1>3, <1>5
  <1> QED BY <1>2, <1>4, <1>6, <1>7 DEF num, NumSet

\* Emptying the id leaves the other fields.
LEMMA AssignId ==
  ASSUME NEW o, IsOrder(o)
  PROVE  LET p == [o EXCEPT !.id = NoId] IN
         IsOrder(p) /\ p.id = NoId /\ \A f \in OrderFields \ {"id"} : p[f] = o[f]
  <1> DEFINE p == [o EXCEPT !.id = NoId]
             at(f) == IF f = "id" THEN NoId ELSE o[f]
  <1>1. o = [f \in OrderFields |-> o[f]]
    BY DEF IsOrder
  <1>2. p = [f \in OrderFields |-> at(f)]
    BY <1>1
  <1> HIDE DEF p
  <1>3. p.id = NoId /\ \A f \in OrderFields \ {"id"} : p[f] = o[f]
    BY <1>2 DEF OrderFields
  <1>4. p.num = o.num /\ p.legs = o.legs
    BY <1>3 DEF OrderFields
  <1> HIDE DEF at
  <1>5. p = [f \in OrderFields |-> p[f]]
    BY <1>2
  <1>6. IsOrder(p)
    <2>1. p.id \in Nat \cup {BadId}
      BY <1>3 DEF NoId
    <2> QED BY <2>1, <1>4, <1>5 DEF IsOrder
  <1> QED BY <1>3, <1>6 DEF p

\* A literal function on an initial segment is a sequence of what it takes.
LEMMA LiteralSequence ==
  ASSUME NEW n \in Nat, NEW f, NEW L, \A k \in 1..n : f[k] \in L
  PROVE  [k \in 1..n |-> f[k]] \in Seq(L)
  OBVIOUS

\* The edit of the legs adds one, and makes the strategy fit.
LEMMA AppendLeg ==
  ASSUME NEW o, IsOrder(o)
  PROVE  LET p == Edited(o, "legs") IN
         /\ IsOrder(p)
         /\ \A f \in OrderFields \ {"legs", "strategy"} : p[f] = o[f]
         /\ Len(p.legs) = Len(o.legs) + 1
  <1> DEFINE n == Len(o.legs)
             legs == Append(o.legs, SecondLeg)
             p == [o EXCEPT !.legs = legs, !.strategy = "VERTICAL"]
             at(f) == IF f = "legs" THEN legs ELSE IF f = "strategy" THEN "VERTICAL" ELSE o[f]
  <1>1. o = [f \in OrderFields |-> o[f]] /\ n \in Nat /\ o.legs = [k \in 1..n |-> o.legs[k]]
    BY DEF IsOrder
  <1>2. IsLeg(SecondLeg)
    BY DEF SecondLeg, LegFromSymbol, EmptyLeg, IsLeg, LegFields, Unset, NullDecimal, Decimals
  <1>3. /\ Len(legs) = n + 1 /\ legs = [k \in 1..Len(legs) |-> legs[k]]
        /\ \A k \in 1..Len(legs) : legs[k] = IF k = n + 1 THEN SecondLeg ELSE o.legs[k]
    <2> DEFINE L == {o.legs[k] : k \in 1..n} \cup {SecondLeg}
    <2>0. \A k \in 1..n : o.legs[k] \in L
      OBVIOUS
    <2>5. SecondLeg \in L
      OBVIOUS
    <2> HIDE DEF L
    <2>1. o.legs \in Seq(L)
      <3>0. n \in Nat
        BY <1>1
      <3>1. [k \in 1..n |-> o.legs[k]] \in Seq(L)
        BY <2>0, <3>0, LiteralSequence
      <3> QED BY <3>1, <1>1
    <2>2. legs \in Seq(L) /\ Len(legs) = n + 1
      BY <2>1, <2>5, <1>1
    <2>3. \A k \in 1..Len(legs) : legs[k] = IF k = n + 1 THEN SecondLeg ELSE o.legs[k]
      BY <2>1, <2>2, <1>1
    <2>4. legs = [k \in 1..Len(legs) |-> legs[k]]
      BY <2>2
    <2> QED BY <2>2, <2>3, <2>4
  <1>4. \A k \in 1..Len(legs) : IsLeg(legs[k])
    BY <1>1, <1>2, <1>3, LegsOf
  <1> HIDE DEF legs, n
  <1>5. p = [f \in OrderFields |-> at(f)]
    BY <1>1
  <1> HIDE DEF p
  <1>6. p.legs = legs /\ \A f \in OrderFields \ {"legs", "strategy"} : p[f] = o[f]
    BY <1>5 DEF OrderFields
  <1>7. p.id = o.id /\ p.num = o.num
    BY <1>6 DEF OrderFields
  <1> HIDE DEF at
  <1>8. p = [f \in OrderFields |-> p[f]]
    BY <1>5
  <1>9. IsOrder(p)
    BY <1>1, <1>3, <1>4, <1>6, <1>7, <1>8 DEF IsOrder
  <1>10. Len(p.legs) = Len(o.legs) + 1
    BY <1>3, <1>6 DEF n
  <1>11. Edited(o, "legs") = p
    BY DEF Edited, p, legs
  <1> QED BY <1>6, <1>9, <1>10, <1>11

\* The fields the proofs name are fields.
LEMMA FieldNames ==
  {"id", "instrument", "combo", "entrust", "session", "symbol", "side", "type", "tif", "expire",
   "num", "trailing", "outcome", "strategy", "legs"} \subseteq OrderFields
  BY DEF OrderFields

\* What a change of the decimals, and one of another field, can reach.
LEMMA NumReaches ==
  ASSUME NEW o, IsOrder(o), NEW p, IsOrder(p), \A g \in OrderFields \ {"num"} : p[g] = o[g]
  PROVE  /\ \A f \in OrderFields \ {"num", "entrust", "legs"} : Filled(p)[f] = Filled(o)[f]
         /\ (/\ o.num["cash"].valid = p.num["cash"].valid
             /\ o.num["quantity"].valid = p.num["quantity"].valid)
               => Filled(p).entrust = Filled(o).entrust
         /\ Cleared(o.num)["quantity"] = Cleared(p.num)["quantity"]
               => Filled(p).legs = Filled(o).legs
  <1>1. /\ o.id = p.id /\ o.instrument = p.instrument /\ o.combo = p.combo /\ o.entrust = p.entrust
        /\ o.session = p.session /\ o.symbol = p.symbol /\ o.side = p.side /\ o.type = p.type
        /\ o.tif = p.tif /\ o.expire = p.expire /\ o.trailing = p.trailing
        /\ o.outcome = p.outcome /\ o.strategy = p.strategy /\ o.legs = p.legs
    BY DEF OrderFields
  <1> DEFINE v == Filled(o)
             w == Filled(p)
  <1>2. /\ v.instrument = w.instrument /\ v.combo = w.combo
        /\ v.session = w.session /\ v.symbol = w.symbol /\ v.side = w.side /\ v.type = w.type
        /\ v.tif = w.tif /\ v.expire = w.expire /\ v.trailing = w.trailing
        /\ v.outcome = w.outcome /\ v.strategy = w.strategy
    BY <1>1, FilledSame
  <1>3. v.id = o.id /\ w.id = p.id
    BY FilledFields
  <1>4. (/\ o.num["cash"].valid = p.num["cash"].valid
         /\ o.num["quantity"].valid = p.num["quantity"].valid) => w.entrust = v.entrust
    BY <1>1, FilledSame
  <1>5. Cleared(o.num)["quantity"] = Cleared(p.num)["quantity"] => w.legs = v.legs
    BY <1>1, FilledSame
  <1> HIDE DEF v, w
  <1>6. \A f \in OrderFields \ {"num", "entrust", "legs"} : w[f] = v[f]
    BY <1>1, <1>2, <1>3 DEF OrderFields
  <1>7. /\ \A f \in OrderFields \ {"num", "entrust", "legs"} : w[f] = v[f]
        /\ (/\ o.num["cash"].valid = p.num["cash"].valid
            /\ o.num["quantity"].valid = p.num["quantity"].valid) => w.entrust = v.entrust
        /\ Cleared(o.num)["quantity"] = Cleared(p.num)["quantity"] => w.legs = v.legs
    BY <1>4, <1>5, <1>6
  <1> QED BY <1>7 DEF v, w

\* The same of the fields that nothing is derived from, and of those that are.
Keeps(p, o, D) == \A g \in OrderFields \ D : p[g] = o[g]

\* What a change of a field that is no decimal can reach in the prepared order.
LEMMA FieldReaches ==
  ASSUME NEW o, IsOrder(o), NEW p, IsOrder(p), NEW D,
         \/ D = {"type"} \/ D = {"combo"}
         \/ D = {"side", "legs"} \/ D = {"instrument", "session", "strategy", "legs"},
         Keeps(p, o, D),
         "legs" \in D /\ "instrument" \notin D => p.legs = o.legs
  PROVE  Keeps(Filled(p), Filled(o), D)
  <1> DEFINE v == Filled(o)
             w == Filled(p)
  <1>0. \A g \in OrderFields \ D : p[g] = o[g]
    BY DEF Keeps
  <1>1. v.id = o.id /\ w.id = p.id
    BY FilledFields
  <1>2. o.id = p.id /\ o.entrust = p.entrust /\ o.symbol = p.symbol /\ o.tif = p.tif
        /\ o.expire = p.expire /\ o.num = p.num /\ o.trailing = p.trailing
        /\ o.outcome = p.outcome
    BY <1>0, FieldNames
  <1>3. /\ v.entrust = w.entrust /\ v.symbol = w.symbol /\ v.tif = w.tif /\ v.expire = w.expire
        /\ v.num = w.num /\ v.trailing = w.trailing /\ v.outcome = w.outcome
    BY <1>2, FilledSame
  <1>4. CASE D = {"instrument", "session", "strategy", "legs"}
    <2>1. o.combo = p.combo /\ o.side = p.side /\ o.type = p.type
      BY <1>0, <1>4, FieldNames
    <2>2. v.combo = w.combo /\ v.side = w.side /\ v.type = w.type
      BY <2>1, FilledSame
    <2> HIDE DEF v, w
    <2>3. Keeps(w, v, D)
      BY <1>1, <1>2, <1>3, <1>4, <2>2 DEF OrderFields, Keeps
    <2> QED BY <2>3 DEF v, w
  <1>5. CASE D # {"instrument", "session", "strategy", "legs"}
    <2>1. /\ o.instrument = p.instrument /\ o.session = p.session /\ o.strategy = p.strategy
          /\ o.legs = p.legs
      BY <1>0, <1>5, FieldNames
    <2>2. v.instrument = w.instrument /\ v.session = w.session /\ v.strategy = w.strategy
      BY <2>1, FilledSame
    <2>3. /\ "type" \notin D => v.type = w.type
          /\ "combo" \notin D => v.combo = w.combo
          /\ "side" \notin D => v.side = w.side
      BY <1>0, FieldNames, FilledSame
    <2>4. "side" \notin D => v.legs = w.legs
      BY <1>2, <1>0, <2>1, FieldNames, FilledSame
    <2>5. "legs" \notin D => v.legs = w.legs
      BY <2>4, <1>5
    <2> HIDE DEF v, w
    <2>6. Keeps(w, v, D)
      BY <1>1, <1>2, <1>3, <2>2, <2>3, <2>5 DEF OrderFields, Keeps
    <2> QED BY <2>6 DEF v, w
  <1> QED BY <1>4, <1>5 DEF Keeps

\* A decimal that is set leaves the id and the role.
LEMMA NumSetKeeps ==
  ASSUME NEW o, NEW p, NEW n, NEW d, NumSet(p, o, n, d)
  PROVE  IsOrder(p) /\ p.id = o.id /\ p.combo = o.combo
  BY FieldNames DEF NumSet

\* Two orders that agree on a filled field still do once the same decimal of both is
\* set, or the same type or role given to both.
LEMMA SetNumAgrees ==
  ASSUME NEW o, IsOrder(o), NEW w, IsOrder(w), NEW n \in NumFields, NEW d \in Decimals,
         NEW f \in OrderFields, Filled(o)[f] = Filled(w)[f],
         f \in {"entrust", "legs"} => n \notin {"quantity", "cash"}
  PROVE  Filled(SetNum(o, n, d))[f] = Filled(SetNum(w, n, d))[f]
  <1> DEFINE p == SetNum(o, n, d)
             q == SetNum(w, n, d)
  <1>1. /\ IsOrder(p) /\ \A g \in OrderFields \ {"num"} : p[g] = o[g]
        /\ Cleared(p.num) = [Cleared(o.num) EXCEPT ![n] = Clear(d)]
        /\ \A g \in NumFields : p.num[g] = IF g = n THEN d ELSE o.num[g]
    BY SetNumFields DEF NumSet
  <1>2. /\ IsOrder(q) /\ \A g \in OrderFields \ {"num"} : q[g] = w[g]
        /\ Cleared(q.num) = [Cleared(w.num) EXCEPT ![n] = Clear(d)]
        /\ \A g \in NumFields : q.num[g] = IF g = n THEN d ELSE w.num[g]
    BY SetNumFields DEF NumSet
  <1> HIDE DEF p, q
  <1>3. CASE f \notin {"num", "entrust", "legs"}
    <2>1. Filled(p)[f] = Filled(o)[f] /\ Filled(q)[f] = Filled(w)[f]
      BY <1>1, <1>2, <1>3, NumReaches
    <2> QED BY <2>1 DEF p, q
  <1>4. CASE f = "num"
    <2>1. Filled(o).num = Cleared(o.num) /\ Filled(w).num = Cleared(w.num)
      BY FilledFields
    <2>2. Filled(p).num = Cleared(p.num) /\ Filled(q).num = Cleared(q.num)
      BY <1>1, <1>2, FilledFields
    <2> QED BY <1>1, <1>2, <1>4, <2>1, <2>2 DEF p, q
  <1>5. CASE f \in {"entrust", "legs"}
    <2>1. n # "quantity" /\ n # "cash"
      BY <1>5
    <2>2. /\ o.num["cash"].valid = p.num["cash"].valid /\ o.num["quantity"].valid = p.num["quantity"].valid
          /\ Cleared(o.num)["quantity"] = Cleared(p.num)["quantity"]
      BY <1>1, <2>1, NumNames DEF Cleared
    <2>3. /\ w.num["cash"].valid = q.num["cash"].valid /\ w.num["quantity"].valid = q.num["quantity"].valid
          /\ Cleared(w.num)["quantity"] = Cleared(q.num)["quantity"]
      BY <1>2, <2>1, NumNames DEF Cleared
    <2>4. Filled(p).entrust = Filled(o).entrust /\ Filled(p).legs = Filled(o).legs
      BY <1>1, <2>2, NumReaches
    <2>5. Filled(q).entrust = Filled(w).entrust /\ Filled(q).legs = Filled(w).legs
      BY <1>2, <2>3, NumReaches
    <2>6. f = "entrust" \/ f = "legs"
      BY <1>5
    <2>7. Filled(p)[f] = Filled(o)[f] /\ Filled(q)[f] = Filled(w)[f]
      BY <2>4, <2>5, <2>6
    <2> QED BY <2>7 DEF p, q
  <1> QED BY <1>3, <1>4, <1>5

\* The same for a type or a role given to both.
LEMMA AssignAgrees ==
  ASSUME NEW o, IsOrder(o), NEW w, IsOrder(w), NEW x \in {"type", "combo"}, NEW v,
         NEW f \in OrderFields, Filled(o)[f] = Filled(w)[f]
  PROVE  Filled(With(o, x, v))[f] = Filled(With(w, x, v))[f]
  <1> DEFINE p == With(o, x, v)
             q == With(w, x, v)
  <1>0. x \in OrderFields \ {"id", "num", "legs"}
    BY FieldNames
  <1>1. IsOrder(p) /\ p[x] = v /\ \A g \in OrderFields \ {x} : p[g] = o[g]
    BY <1>0, Assign
  <1>2. IsOrder(q) /\ q[x] = v /\ \A g \in OrderFields \ {x} : q[g] = w[g]
    BY <1>0, Assign
  <1> HIDE DEF p, q
  <1>3. CASE f # x
    <2>1. Filled(p)[f] = Filled(o)[f]
      <3>1. x = "type" => Keeps(Filled(p), Filled(o), {"type"})
        <4>1. x = "type" => Keeps(p, o, {"type"})
          BY <1>1 DEF Keeps
        <4> QED BY <4>1, <1>1, FieldReaches
      <3>2. x = "combo" => Keeps(Filled(p), Filled(o), {"combo"})
        <4>1. x = "combo" => Keeps(p, o, {"combo"})
          BY <1>1 DEF Keeps
        <4> QED BY <4>1, <1>1, FieldReaches
      <3> QED BY <3>1, <3>2, <1>3 DEF Keeps
    <2>2. Filled(q)[f] = Filled(w)[f]
      <3>1. x = "type" => Keeps(Filled(q), Filled(w), {"type"})
        <4>1. x = "type" => Keeps(q, w, {"type"})
          BY <1>2 DEF Keeps
        <4> QED BY <4>1, <1>2, FieldReaches
      <3>2. x = "combo" => Keeps(Filled(q), Filled(w), {"combo"})
        <4>1. x = "combo" => Keeps(q, w, {"combo"})
          BY <1>2 DEF Keeps
        <4> QED BY <4>1, <1>2, FieldReaches
      <3> QED BY <3>1, <3>2, <1>3 DEF Keeps
    <2> QED BY <2>1, <2>2 DEF p, q
  <1>4. CASE f = x
    <2>1. p[x] = q[x]
      BY <1>1, <1>2
    <2>2. x = "type" => Filled(p).type = Filled(q).type
      BY <1>1, <1>2, <2>1, FilledSame
    <2>3. x = "combo" => Filled(p).combo = Filled(q).combo
      BY <1>1, <1>2, <2>1, FilledSame
    <2> QED BY <1>4, <2>2, <2>3 DEF p, q
  <1> QED BY <1>3, <1>4

\* The edits, one case of the proofs each.
LEMMA EditNames ==
  \A e \in AllEdits : e \in {"quantity", "null"} \/ e = "cash" \/ e = "type" \/ e = "stop" \/ e = "side"
                     \/ e = "instrument" \/ e = "legs" \/ e = "ask" \/ e = "id"
  BY DEF AllEdits

\* The decimals the edits use are decimals.
LEMMA PricesAreDecimals ==
  /\ Unset \in Decimals /\ NullDecimal(FALSE, 1, 0) \in Decimals
  /\ Price(2, 0) \in Decimals /\ Price(100, 2) \in Decimals /\ Price(1, 2) \in Decimals
  /\ Price(3, 2) \in Decimals
  BY DEF Unset, NullDecimal, Price, Decimals

\* An edit leaves an order, with its role, and with its id unless it empties it.
LEMMA EditedOrder ==
  ASSUME NEW o, IsOrder(o), NEW e \in AllEdits
  PROVE  LET p == Edited(o, e) IN
         /\ IsOrder(p) /\ p.combo = o.combo
         /\ p.id = IF e = "id" THEN NoId ELSE o.id
  <1> USE NumNames, PricesAreDecimals
  <1>1. CASE e \in {"quantity", "null"}
    <2>1. PICK d \in Decimals : Edited(o, e) = SetNum(o, "quantity", d)
      BY <1>1 DEF Edited, With
    <2>2. NumSet(SetNum(o, "quantity", d), o, "quantity", d)
      BY SetNumFields
    <2> QED BY <2>1, <2>2, <1>1, NumSetKeeps
  <1>2. CASE e = "cash"
    <2> DEFINE p == SetNum(o, "quantity", Unset)
    <2>1. IsOrder(p) /\ p.combo = o.combo /\ p.id = o.id
      BY SetNumFields, NumSetKeeps
    <2>2. Edited(o, e) = SetNum(p, "cash", Price(100, 2))
      BY <1>2 DEF Edited, With
    <2> HIDE DEF p
    <2>3. NumSet(SetNum(p, "cash", Price(100, 2)), p, "cash", Price(100, 2))
      BY <2>1, SetNumFields
    <2> QED BY <1>2, <2>1, <2>2, <2>3, NumSetKeeps
  <1>3. CASE e = "type"
    <2>1. Edited(o, e) = With(o, "type", "MARKET")
      BY <1>3 DEF Edited, With
    <2>2. /\ IsOrder(With(o, "type", "MARKET"))
          /\ \A g \in OrderFields \ {"type"} : With(o, "type", "MARKET")[g] = o[g]
      BY FieldNames, Assign
    <2> HIDE DEF Edited, With
    <2> DEFINE p == With(o, "type", "MARKET")
    <2> HIDE DEF p
    <2>3. Edited(o, e) = p /\ IsOrder(p) /\ \A g \in OrderFields \ {"type"} : p[g] = o[g]
      BY <2>1, <2>2 DEF p
    <2> QED BY <1>3, <2>3, FieldNames
  <1>4. CASE e = "stop"
    <2> DEFINE p == With(o, "type", "STOP_LOSS")
    <2>1. IsOrder(p) /\ \A g \in OrderFields \ {"type"} : p[g] = o[g]
      BY FieldNames, Assign
    <2>2. Edited(o, e) = SetNum(p, "stop", Price(1, 2))
      BY <1>4 DEF Edited, With
    <2> HIDE DEF p
    <2>3. p.combo = o.combo /\ p.id = o.id
      BY <2>1, FieldNames
    <2>4. NumSet(SetNum(p, "stop", Price(1, 2)), p, "stop", Price(1, 2))
      BY <2>1, SetNumFields
    <2> QED BY <1>4, <2>2, <2>3, <2>4, NumSetKeeps
  <1>5. CASE e = "side"
    <2> DEFINE p == With(o, "side", IF o.side = Buy THEN Sell ELSE Buy)
    <2>1. IsOrder(p) /\ \A g \in OrderFields \ {"side"} : p[g] = o[g]
      BY FieldNames, Assign
    <2>2. Edited(o, e) = p
      BY <1>5 DEF Edited, With
    <2> HIDE DEF p
    <2> QED BY <1>5, <2>1, <2>2, FieldNames
  <1>6. CASE e = "instrument"
    <2> DEFINE p == With(o, "instrument", "CRYPTO")
    <2>1. IsOrder(p) /\ \A g \in OrderFields \ {"instrument"} : p[g] = o[g]
      BY FieldNames, Assign
    <2>2. Edited(o, e) = p
      BY <1>6 DEF Edited, With
    <2> HIDE DEF p
    <2> QED BY <1>6, <2>1, <2>2, FieldNames
  <1>7. CASE e = "legs"
    <2> DEFINE p == Edited(o, "legs")
    <2>1. IsOrder(p) /\ \A g \in OrderFields \ {"legs", "strategy"} : p[g] = o[g]
      BY AppendLeg
    <2>2. Edited(o, e) = p
      BY <1>7
    <2> HIDE DEF p
    <2> QED BY <1>7, <2>1, <2>2, FieldNames
  <1>8. CASE e = "ask"
    <2>1. Edited(o, e) = SetNum(o, "ask", Price(3, 2))
      BY <1>8 DEF Edited, With
    <2>2. NumSet(SetNum(o, "ask", Price(3, 2)), o, "ask", Price(3, 2))
      BY SetNumFields
    <2> QED BY <2>1, <2>2, <1>8, NumSetKeeps
  <1>9. CASE e = "id"
    <2> DEFINE p == [o EXCEPT !.id = NoId]
    <2>1. IsOrder(p) /\ p.id = NoId /\ \A g \in OrderFields \ {"id"} : p[g] = o[g]
      BY AssignId
    <2>2. Edited(o, e) = p
      BY <1>9 DEF Edited, With
    <2> HIDE DEF p
    <2> QED BY <1>9, <2>1, <2>2, FieldNames
  <1> QED BY <1>1, <1>2, <1>3, <1>4, <1>5, <1>6, <1>7, <1>8, <1>9, EditNames

\* The edit of the side touches nothing else.
LEMMA SideEdited ==
  ASSUME NEW o, IsOrder(o)
  PROVE  LET p == Edited(o, "side") IN
         IsOrder(p) /\ Keeps(p, o, {"side"}) /\ p.side = IF o.side = Buy THEN Sell ELSE Buy
  <1> DEFINE s == IF o.side = Buy THEN Sell ELSE Buy
             p == With(o, "side", s)
  <1>1. Edited(o, "side") = p
    BY DEF Edited, With
  <1> HIDE DEF s
  <1>2. "side" \in OrderFields \ {"id", "num", "legs"}
    BY FieldNames
  <1>3. IsOrder(p) /\ p["side"] = s /\ \A g \in OrderFields \ {"side"} : p[g] = o[g]
    BY <1>2, Assign
  <1> HIDE DEF p
  <1>4. IsOrder(p) /\ Keeps(p, o, {"side"}) /\ p.side = s
    BY <1>3 DEF Keeps
  <1> QED BY <1>1, <1>4 DEF s

\* The edit of the instrument touches nothing else.
LEMMA InstrumentEdited ==
  ASSUME NEW o, IsOrder(o)
  PROVE  LET p == Edited(o, "instrument") IN
         IsOrder(p) /\ Keeps(p, o, {"instrument"}) /\ p.instrument = "CRYPTO"
  <1> DEFINE p == With(o, "instrument", "CRYPTO")
  <1>1. Edited(o, "instrument") = p
    BY DEF Edited, With
  <1>2. "instrument" \in OrderFields \ {"id", "num", "legs"}
    BY FieldNames
  <1>3. IsOrder(p) /\ p["instrument"] = "CRYPTO" /\ \A g \in OrderFields \ {"instrument"} : p[g] = o[g]
    BY <1>2, Assign
  <1> HIDE DEF p
  <1>4. IsOrder(p) /\ Keeps(p, o, {"instrument"}) /\ p.instrument = "CRYPTO"
    BY <1>3 DEF Keeps
  <1> QED BY <1>1, <1>4

\* Two orders that agree on a filled field still do once the same change is made to
\* both, except on what is derived from the field that is changed.
LEMMA EditedAgrees ==
  ASSUME NEW o, IsOrder(o), NEW w, IsOrder(w), NEW e \in AllEdits,
         NEW f \in OrderFields \ {"id"}, f \notin Derived(e), Filled(o)[f] = Filled(w)[f]
  PROVE  Filled(Edited(o, e))[f] = Filled(Edited(w, e))[f]
  <1> DEFINE p == Edited(o, e)
             q == Edited(w, e)
  <1>0. ASSUME NEW v
        PROVE  Filled(With(o, "type", v))[f] = Filled(With(w, "type", v))[f]
    BY AssignAgrees
  <1> USE NumNames, PricesAreDecimals
  <1>1. CASE e \in {"quantity", "null"}
    <2>1. f \notin {"entrust", "legs"}
      BY <1>1 DEF Derived
    <2>2. ASSUME NEW d \in Decimals
          PROVE  Filled(SetNum(o, "quantity", d))[f] = Filled(SetNum(w, "quantity", d))[f]
      BY <2>1, SetNumAgrees
    <2>3. CASE e = "quantity"
      BY <2>2, <2>3 DEF Edited, With
    <2>4. CASE e = "null"
      BY <2>2, <2>4 DEF Edited, With
    <2> QED BY <1>1, <2>3, <2>4
  <1>2. CASE e = "cash"
    <2>1. f \notin {"entrust", "legs"}
      BY <1>2 DEF Derived
    <2> DEFINE a == SetNum(o, "quantity", Unset)
               b == SetNum(w, "quantity", Unset)
    <2>2. IsOrder(a) /\ IsOrder(b)
      BY SetNumFields, NumSetKeeps
    <2>3. Filled(a)[f] = Filled(b)[f]
      BY <2>1, SetNumAgrees
    <2>4. p = SetNum(a, "cash", Price(100, 2)) /\ q = SetNum(b, "cash", Price(100, 2))
      BY <1>2 DEF Edited, With
    <2> HIDE DEF a, b, p, q
    <2>5. Filled(p)[f] = Filled(q)[f]
      BY <2>1, <2>2, <2>3, <2>4, SetNumAgrees
    <2> QED BY <2>5 DEF p, q
  <1>3. CASE e = "type"
    <2>1. p = With(o, "type", "MARKET") /\ q = With(w, "type", "MARKET")
      BY <1>3 DEF Edited, With
    <2> QED BY <2>1, <1>0
  <1>4. CASE e = "stop"
    <2> DEFINE a == With(o, "type", "STOP_LOSS")
               b == With(w, "type", "STOP_LOSS")
    <2>1. IsOrder(a) /\ IsOrder(b)
      BY FieldNames, Assign
    <2>2. Filled(a)[f] = Filled(b)[f]
      BY <1>0
    <2>3. p = SetNum(a, "stop", Price(1, 2)) /\ q = SetNum(b, "stop", Price(1, 2))
      BY <1>4 DEF Edited, With
    <2> HIDE DEF a, b, p, q
    <2>4. Filled(p)[f] = Filled(q)[f]
      BY <2>1, <2>2, <2>3, SetNumAgrees
    <2> QED BY <2>4 DEF p, q
  <1>5. CASE e = "side"
    <2>1. f # "legs"
      BY <1>5 DEF Derived
    <2>3. IsOrder(p) /\ Keeps(p, o, {"side"}) /\ p.side = IF o.side = Buy THEN Sell ELSE Buy
      BY <1>5, SideEdited
    <2>4. IsOrder(q) /\ Keeps(q, w, {"side"}) /\ q.side = IF w.side = Buy THEN Sell ELSE Buy
      BY <1>5, SideEdited
    <2> HIDE DEF p, q
    <2>5. CASE f = "side"
      <3>1. o.side = w.side
        BY <2>5, FilledFields
      <3>2. Filled(p).side = p.side /\ Filled(q).side = q.side
        BY <2>3, <2>4, FilledFields
      <3> QED BY <2>3, <2>4, <2>5, <3>1, <3>2 DEF p, q
    <2>6. CASE f # "side"
      <3>1. /\ Keeps(p, o, {"side", "legs"}) /\ p.legs = o.legs
            /\ Keeps(q, w, {"side", "legs"}) /\ q.legs = w.legs
        BY <2>3, <2>4, FieldNames DEF Keeps
      <3>2. Keeps(Filled(p), Filled(o), {"side", "legs"}) /\ Keeps(Filled(q), Filled(w), {"side", "legs"})
        BY <2>3, <2>4, <3>1, FieldReaches
      <3>3. Filled(p)[f] = Filled(o)[f] /\ Filled(q)[f] = Filled(w)[f]
        BY <2>1, <2>6, <3>2 DEF Keeps
      <3> QED BY <3>3 DEF p, q
    <2> QED BY <2>5, <2>6
  <1>6. CASE e = "instrument"
    <2>1. f \notin {"session", "strategy", "legs"}
      BY <1>6 DEF Derived
    <2>3. IsOrder(p) /\ Keeps(p, o, {"instrument"}) /\ p.instrument = "CRYPTO"
      BY <1>6, InstrumentEdited
    <2>4. IsOrder(q) /\ Keeps(q, w, {"instrument"}) /\ q.instrument = "CRYPTO"
      BY <1>6, InstrumentEdited
    <2> HIDE DEF p, q
    <2>5. CASE f = "instrument"
      <3>1. Filled(p).instrument = DefaultInstrument(p) /\ Filled(q).instrument = DefaultInstrument(q)
        BY <2>3, <2>4, FilledFields
      <3>2. DefaultInstrument(p) = "CRYPTO" /\ DefaultInstrument(q) = "CRYPTO"
        <4>1. NoText # "CRYPTO"
          BY Zenon DEF NoText
        <4> QED BY <4>1, <2>3, <2>4 DEF DefaultInstrument, Or
      <3> QED BY <2>5, <3>1, <3>2 DEF p, q
    <2>6. CASE f # "instrument"
      <3> DEFINE D == {"instrument", "session", "strategy", "legs"}
      <3>1. Keeps(p, o, D) /\ Keeps(q, w, D)
        BY <2>3, <2>4 DEF Keeps
      <3>2. Keeps(Filled(p), Filled(o), D) /\ Keeps(Filled(q), Filled(w), D)
        BY <2>3, <2>4, <3>1, FieldReaches
      <3>3. Filled(p)[f] = Filled(o)[f] /\ Filled(q)[f] = Filled(w)[f]
        BY <2>1, <2>6, <3>2 DEF Keeps
      <3> QED BY <3>3 DEF p, q
    <2> QED BY <2>5, <2>6
  <1>7. CASE e = "legs"
    <2>1. f \notin {"instrument", "session", "strategy", "legs"}
      BY <1>7 DEF Derived
    <2> DEFINE D == {"instrument", "session", "strategy", "legs"}
               a == Edited(o, "legs")
               b == Edited(w, "legs")
    <2>2. IsOrder(a) /\ Keeps(a, o, D)
      BY AppendLeg DEF Keeps
    <2>3. IsOrder(b) /\ Keeps(b, w, D)
      BY AppendLeg DEF Keeps
    <2> HIDE DEF a, b
    <2>4. Keeps(Filled(a), Filled(o), D) /\ Keeps(Filled(b), Filled(w), D)
      BY <2>2, <2>3, FieldReaches
    <2>5. Filled(a)[f] = Filled(o)[f] /\ Filled(b)[f] = Filled(w)[f]
      BY <2>1, <2>4 DEF Keeps
    <2> QED BY <1>7, <2>5 DEF a, b
  <1>8. CASE e = "ask"
    <2>1. p = SetNum(o, "ask", Price(3, 2)) /\ q = SetNum(w, "ask", Price(3, 2))
      BY <1>8 DEF Edited, With
    <2> QED BY <2>1, SetNumAgrees
  <1>9. CASE e = "id"
    <2>1. p = [o EXCEPT !.id = NoId] /\ q = [w EXCEPT !.id = NoId]
      BY <1>9 DEF Edited, With
    <2> HIDE DEF p, q
    <2>2. IsOrder(p) /\ \A g \in OrderFields \ {"id"} : p[g] = o[g]
      BY <2>1, AssignId
    <2>3. IsOrder(q) /\ \A g \in OrderFields \ {"id"} : q[g] = w[g]
      BY <2>1, AssignId
    <2>4. Filled(p)[f] = Filled(o)[f] /\ Filled(q)[f] = Filled(w)[f]
      BY <2>2, <2>3, FilledButId
    <2> QED BY <2>4 DEF p, q
  <1> QED BY <1>1, <1>2, <1>3, <1>4, <1>5, <1>6, <1>7, <1>8, <1>9, EditNames

(***************************************************************************)
(* The constructors.                                                       *)
(***************************************************************************)

\* Every nonempty set of naturals has a least element: the intervals up to its
\* elements are finite sets, and strict inclusion of finite sets is well-founded.
LEMMA Least ==
  ASSUME NEW T, T \subseteq Nat, T # {}
  PROVE  \E x \in T : \A y \in T : x <= y
  <1> DEFINE R == StrictSubsetOrdering(Nat)
             U == {0..k : k \in T}
  <1>1. IsWellFoundedOn(R, FiniteSubsetsOf(Nat))
    BY FS_StrictSubsetOrderingWellFounded
  <1>2. \A k \in Nat : 0..k \in FiniteSubsetsOf(Nat)
    <2>1. \A k \in Nat : IsFiniteSet(0..k) /\ 0..k \subseteq Nat
      BY FS_Interval
    <2> QED BY <2>1 DEF FiniteSubsetsOf
  <1>3. U \subseteq FiniteSubsetsOf(Nat) /\ U # {}
    BY <1>2
  <1>4. \A x, y \in Nat : y < x => <<0..y, 0..x>> \in R
    <2>1. SUFFICES ASSUME NEW x \in Nat, NEW y \in Nat, y < x
                   PROVE  <<0..y, 0..x>> \in R
      OBVIOUS
    <2>2. 0..y \subseteq 0..x /\ x \in 0..x /\ x \notin 0..y /\ 0..y \subseteq Nat /\ 0..x \subseteq Nat
      BY <2>1
    <2> QED BY <2>2 DEF StrictSubsetOrdering
  <1> HIDE DEF R
  <1>5. PICK I \in U : \A J \in U : <<J, I>> \notin R
    BY <1>1, <1>3, WFMin
  <1>6. PICK x \in T : I = 0..x
    BY <1>5
  <1>7. \A y \in T : ~(y < x)
    BY <1>4, <1>5, <1>6
  <1> QED BY <1>7

\* A constructor that assigns several roles to one order has a last place for it.
LEMMA Last ==
  ASSUME NEW n \in Nat, NEW S, S \subseteq 1..n, S # {}
  PROVE  (CHOOSE k \in S : \A j \in S : j <= k) \in S
  <1> DEFINE T == {n - k : k \in S}
  <1>0. \A k \in S : k \in 1..n /\ n - k \in Nat
    OBVIOUS
  <1>1. T \subseteq Nat /\ T # {}
    BY <1>0
  <1>2. PICK x \in T : \A y \in T : x <= y
    BY <1>1, Least
  <1>3. PICK k \in S : x = n - k
    BY <1>2
  <1>4. ASSUME NEW j \in S
        PROVE  j <= k
    <2>1. n - k <= n - j
      BY <1>2, <1>3
    <2> QED BY <2>1, <1>0
  <1> QED BY <1>4

LeftAlone(c, args, roles) ==
  /\ \A k \in 1..Len(args) : args[k] # c
  /\ \A values : Assigned(values, args, roles)[c] = values[c]

GivenRole(c, args, roles) ==
  /\ \E k \in 1..Len(args) : args[k] = c
  /\ \E role \in Roles : \A values :
       Assigned(values, args, roles)[c] = With(values[c], "combo", role)

\* What a constructor does to one order, whatever the values: nothing, or a role.
LEMMA AssignedCell ==
  ASSUME NEW args, Len(args) \in Nat, NEW roles, \A k \in 1..Len(args) : roles[k] \in Roles,
         NEW c \in Cells
  PROVE  LeftAlone(c, args, roles) \/ GivenRole(c, args, roles)
  <1> DEFINE places == {k \in 1..Len(args) : args[k] = c}
             last == CHOOSE k \in places : \A j \in places : j <= k
  <1>1. CASE places = {}
    <2>1. \A values : Assigned(values, args, roles)[c] = values[c]
      BY <1>1 DEF Assigned
    <2> QED BY <1>1, <2>1 DEF LeftAlone
  <1>2. CASE places # {}
    <2>1. last \in places
      BY <1>2, Last
    <2>2. roles[last] \in Roles
      BY <2>1
    <2>3. \A values : Assigned(values, args, roles)[c] = [values[c] EXCEPT !["combo"] = roles[last]]
      BY <1>2 DEF Assigned
    <2> HIDE DEF last
    <2>4. \A values : Assigned(values, args, roles)[c] = With(values[c], "combo", roles[last])
      BY <2>3 DEF With
    <2> QED BY <1>2, <2>2, <2>4 DEF GivenRole
  <1> QED BY <1>1, <1>2

\* An order with another role is an order, with its id.
LEMMA CombosAreOrders ==
  ASSUME NEW o, IsOrder(o), NEW role
  PROVE  LET p == With(o, "combo", role) IN
         IsOrder(p) /\ p.combo = role /\ p.id = o.id
  <1>1. "combo" \in OrderFields \ {"id", "num", "legs"}
    BY FieldNames
  <1> DEFINE p == With(o, "combo", role)
  <1>2. IsOrder(p) /\ p["combo"] = role /\ \A f \in OrderFields \ {"combo"} : p[f] = o[f]
    BY <1>1, Assign
  <1> HIDE DEF p
  <1>3. IsOrder(p) /\ p.combo = role /\ p.id = o.id
    BY <1>2, FieldNames
  <1> QED BY <1>3 DEF p

\* The id prepare makes up is an id.
LEMMA FreshId ==
  ASSUME DeskAssumption, calls \in Nat, NEW c \in Cells \cup {0}
  PROVE  Fresh(c) \in Nat \ {NoId}
  <1> DEFINE n == Len(Templates)
  <1>1. n \in Nat /\ c \in Nat
    BY DEF DeskAssumption
  <1>2. (n + 1) * (calls + 1) \in Nat \ {0}
    BY <1>1
  <1> QED BY <1>1, <1>2 DEF Fresh, NoId

=============================================================================
