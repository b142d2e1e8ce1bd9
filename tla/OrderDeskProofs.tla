-------------------------- MODULE OrderDeskProofs --------------------------
(***************************************************************************)
(* Theorems about OrderDesk, for any set of orders and any bounds: its     *)
(* types, that an id stands for one order as it was sent, that what was    *)
(* previewed is what is placed, and that what is sent is what the          *)
(* documentation allows.  They follow from one inductive invariant.        *)
(***************************************************************************)
EXTENDS OrderLemmas

(***************************************************************************)
(* The invariant.                                                          *)
(***************************************************************************)

\* An order as prepare leaves it when it accepts it: settled, valid, with an id.
Passed(o) == IsOrder(o) /\ Settled(o) /\ Valid(o) /\ o.id \in Nat \ {NoId}

\* The orders of the call under way, as the caller has them.
Ordered == [k \in 1..Len(call.cells) |-> order[call.cells[k]]]

\* A request under way holds what the caller's orders are since they were prepared.
CallOK ==
  /\ call.op = "idle" => call = Idle
  /\ Len(call.body) = Len(call.cells) /\ call.body = [k \in 1..Len(call.cells) |-> call.body[k]]
  /\ call.op \in {"place", "preview", "replace"} => Len(call.cells) = 1
  /\ call.op \notin {"idle", "replace"} => \A k \in 1..Len(call.cells) :
       /\ Passed(order[call.cells[k]])
       /\ call.body[k] = IF IsPlacement THEN ForPlacement(order[call.cells[k]])
                                        ELSE order[call.cells[k]]
  /\ call.op \in {"placeGroup", "previewGroup"} => \E kind \in Kinds : GroupOK(Ordered, kind)
  /\ call.op = "replace" => /\ DOMAIN call.body[1].num = ModFields
                            /\ \A f \in ModFields : ~IsNull(call.body[1].num[f])

\* An order keeps the ID it was accepted under until the caller empties it.
IdStable ==
  \A a \in accepted : /\ a.gen <= gen[a.cell] /\ a.id # NoId
                      /\ a.gen = gen[a.cell] => order[a.cell].id = a.id

\* Once filled in, an order is what the caller's own fields give, but for those
\* derived from one that was changed after.
WantOK ==
  \A c \in Cells :
    /\ c \notin touched => order[c] = want[c]
    /\ want[c].id = NoId \/ want[c].id = order[c].id
    /\ \A f \in OrderFields \ {"id"} : f \notin loose[c] => Filled(order[c])[f] = Filled(want[c])[f]

\* A preview is of the order as it still is, with nothing left to fill in.
PreviewOK ==
  \A c \in Cells : previewed[c] # NotPreviewed =>
    /\ previewed[c] = <<order[c]>>
    /\ Settled(order[c]) /\ order[c].id \notin {NoId, BadId}

\* The inductive invariant: two of the properties and what they rest on.
Inv == TypeOK /\ CallOK /\ IdStable /\ OneOrderPerValue /\ WantOK /\ PreviewOK

\* Between calls nothing is under way.
LEMMA IdleType ==
  /\ Idle.op = "idle" /\ Idle.cells = <<>> /\ Idle.body = <<>>
  /\ Len(Idle.cells) = 0 /\ Len(Idle.body) = 0
  /\ Idle.body = [k \in 1..Len(Idle.cells) |-> Idle.body[k]]
  /\ Idle.cells \in Seq(Cells) /\ DOMAIN Idle.body = DOMAIN Idle.cells
  BY DEF Idle

\* Nothing is under way: what remains of the type and of CallOK is immediate.
LEMMA IdleCall ==
  ASSUME call = Idle
  PROVE  CallOK
  BY IdleType DEF CallOK

\* The invariant holds of the caller's own orders, before any call.
LEMMA InitInv ==
  ASSUME DeskAssumption, Init
  PROVE  Inv
  <1>1. \A c \in Cells : order[c] \in Templates[c] /\ IsOrder(order[c])
    BY DEF Init, DeskAssumption
  <1>2. DOMAIN order = Cells /\ want = order
    BY DEF Init
  <1>3. \A c \in Cells : order[c].combo \in Combos(c)
    BY <1>1 DEF Combos
  <1>4. TypeOK
    <2>1. /\ groups \in Seq([id : GroupIds, cells : Seq(Args)])
          /\ accepted \subseteq [id : Nat, cell : Cells, gen : Nat]
          /\ calls \in 0..MaxCalls /\ edits \in 0..MaxEdits
          /\ touched \subseteq Cells /\ loose \in [Cells -> SUBSET OrderFields]
          /\ DOMAIN previewed = Cells /\ gen \in [Cells -> Nat]
      BY DEF Init, DeskAssumption
    <2>2. \A c \in Cells : Len(previewed[c]) \in 0..1
      BY DEF Init, NotPreviewed
    <2>3. call = Idle
      BY DEF Init
    <2> QED BY <1>1, <1>2, <1>3, <2>1, <2>2, <2>3, IdleType DEF TypeOK
  <1>5. CallOK
    BY IdleCall DEF Init
  <1>6. IdStable /\ OneOrderPerValue
    BY DEF Init, IdStable, OneOrderPerValue
  <1>7. WantOK
    BY <1>2 DEF WantOK
  <1>8. PreviewOK
    BY DEF Init, PreviewOK
  <1> QED BY <1>4, <1>5, <1>6, <1>7, <1>8 DEF Inv

\* What the caller changes in one order leaves.
LEMMA EditStep ==
  ASSUME DeskAssumption, Inv, NEW c \in Cells, NEW e \in AllEdits, Edit(c, e)
  PROVE  Inv'
  <1>1. TypeOK /\ CallOK /\ IdStable /\ OneOrderPerValue /\ WantOK /\ PreviewOK
    BY DEF Inv
  <1>2. /\ IsOrder(Edited(order[c], e)) /\ Edited(order[c], e).combo = order[c].combo
        /\ e # "id" => Edited(order[c], e).id = order[c].id
        /\ e = "id" => Edited(order[c], e).id = NoId
        /\ IsOrder(Edited(want[c], e))
        /\ e # "id" => Edited(want[c], e).id = want[c].id
        /\ e = "id" => Edited(want[c], e).id = NoId
    BY <1>1, EditedOrder DEF TypeOK
  <1>3. /\ DOMAIN order' = Cells /\ order'[c] = Edited(order[c], e)
        /\ \A d \in Cells \ {c} : order'[d] = order[d]
        /\ DOMAIN want' = Cells /\ want'[c] = Edited(want[c], e)
        /\ \A d \in Cells \ {c} : want'[d] = want[d]
    BY <1>1 DEF TypeOK, Edit
  <1>4. /\ gen' \in [Cells -> Nat]
        /\ e # "id" => gen' = gen
        /\ e = "id" => gen'[c] = gen[c] + 1
        /\ \A d \in Cells \ {c} : gen'[d] = gen[d]
    <2>1. gen \in [Cells -> Nat]
      BY <1>1 DEF TypeOK
    <2>2. gen' = IF e = "id" THEN [gen EXCEPT ![c] = gen[c] + 1] ELSE gen
      BY DEF Edit
    <2>3. CASE e = "id"
      BY <2>1, <2>2, <2>3
    <2>4. CASE e # "id"
      BY <2>1, <2>2, <2>4
    <2> QED BY <2>3, <2>4
  <1>5. /\ loose' \in [Cells -> SUBSET OrderFields]
        /\ c \notin touched => loose' = loose
        /\ c \in touched => loose'[c] = loose[c] \cup Derived(e)
        /\ \A d \in Cells \ {c} : loose'[d] = loose[d]
    <2>1. Derived(e) \subseteq OrderFields
      BY FieldNames DEF Derived
    <2> QED BY <1>1, <2>1 DEF TypeOK, Edit
  <1>6. /\ DOMAIN previewed' = Cells /\ previewed'[c] = NotPreviewed
        /\ \A d \in Cells \ {c} : previewed'[d] = previewed[d]
    BY <1>1 DEF TypeOK, Edit
  <1>7. UNCHANGED <<groups, call, accepted, calls, touched>> /\ call = Idle /\ edits' = edits + 1
        /\ edits < MaxEdits
    BY DEF Edit
  <1>8. TypeOK'
    <2>1. \A d \in Cells : IsOrder(order'[d]) /\ order'[d].combo \in Combos(d) /\ IsOrder(want'[d])
      BY <1>1, <1>2, <1>3 DEF TypeOK
    <2>2. edits' \in 0..MaxEdits
      BY <1>1, <1>7 DEF TypeOK, DeskAssumption
    <2>3. \A d \in Cells : Len(previewed'[d]) \in 0..1
      <3>1. Len(NotPreviewed) \in 0..1
        BY DEF NotPreviewed
      <3>2. \A d \in Cells : Len(previewed[d]) \in 0..1
        BY <1>1 DEF TypeOK
      <3> QED BY <3>1, <3>2, <1>6
    <2> QED BY <1>1, <1>3, <1>4, <1>5, <1>6, <1>7, <2>1, <2>2, <2>3 DEF TypeOK
  <1>9. CallOK'
    BY <1>7, IdleType DEF CallOK
  <1>10. IdStable'
    <2>1. SUFFICES ASSUME NEW a \in accepted
                   PROVE  /\ a.gen <= gen'[a.cell] /\ a.id # NoId
                          /\ a.gen = gen'[a.cell] => order'[a.cell].id = a.id
      BY <1>7 DEF IdStable
    <2>2. a.cell \in Cells /\ a.gen \in Nat /\ gen[a.cell] \in Nat
      BY <1>1 DEF TypeOK
    <2>3. a.gen <= gen[a.cell] /\ a.id # NoId /\ (a.gen = gen[a.cell] => order[a.cell].id = a.id)
      BY <1>1 DEF IdStable
    <2>4. CASE a.cell # c
      BY <2>2, <2>3, <2>4, <1>3, <1>4
    <2>5. CASE a.cell = c
      BY <2>2, <2>3, <2>5, <1>2, <1>3, <1>4
    <2> QED BY <2>4, <2>5
  <1>11. OneOrderPerValue'
    BY <1>1, <1>7 DEF OneOrderPerValue
  <1>12. WantOK'
    <2>1. SUFFICES ASSUME NEW d \in Cells
                   PROVE  /\ d \notin touched => order'[d] = want'[d]
                          /\ want'[d].id = NoId \/ want'[d].id = order'[d].id
                          /\ \A f \in OrderFields \ {"id"} : f \notin loose'[d] =>
                               Filled(order'[d])[f] = Filled(want'[d])[f]
      BY <1>7 DEF WantOK
    <2>2. /\ d \notin touched => order[d] = want[d]
          /\ want[d].id = NoId \/ want[d].id = order[d].id
          /\ \A f \in OrderFields \ {"id"} : f \notin loose[d] => Filled(order[d])[f] = Filled(want[d])[f]
      BY <1>1 DEF WantOK
    <2>3. CASE d # c
      BY <2>2, <2>3, <1>3, <1>5
    <2>4. CASE d = c
      <3>1. c \notin touched => order'[c] = want'[c]
        BY <2>2, <2>4, <1>3
      <3>2. want'[c].id = NoId \/ want'[c].id = order'[c].id
        BY <2>2, <2>4, <1>2, <1>3
      <3>3. ASSUME c \in touched, NEW f \in OrderFields \ {"id"}, f \notin loose'[c]
            PROVE  Filled(order'[c])[f] = Filled(want'[c])[f]
        <4>1. f \notin loose[c] /\ f \notin Derived(e)
          BY <1>5, <3>3
        <4>2. IsOrder(order[c]) /\ IsOrder(want[c])
          BY <1>1 DEF TypeOK
        <4> QED BY <4>1, <4>2, <2>2, <2>4, <1>3, EditedAgrees
      <3> QED BY <3>1, <3>2, <3>3, <2>4
    <2> QED BY <2>3, <2>4
  <1>13. PreviewOK'
    BY <1>1, <1>3, <1>6 DEF PreviewOK
  <1> QED BY <1>8, <1>9, <1>10, <1>11, <1>12, <1>13 DEF Inv

\* What a constructor changes: the roles, and no preview of a changed order is kept.
LEMMA BuildStep ==
  ASSUME DeskAssumption, Inv, NEW args, Len(args) \in Nat,
         NEW members \in Seq(Args), NEW roles, \A k \in 1..Len(args) : roles[k] \in Roles,
         Build(args, members, roles)
  PROVE  Inv'
  <1>1. TypeOK /\ CallOK /\ IdStable /\ OneOrderPerValue /\ WantOK /\ PreviewOK
    BY DEF Inv
  <1>2. /\ order' = Assigned(order, args, roles) /\ want' = Assigned(want, args, roles)
        /\ DOMAIN order' = Cells /\ DOMAIN want' = Cells
    BY DEF Build, Assigned
  <1>3. ASSUME NEW c \in Cells
        PROVE  \/ /\ order'[c] = order[c] /\ want'[c] = want[c]
                  /\ \A k \in 1..Len(args) : args[k] # c
               \/ /\ \E k \in 1..Len(args) : args[k] = c
                  /\ \E role \in Roles : /\ order'[c] = With(order[c], "combo", role)
                                        /\ want'[c] = With(want[c], "combo", role)
    <2>1. CASE LeftAlone(c, args, roles)
      BY <1>2, <2>1 DEF LeftAlone
    <2>2. CASE GivenRole(c, args, roles)
      <3>1. PICK role \in Roles : \A values :
                    Assigned(values, args, roles)[c] = With(values[c], "combo", role)
        BY <2>2 DEF GivenRole
      <3>2. order'[c] = With(order[c], "combo", role)
        BY <3>1, <1>2
      <3>3. want'[c] = With(want[c], "combo", role)
        BY <3>1, <1>2
      <3> QED BY <2>2, <3>2, <3>3 DEF GivenRole
    <2>3. Len(args) \in Nat
      OBVIOUS
    <2>4. LeftAlone(c, args, roles) \/ GivenRole(c, args, roles)
      BY <2>3, AssignedCell
    <2> QED BY <2>1, <2>2, <2>4, Zenon
  <1>4. UNCHANGED <<call, accepted, calls, touched, loose, gen>> /\ call = Idle
        /\ edits' = edits + 1 /\ edits < MaxEdits
    BY DEF Build
  <1>5. /\ DOMAIN previewed' = Cells
        /\ \A c \in Cells : /\ previewed'[c] = previewed[c] \/ previewed'[c] = NotPreviewed
                            /\ (\E k \in 1..Len(args) : args[k] = c) => previewed'[c] = NotPreviewed
    BY DEF Build
  <1>6. \A c \in Cells : /\ IsOrder(order[c]) /\ IsOrder(want[c]) /\ order[c].combo \in Combos(c)
    BY <1>1 DEF TypeOK
  <1>7. \A c \in Cells : /\ IsOrder(order'[c]) /\ IsOrder(want'[c]) /\ order'[c].combo \in Combos(c)
                        /\ order'[c].id = order[c].id /\ want'[c].id = want[c].id
    <2>1. \A c \in Cells : Roles \subseteq Combos(c)
      BY DEF Combos
    <2> QED BY <1>3, <1>6, <2>1, CombosAreOrders
  <1>8. TypeOK'
    <2>1. groups' \in Seq([id : GroupIds, cells : Seq(Args)])
      <3>1. [id |-> NoId, cells |-> members] \in [id : GroupIds, cells : Seq(Args)]
        BY DEF NoId, GroupIds
      <3>2. groups' = Append(groups, [id |-> NoId, cells |-> members])
        BY DEF Build
      <3>3. groups \in Seq([id : GroupIds, cells : Seq(Args)])
        BY <1>1 DEF TypeOK
      <3> QED BY <3>1, <3>2, <3>3
    <2>2. edits' \in 0..MaxEdits
      BY <1>1, <1>4 DEF TypeOK, DeskAssumption
    <2>3. \A d \in Cells : Len(previewed'[d]) \in 0..1
      BY <1>1, <1>5 DEF TypeOK, NotPreviewed
    <2> QED BY <1>1, <1>2, <1>4, <1>5, <1>7, <2>1, <2>2, <2>3 DEF TypeOK
  <1>9. CallOK'
    BY <1>4, IdleType DEF CallOK
  <1>10. IdStable'
    <2>1. \A a \in accepted : a.cell \in Cells
      BY <1>1 DEF TypeOK
    <2> QED BY <1>1, <1>4, <1>7, <2>1 DEF IdStable
  <1>11. OneOrderPerValue'
    BY <1>1, <1>4 DEF OneOrderPerValue
  <1>12. WantOK'
    <2>1. SUFFICES ASSUME NEW c \in Cells
                   PROVE  /\ c \notin touched => order'[c] = want'[c]
                          /\ want'[c].id = NoId \/ want'[c].id = order'[c].id
                          /\ \A f \in OrderFields \ {"id"} : f \notin loose[c] =>
                               Filled(order'[c])[f] = Filled(want'[c])[f]
      BY <1>4 DEF WantOK
    <2>2. /\ c \notin touched => order[c] = want[c]
          /\ want[c].id = NoId \/ want[c].id = order[c].id
          /\ \A f \in OrderFields \ {"id"} : f \notin loose[c] => Filled(order[c])[f] = Filled(want[c])[f]
      BY <1>1 DEF WantOK
    <2>3. CASE order'[c] = order[c] /\ want'[c] = want[c]
      BY <2>2, <2>3
    <2>4. ASSUME NEW role \in Roles, order'[c] = With(order[c], "combo", role),
                 want'[c] = With(want[c], "combo", role)
          PROVE  /\ c \notin touched => order'[c] = want'[c]
                 /\ \A f \in OrderFields \ {"id"} : f \notin loose[c] =>
                       Filled(order'[c])[f] = Filled(want'[c])[f]
      BY <2>2, <2>4, <1>6, AssignAgrees
    <2>5. want'[c].id = NoId \/ want'[c].id = order'[c].id
      BY <2>2, <1>7
    <2> QED BY <1>3, <2>3, <2>4, <2>5
  <1>13. PreviewOK'
    <2>1. \A c \in Cells : previewed'[c] # NotPreviewed =>
            order'[c] = order[c] /\ previewed'[c] = previewed[c]
      BY <1>3, <1>5
    <2> QED BY <1>1, <2>1 DEF PreviewOK
  <1> QED BY <1>8, <1>9, <1>10, <1>11, <1>12, <1>13 DEF Inv

\* NewBracket gives each of its arguments the role of its place.
LEMMA BracketStep ==
  ASSUME DeskAssumption, Inv, NEW args \in BracketArgs, Bracket(args)
  PROVE  Inv'
  <1>1. args \in Args \X Args \X Args
    BY DEF DeskAssumption
  <1>2. Len(args) = 3 /\ args[1] \in Args /\ args[2] \in Args /\ args[3] \in Args
    BY <1>1
  <1>3. \A a \in Args : Given(a) \in Seq(Args)
    BY DEF Given
  <1>4. Given(args[1]) \o Given(args[2]) \o Given(args[3]) \in Seq(Args)
    BY <1>2, <1>3
  <1>5. \A k \in 1..Len(args) : [j \in 1..3 |-> BracketRole(j)][k] \in Roles
    BY <1>2 DEF BracketRole, Roles
  <1> DEFINE members == Given(args[1]) \o Given(args[2]) \o Given(args[3])
             roles == [k \in 1..3 |-> BracketRole(k)]
  <1>6. Build(args, members, roles)
    BY DEF Bracket
  <1>7. members \in Seq(Args) /\ \A k \in 1..Len(args) : roles[k] \in Roles
    BY <1>4, <1>5
  <1> HIDE DEF members, roles
  <1>8. Len(args) \in Nat
    BY <1>2
  <1> QED BY <1>6, <1>7, <1>8, BuildStep, Zenon

\* So do NewOTO, NewOTOCO and NewOCO, however many arguments they are given.
LEMMA ListStep ==
  ASSUME DeskAssumption, Inv, NEW args \in ListArgs,
         Triggered(args, "OTO") \/ Triggered(args, "OTOCO") \/ OCO(args)
  PROVE  Inv'
  <1>1. args \in Seq(Args) /\ Len(args) \in Nat
    BY DEF DeskAssumption
  <1>2. \A kind \in {"OTO", "OTOCO"} : \A k \in 1..Len(args) :
          [j \in 1..Len(args) |-> TriggerRole(j, kind)][k] \in Roles
    BY DEF TriggerRole, Roles
  <1>3. \A k \in 1..Len(args) : [j \in 1..Len(args) |-> "OCO"][k] \in Roles
    BY DEF Roles
  <1>4. CASE Triggered(args, "OTO")
    BY <1>1, <1>2, <1>4, BuildStep DEF Triggered
  <1>5. CASE Triggered(args, "OTOCO")
    BY <1>1, <1>2, <1>5, BuildStep DEF Triggered
  <1>6. CASE OCO(args)
    BY <1>1, <1>3, <1>6, BuildStep DEF OCO
  <1> QED BY <1>4, <1>5, <1>6

(***************************************************************************)
(* Preparing.                                                              *)
(***************************************************************************)

\* A call that begins has a number the bound allows.
LEMMA CallsType ==
  ASSUME DeskAssumption, TypeOK
  PROVE  calls \in Nat /\ (calls < MaxCalls => calls + 1 \in 0..MaxCalls)
  BY DEF DeskAssumption, TypeOK

\* What prepare makes of the order in a cell.
LEMMA PreparedCell ==
  ASSUME DeskAssumption, TypeOK, NEW c \in Cells
  PROVE  LET p == PreparedOrder(c) IN
         /\ IsOrder(p) /\ p.combo \in Combos(c) /\ p.id # NoId
         /\ order[c].id # NoId => p.id = order[c].id
         /\ \A f \in OrderFields \ {"id"} : Filled(p)[f] = Filled(order[c])[f]
         /\ Settled(order[c]) /\ order[c].id \notin {NoId, BadId} => p = order[c]
         /\ Valid(order[c]) => Passed(p)
  <1> DEFINE o == order[c]
             fresh == Fresh(c)
             p == PreparedOrder(c)
  <1>1. IsOrder(o) /\ o.combo \in Combos(c)
    BY DEF TypeOK
  <1>2. fresh \in Nat \ {NoId}
    BY CallsType, FreshId
  <1>3. p = Prepared(o, fresh)
    BY DEF PreparedOrder
  <1> HIDE DEF o, fresh, p
  <1>4. /\ IsOrder(p) /\ p.id # NoId /\ (o.id = NoId => p.id = fresh) /\ (o.id # NoId => p.id = o.id)
        /\ o.id = BadId => p = o
        /\ o.id # BadId => /\ Settled(p) /\ p.id # BadId
                           /\ \A f \in OrderFields \ {"id"} : p[f] = Filled(o)[f]
                           /\ p = Filled(WithId(o, fresh))
    BY <1>1, <1>2, <1>3, PreparedFields
  <1>5. o.id # BadId => Filled(p) = p
    BY <1>4, SettledIsFilled
  <1>6. \A f \in OrderFields \ {"id"} : Filled(p)[f] = Filled(o)[f]
    BY <1>4, <1>5
  <1>7. p.combo \in Combos(c)
    <2>1. CASE o.id = BadId
      BY <2>1, <1>1, <1>4
    <2>2. CASE o.id # BadId
      <3>1. p.combo = Filled(o).combo
        BY <2>2, <1>4, FieldNames
      <3>2. Filled(o).combo = Or(o.combo, Normal)
        BY <1>1, FilledFields
      <3> QED BY <3>1, <3>2, <1>1 DEF Or, Combos
    <2> QED BY <2>1, <2>2
  <1>8. Settled(o) /\ o.id \notin {NoId, BadId} => p = o
    <2>1. SUFFICES ASSUME Settled(o), o.id # NoId, o.id # BadId PROVE p = o
      OBVIOUS
    <2>2. WithId(o, fresh) = o
      BY <2>1 DEF WithId
    <2> QED BY <2>1, <2>2, <1>1, <1>4, SettledIsFilled
  <1>9. Valid(o) => Passed(p)
    BY <1>1, <1>2, <1>3, ValidTwice DEF Passed
  <1> QED BY <1>4, <1>6, <1>7, <1>8, <1>9 DEF o, p

\* A call that prepares `cells`, and that sends a group only if it passed.
Preparing(op, cells, batch, placing, sends) ==
  /\ Prepare(op, cells, batch, placing, sends)
  /\ placing <=> op \in {"place", "batch", "placeGroup"}
  /\ op \in {"place", "preview"} => Len(cells) = 1
  /\ op \in {"placeGroup", "previewGroup"} /\ sends =>
       \E kind \in Kinds : GroupOK(Bodies(cells, FALSE), kind)
  /\ UNCHANGED <<accepted, want, loose, gen>>

\* What preparing leaves, whether it goes on to a request or not.
LEMMA Prepares ==
  ASSUME DeskAssumption, Inv, call = Idle, NEW op \in Calling \ {"replace"},
         NEW cells \in Seq(Cells), NEW batch, NEW placing \in BOOLEAN, NEW sends,
         Preparing(op, cells, batch, placing, sends)
  PROVE  /\ DOMAIN order' = Cells /\ touched' \subseteq Cells
         /\ \A c \in Cells : IsOrder(order'[c]) /\ order'[c].combo \in Combos(c)
         /\ \A c \in Cells : previewed[c] # NotPreviewed => order'[c] = order[c]
         /\ call'.op \in Calling \cup {"idle"} /\ call'.cells \in Seq(Cells)
         /\ DOMAIN call'.body = DOMAIN call'.cells
         /\ \A k \in 1..Len(call'.body) : IsOrder(call'.body[k])
         /\ call' # Idle => /\ call'.body = Bodies(cells, placing) /\ call'.cells = cells
                            /\ \A k \in 1..Len(cells) : /\ order'[cells[k]] = PreparedOrder(cells[k])
                                                        /\ Passed(order'[cells[k]])
         /\ CallOK' /\ IdStable' /\ WantOK'
  <1>1. TypeOK /\ IdStable /\ WantOK /\ PreviewOK
    BY DEF Inv
  <1>0. /\ Prepare(op, cells, batch, placing, sends)
        /\ placing <=> op \in {"place", "batch", "placeGroup"}
        /\ op \in {"place", "preview"} => Len(cells) = 1
        /\ op \in {"placeGroup", "previewGroup"} /\ sends =>
             \E kind \in Kinds : GroupOK(Bodies(cells, FALSE), kind)
        /\ UNCHANGED <<accepted, want, loose, gen>>
    BY DEF Preparing
  <1>2. Len(cells) \in Nat /\ \A k \in 1..Len(cells) : cells[k] \in Cells
    OBVIOUS
  <1> DEFINE reached == Reached(cells, batch)
             goes == sends /\ \A k \in 1..Len(cells) : ~Bad(cells[k], batch)
  <1>3. reached \subseteq Cells
    BY <1>2 DEF Reached
  <1>4. /\ DOMAIN order' = Cells /\ touched' = touched \cup reached
        /\ \A c \in Cells : order'[c] = IF c \in reached THEN PreparedOrder(c) ELSE order[c]
    BY <1>0 DEF Prepare, WriteBack
  <1>5. /\ ~goes => call' = Idle
        /\ goes => call' = [op |-> op, cells |-> cells, body |-> Bodies(cells, placing)]
    BY <1>0 DEF Prepare
  <1>6. goes => \A k \in 1..Len(cells) : cells[k] \in reached /\ Valid(order[cells[k]])
    <2> SUFFICES ASSUME goes, NEW k \in 1..Len(cells)
                 PROVE  cells[k] \in reached /\ Valid(order[cells[k]])
      OBVIOUS
    <2>1. \A j \in 1..Len(cells) : ~Bad(cells[j], batch)
      OBVIOUS
    <2>2. \A j \in 1..(k - 1) : ~Bad(cells[j], batch)
      BY <1>2, <2>1
    <2>3. cells[k] \in reached
      BY <2>2 DEF Reached
    <2>4. Valid(order[cells[k]])
      BY <2>1 DEF Bad
    <2> QED BY <2>3, <2>4
  <1> HIDE DEF reached, goes
  <1>7. \A c \in Cells : IsOrder(order[c]) /\ order[c].combo \in Combos(c)
    BY <1>1 DEF TypeOK
  <1>8. ASSUME NEW c \in Cells
        PROVE  /\ IsOrder(order'[c]) /\ order'[c].combo \in Combos(c)
               /\ order[c].id # NoId => order'[c].id = order[c].id
               /\ \A f \in OrderFields \ {"id"} : Filled(order'[c])[f] = Filled(order[c])[f]
               /\ Settled(order[c]) /\ order[c].id \notin {NoId, BadId} => order'[c] = order[c]
    <2>1. CASE c \notin reached
      BY <2>1, <1>4, <1>7
    <2>2. CASE c \in reached
      BY <2>2, <1>1, <1>4, PreparedCell
    <2> QED BY <2>1, <2>2
  <1>9. goes => \A k \in 1..Len(cells) : /\ order'[cells[k]] = PreparedOrder(cells[k])
                                         /\ Passed(order'[cells[k]])
    <2>1. SUFFICES ASSUME goes, NEW k \in 1..Len(cells)
                   PROVE  order'[cells[k]] = PreparedOrder(cells[k]) /\ Passed(order'[cells[k]])
      OBVIOUS
    <2>2. cells[k] \in Cells /\ cells[k] \in reached /\ Valid(order[cells[k]])
      BY <2>1, <1>2, <1>6
    <2>3. order'[cells[k]] = PreparedOrder(cells[k])
      BY <2>2, <1>4
    <2>4. Passed(PreparedOrder(cells[k]))
      BY <2>2, <1>1, PreparedCell
    <2> QED BY <2>3, <2>4
  <1>10. /\ Len(Bodies(cells, placing)) = Len(cells) /\ DOMAIN Bodies(cells, placing) = DOMAIN cells
         /\ \A k \in 1..Len(cells) :
              Bodies(cells, placing)[k] = IF placing THEN ForPlacement(PreparedOrder(cells[k]))
                                                     ELSE PreparedOrder(cells[k])
    BY <1>2 DEF Bodies
  <1>11. CallOK'
    <2>1. CASE ~goes
      BY <2>1, <1>5, IdleType DEF CallOK
    <2>2. CASE goes
      <3>1. call'.op = op /\ call'.cells = cells /\ call'.body = Bodies(cells, placing)
        BY <2>2, <1>5
      <3>2. op # "idle" /\ op # "replace"
        BY DEF Calling
      <3>3. IsPlacement' <=> placing
        BY <3>1, <1>0 DEF IsPlacement
      <3>4. \A k \in 1..Len(cells) :
              /\ Passed(order'[cells[k]])
              /\ call'.body[k] = IF IsPlacement' THEN ForPlacement(order'[cells[k]]) ELSE order'[cells[k]]
        BY <2>2, <3>1, <3>3, <1>9, <1>10
      <3>5. op \in {"placeGroup", "previewGroup"} => \E kind \in Kinds : GroupOK(Ordered', kind)
        <4>1. Ordered' = Bodies(cells, FALSE)
          BY <2>2, <3>1, <1>9 DEF Ordered, Bodies
        <4>2. sends
          BY <2>2 DEF goes
        <4> QED BY <4>1, <4>2, <1>0
      <3>6. Len(call'.body) = Len(cells) /\ call'.body = [k \in 1..Len(cells) |-> call'.body[k]]
        <4>1. Bodies(cells, placing) = [k \in 1..Len(cells) |-> Bodies(cells, placing)[k]]
          BY DEF Bodies
        <4> QED BY <3>1, <4>1, <1>10
      <3> QED BY <1>0, <3>1, <3>2, <3>4, <3>5, <3>6 DEF CallOK
    <2> QED BY <2>1, <2>2
  <1>12. /\ call'.op \in Calling \cup {"idle"} /\ call'.cells \in Seq(Cells)
         /\ DOMAIN call'.body = DOMAIN call'.cells
         /\ \A k \in 1..Len(call'.body) : IsOrder(call'.body[k])
    <2>1. CASE ~goes
      <3>1. call' = Idle
        BY <2>1, <1>5
      <3>2. \A k \in 1..Len(Idle.body) : IsOrder(Idle.body[k])
        BY IdleType
      <3>3. Idle.op \in Calling \cup {"idle"}
        BY IdleType
      <3> QED BY <3>1, <3>2, <3>3, IdleType
    <2>2. CASE goes
      <3>1. call'.op = op /\ call'.cells = cells /\ call'.body = Bodies(cells, placing)
        BY <2>2, <1>5
      <3>2. \A k \in 1..Len(cells) : IsOrder(Bodies(cells, placing)[k])
        BY <2>2, <1>9, <1>10, ForPlacementFields DEF Passed
      <3> QED BY <3>1, <3>2, <1>10
    <2> QED BY <2>1, <2>2
  <1>13. IdStable'
    <2>1. \A a \in accepted : a.cell \in Cells
      BY <1>1 DEF TypeOK
    <2> QED BY <2>1, <1>0, <1>1, <1>8 DEF IdStable
  <1>14. WantOK'
    <2>1. SUFFICES ASSUME NEW c \in Cells
                   PROVE  /\ c \notin touched' => order'[c] = want[c]
                          /\ want[c].id = NoId \/ want[c].id = order'[c].id
                          /\ \A f \in OrderFields \ {"id"} : f \notin loose[c] =>
                               Filled(order'[c])[f] = Filled(want[c])[f]
      BY <1>0 DEF WantOK
    <2>2. /\ c \notin touched => order[c] = want[c]
          /\ want[c].id = NoId \/ want[c].id = order[c].id
          /\ \A f \in OrderFields \ {"id"} : f \notin loose[c] => Filled(order[c])[f] = Filled(want[c])[f]
      BY <1>1 DEF WantOK
    <2> QED BY <2>2, <1>4, <1>8
  <1>15. \A c \in Cells : previewed[c] # NotPreviewed => order'[c] = order[c]
    BY <1>1, <1>8 DEF PreviewOK
  <1>16. touched' \subseteq Cells
    BY <1>1, <1>3, <1>4 DEF TypeOK
  <1>17. call' # Idle => goes /\ call'.body = Bodies(cells, placing) /\ call'.cells = cells
    BY <1>5
  <1> QED BY <1>4, <1>8, <1>9, <1>11, <1>12, <1>13, <1>14, <1>15, <1>16, <1>17

\* A name the caller gives a group touches no order.
LEMMA NameStep ==
  ASSUME DeskAssumption, Inv, NEW g \in 1..Len(groups), NameGroup(g)
  PROVE  Inv'
  <1>1. TypeOK /\ CallOK /\ IdStable /\ OneOrderPerValue /\ WantOK /\ PreviewOK
    BY DEF Inv
  <1>2. /\ UNCHANGED <<order, call, accepted, calls, want, touched, loose, previewed, gen>>
        /\ edits < MaxEdits /\ edits' = edits + 1
        /\ groups' = [groups EXCEPT ![g].id = BadId]
    BY DEF NameGroup, history
  <1>3. groups' \in Seq([id : GroupIds, cells : Seq(Args)])
    <2>1. groups \in Seq([id : GroupIds, cells : Seq(Args)])
      BY <1>1 DEF TypeOK
    <2>2. \A S : groups \in Seq(S) => groups[g] \in S
      OBVIOUS
    <2>3. BadId \in GroupIds
      BY DEF GroupIds
    <2>4. [groups[g] EXCEPT !.id = BadId] \in [id : GroupIds, cells : Seq(Args)]
      BY <2>1, <2>2, <2>3
    <2>5. groups' = [groups EXCEPT ![g] = [groups[g] EXCEPT !.id = BadId]]
      BY <1>2
    <2> QED BY <2>1, <2>4, <2>5
  <1>4. edits' \in 0..MaxEdits
    BY <1>1, <1>2 DEF TypeOK, DeskAssumption
  <1>5. TypeOK'
    BY <1>1, <1>2, <1>3, <1>4 DEF TypeOK
  <1>6. CallOK'
    BY <1>1, <1>2 DEF CallOK, IsPlacement, Ordered
  <1>7. IdStable' /\ OneOrderPerValue'
    BY <1>1, <1>2 DEF IdStable, OneOrderPerValue
  <1>8. WantOK'
    BY <1>1, <1>2 DEF WantOK
  <1>9. PreviewOK'
    BY <1>1, <1>2 DEF PreviewOK
  <1> QED BY <1>5, <1>6, <1>7, <1>8, <1>9 DEF Inv

(***************************************************************************)
(* The calls.                                                              *)
(***************************************************************************)

\* What remains to show of a call that prepares orders.
LEMMA PrepareStep ==
  ASSUME DeskAssumption, Inv, Begin, NEW op \in Calling \ {"replace"},
         NEW cells \in Seq(Cells), NEW batch, NEW placing \in BOOLEAN, NEW sends,
         Preparing(op, cells, batch, placing, sends), UNCHANGED edits,
         groups' \in Seq([id : GroupIds, cells : Seq(Args)]),
         DOMAIN previewed' = Cells, \A c \in Cells : Len(previewed'[c]) \in 0..1,
         PreviewOK'
  PROVE  Inv'
  <1>0. UNCHANGED <<accepted, want, loose, gen>>
    BY DEF Preparing
  <1>1. TypeOK /\ OneOrderPerValue /\ call = Idle /\ calls < MaxCalls /\ calls' = calls + 1
    BY DEF Inv, Begin
  <1>2. /\ DOMAIN order' = Cells /\ touched' \subseteq Cells
        /\ \A c \in Cells : IsOrder(order'[c]) /\ order'[c].combo \in Combos(c)
        /\ call'.op \in Calling \cup {"idle"} /\ call'.cells \in Seq(Cells)
        /\ DOMAIN call'.body = DOMAIN call'.cells
        /\ \A k \in 1..Len(call'.body) : IsOrder(call'.body[k])
        /\ CallOK' /\ IdStable' /\ WantOK'
    <2>1. DOMAIN order' = Cells
      BY <1>1, Prepares
    <2>5. touched' \subseteq Cells
      BY <1>1, Prepares
    <2>2. \A c \in Cells : IsOrder(order'[c]) /\ order'[c].combo \in Combos(c)
      BY <1>1, Prepares
    <2>3. call'.op \in Calling \cup {"idle"}
      BY <1>1, Prepares
    <2>8. call'.cells \in Seq(Cells)
      BY <1>1, Prepares
    <2>6. DOMAIN call'.body = DOMAIN call'.cells
      BY <1>1, Prepares
    <2>7. \A k \in 1..Len(call'.body) : IsOrder(call'.body[k])
      BY <1>1, Prepares
    <2>4. CallOK' /\ IdStable' /\ WantOK'
      BY <1>1, Prepares
    <2> QED BY <2>1, <2>2, <2>3, <2>4, <2>5, <2>6, <2>7, <2>8
  <1>3. calls' \in 0..MaxCalls
    BY <1>1, CallsType
  <1>4. /\ DOMAIN want' = Cells /\ \A c \in Cells : IsOrder(want'[c])
        /\ accepted' \subseteq [id : Nat, cell : Cells, gen : Nat]
        /\ edits' \in 0..MaxEdits /\ loose' \in [Cells -> SUBSET OrderFields] /\ gen' \in [Cells -> Nat]
    BY <1>0, <1>1 DEF TypeOK
  <1>5. TypeOK'
    BY <1>2, <1>3, <1>4 DEF TypeOK
  <1>6. OneOrderPerValue'
    BY <1>0, <1>1 DEF OneOrderPerValue
  <1> QED BY <1>2, <1>5, <1>6 DEF Inv

\* Nothing that was previewed and is still as it was is changed by preparing.
LEMMA PreviewsStand ==
  ASSUME Inv, UNCHANGED previewed,
         \A c \in Cells : previewed[c] # NotPreviewed => order'[c] = order[c]
  PROVE  PreviewOK' /\ DOMAIN previewed' = Cells /\ \A c \in Cells : Len(previewed'[c]) \in 0..1
  <1>1. PreviewOK /\ TypeOK
    BY DEF Inv
  <1>2. PreviewOK'
    BY <1>1 DEF PreviewOK
  <1> QED BY <1>1, <1>2 DEF TypeOK

\* PlaceOrder prepares the one order and sends it without the preview's decimals.
LEMMA PlaceStep ==
  ASSUME DeskAssumption, Inv, NEW c \in Cells, PlaceOrder(c)
  PROVE  Inv'
  <1>1. /\ Begin /\ Prepare("place", <<c>>, FALSE, TRUE, TRUE)
        /\ UNCHANGED <<groups, accepted, edits, want, loose, previewed, gen>>
    BY DEF PlaceOrder
  <1>2. <<c>> \in Seq(Cells) /\ Len(<<c>>) = 1
    OBVIOUS
  <1>3. "place" \in Calling \ {"replace"} /\ call = Idle
    BY <1>1 DEF Calling, Begin
  <1>7. Preparing("place", <<c>>, FALSE, TRUE, TRUE)
    BY <1>1, <1>2 DEF Preparing
  <1>4. \A d \in Cells : previewed[d] # NotPreviewed => order'[d] = order[d]
    BY <1>2, <1>3, <1>7, Prepares
  <1>5. groups' \in Seq([id : GroupIds, cells : Seq(Args)])
    BY <1>1 DEF Inv, TypeOK
  <1> QED BY <1>1, <1>2, <1>3, <1>4, <1>5, <1>7, PreviewsStand, PrepareStep

\* PlaceOrders prepares the orders in turn and stops at the first it refuses.
LEMMA BatchStep ==
  ASSUME DeskAssumption, Inv, NEW cells \in Batches, PlaceOrders(cells)
  PROVE  Inv'
  <1> DEFINE sends == Len(cells) > 0
  <1>1. /\ Begin /\ Prepare("batch", cells, TRUE, TRUE, sends)
        /\ UNCHANGED <<groups, accepted, edits, want, loose, previewed, gen>>
    BY DEF PlaceOrders
  <1> HIDE DEF sends
  <1>2. cells \in Seq(Cells)
    BY DEF DeskAssumption
  <1>3. "batch" \in Calling \ {"replace"} /\ call = Idle
    BY <1>1 DEF Calling, Begin
  <1>7. Preparing("batch", cells, TRUE, TRUE, sends)
    BY <1>1 DEF Preparing
  <1>4. \A d \in Cells : previewed[d] # NotPreviewed => order'[d] = order[d]
    BY <1>2, <1>3, <1>7, Prepares
  <1>5. groups' \in Seq([id : GroupIds, cells : Seq(Args)])
    BY <1>1 DEF Inv, TypeOK
  <1> QED BY <1>1, <1>2, <1>3, <1>4, <1>5, <1>7, PreviewsStand, PrepareStep

\* A preview is of the order as preparing left it.
LEMMA PreviewStep ==
  ASSUME DeskAssumption, Inv, NEW c \in Cells, PreviewOrder(c)
  PROVE  Inv'
  <1>1. /\ Begin /\ Prepare("preview", <<c>>, FALSE, FALSE, TRUE)
        /\ UNCHANGED <<groups, accepted, edits, want, loose, gen>>
        /\ previewed' = IF call' = Idle THEN previewed ELSE [previewed EXCEPT ![c] = call'.body]
    BY DEF PreviewOrder
  <1>2. <<c>> \in Seq(Cells) /\ Len(<<c>>) = 1 /\ <<c>>[1] = c
    OBVIOUS
  <1>3. "preview" \in Calling \ {"replace"} /\ call = Idle
    BY <1>1 DEF Calling, Begin
  <1>7. Preparing("preview", <<c>>, FALSE, FALSE, TRUE)
    BY <1>1, <1>2 DEF Preparing
  <1>4. /\ \A d \in Cells : previewed[d] # NotPreviewed => order'[d] = order[d]
        /\ call' # Idle => /\ call'.body = Bodies(<<c>>, FALSE)
                           /\ order'[c] = PreparedOrder(c) /\ Passed(order'[c])
    <2>2. /\ \A d \in Cells : previewed[d] # NotPreviewed => order'[d] = order[d]
          /\ call' # Idle => /\ call'.body = Bodies(<<c>>, FALSE)
                             /\ \A k \in 1..Len(<<c>>) : /\ order'[<<c>>[k]] = PreparedOrder(<<c>>[k])
                                                        /\ Passed(order'[<<c>>[k]])
      BY <1>2, <1>3, <1>7, Prepares
    <2>3. 1 \in 1..Len(<<c>>)
      BY <1>2
    <2> QED BY <2>2, <2>3, <1>2
  <1>5. groups' \in Seq([id : GroupIds, cells : Seq(Args)])
    BY <1>1 DEF Inv, TypeOK
  <1>6. PreviewOK' /\ DOMAIN previewed' = Cells /\ \A d \in Cells : Len(previewed'[d]) \in 0..1
    <2>1. CASE call' = Idle
      BY <2>1, <1>1, <1>4, PreviewsStand
    <2>2. CASE call' # Idle
      <3>1. Bodies(<<c>>, FALSE) = <<PreparedOrder(c)>>
        BY <1>2 DEF Bodies
      <3>2. TypeOK /\ PreviewOK
        BY DEF Inv
      <3>3. /\ DOMAIN previewed' = Cells /\ previewed'[c] = <<order'[c]>>
            /\ \A d \in Cells \ {c} : previewed'[d] = previewed[d]
        BY <2>2, <3>1, <3>2, <1>1, <1>4 DEF TypeOK
      <3>4. Settled(order'[c]) /\ order'[c].id \notin {NoId, BadId}
        BY <2>2, <1>4 DEF Passed, BadId
      <3>5. PreviewOK'
        BY <3>2, <3>3, <3>4, <1>4 DEF PreviewOK
      <3>6. \A d \in Cells : Len(previewed'[d]) \in 0..1
        <4>1. Len(<<order'[c]>>) = 1
          OBVIOUS
        <4>2. \A d \in Cells \ {c} : Len(previewed'[d]) \in 0..1
          BY <3>2, <3>3 DEF TypeOK
        <4>3. Len(previewed'[c]) \in 0..1
          BY <4>1, <3>3
        <4> QED BY <4>2, <4>3
      <3> QED BY <3>3, <3>5, <3>6
    <2> QED BY <2>1, <2>2
  <1> QED BY <1>1, <1>2, <1>3, <1>5, <1>6, <1>7, PrepareStep

\* A group whose kind is known is one of the three.
LEMMA KindType ==
  ASSUME NEW orders
  PROVE  Kind(orders) # NoKind => Kind(orders) \in Kinds
  BY DEF Kind, Kinds

\* A group that is nil somewhere, has a bad ID or no kind is refused before anything
\* is prepared; its kind is read before, its checks are made after.
LEMMA GroupStep ==
  ASSUME DeskAssumption, Inv, NEW g \in 1..Len(groups), NEW placing \in BOOLEAN,
         SendGroup(g, placing)
  PROVE  Inv'
  <1> DEFINE cells == groups[g].cells
             nil == Len(cells) = 0 \/ \E k \in 1..Len(cells) : cells[k] = 0
             kind == Kind([k \in 1..Len(cells) |-> order[cells[k]]])
             op == IF placing THEN "placeGroup" ELSE "previewGroup"
             sends == GroupOK(Bodies(cells, FALSE), kind)
  <1>1. TypeOK /\ CallOK /\ IdStable /\ OneOrderPerValue /\ WantOK /\ PreviewOK
    BY DEF Inv
  <1>2. /\ Begin
        /\ IF nil THEN UNCHANGED groups
           ELSE groups' = [groups EXCEPT ![g].id = IF groups[g].id = NoId THEN Fresh(0) ELSE groups[g].id]
        /\ IF nil \/ groups[g].id = BadId \/ kind = NoKind THEN UNCHANGED <<order, touched, call>>
           ELSE Prepare(op, cells, FALSE, placing, sends)
        /\ UNCHANGED <<accepted, edits, want, loose, previewed, gen>>
    BY DEF SendGroup
  <1>3. groups \in Seq([id : GroupIds, cells : Seq(Args)]) /\ groups[g] \in [id : GroupIds, cells : Seq(Args)]
    <2>1. groups \in Seq([id : GroupIds, cells : Seq(Args)])
      BY <1>1 DEF TypeOK
    <2>2. \A S : groups \in Seq(S) => groups[g] \in S
      OBVIOUS
    <2> QED BY <2>1, <2>2
  <1>4. groups' \in Seq([id : GroupIds, cells : Seq(Args)])
    <2>1. Fresh(0) \in Nat
      BY <1>1, CallsType, FreshId
    <2>2. CASE nil
      BY <2>2, <1>2, <1>3
    <2>3. CASE ~nil
      <3> DEFINE id == IF groups[g].id = NoId THEN Fresh(0) ELSE groups[g].id
      <3>1. id \in GroupIds
        BY <2>1, <1>3 DEF GroupIds
      <3>2. groups' = [groups EXCEPT ![g] = [groups[g] EXCEPT !.id = id]]
        BY <2>3, <1>2
      <3> HIDE DEF id
      <3>3. [groups[g] EXCEPT !.id = id] \in [id : GroupIds, cells : Seq(Args)]
        BY <3>1, <1>3
      <3> QED BY <3>2, <3>3, <1>3
    <2> QED BY <2>2, <2>3
  <1>5. cells \in Seq(Args)
    BY <1>3
  <1>6. call = Idle /\ calls < MaxCalls /\ calls' = calls + 1
    BY <1>2 DEF Begin
  <1>7. kind # NoKind => kind \in Kinds
    BY KindType
  <1> DEFINE refused == nil \/ groups[g].id = BadId \/ kind = NoKind
  <1> HIDE DEF cells, kind, sends
  <1>8. CASE refused
    <2>1. UNCHANGED <<order, touched, call, accepted, edits, want, loose, previewed, gen>>
      BY <1>2, <1>8
    <2>2. calls' \in 0..MaxCalls
      BY <1>1, <1>6, CallsType
    <2>3. TypeOK'
      BY <1>1, <1>4, <2>1, <2>2 DEF TypeOK
    <2>4. CallOK' /\ IdStable' /\ OneOrderPerValue' /\ WantOK' /\ PreviewOK'
      <3>1. CallOK'
        BY <1>1, <2>1 DEF CallOK, IsPlacement, Ordered
      <3>2. IdStable' /\ OneOrderPerValue'
        BY <1>1, <2>1 DEF IdStable, OneOrderPerValue
      <3>3. WantOK'
        BY <1>1, <2>1 DEF WantOK
      <3>4. PreviewOK'
        BY <1>1, <2>1 DEF PreviewOK
      <3> QED BY <3>1, <3>2, <3>3, <3>4
    <2> QED BY <2>3, <2>4 DEF Inv
  <1>9. CASE ~refused
    <2>1. cells \in Seq(Cells)
      <3>1. \A k \in 1..Len(cells) : cells[k] \in Cells
        BY <1>5, <1>9 DEF Args
      <3> QED BY <3>1, <1>5
    <2>2. op \in Calling \ {"replace"} /\ op \notin {"place", "preview"}
          /\ (placing <=> op \in {"place", "batch", "placeGroup"})
      BY DEF Calling
    <2>3. sends => GroupOK(Bodies(cells, FALSE), kind)
      BY DEF sends
    <2>4. Preparing(op, cells, FALSE, placing, sends)
      BY <1>2, <1>7, <1>9, <2>2, <2>3 DEF Preparing
    <2> HIDE DEF op
    <2>5. \A d \in Cells : previewed[d] # NotPreviewed => order'[d] = order[d]
      BY <1>6, <2>1, <2>2, <2>4, Prepares
    <2>6. PreviewOK' /\ DOMAIN previewed' = Cells /\ \A d \in Cells : Len(previewed'[d]) \in 0..1
      BY <1>2, <2>5, PreviewsStand
    <2>7. UNCHANGED edits /\ Begin
      BY <1>2
    <2> QED BY <1>4, <2>1, <2>2, <2>4, <2>6, <2>7, PrepareStep
  <1> QED BY <1>8, <1>9

\* The changes of a working order are sent without the ones that were withdrawn.
LEMMA ReplaceStep ==
  ASSUME DeskAssumption, Inv, NEW c \in Cells, NEW change \in Changes, ReplaceOrder(c, change)
  PROVE  Inv'
  <1> DEFINE mod == [id |-> order[c].id, num |-> change.num, legs |-> change.legs]
             sent == Modification(mod)
  <1>1. TypeOK /\ CallOK /\ IdStable /\ OneOrderPerValue /\ WantOK /\ PreviewOK
    BY DEF Inv
  <1>2. /\ Begin /\ UNCHANGED <<order, groups, accepted, edits, want, touched, loose, previewed, gen>>
        /\ call' = Idle \/ call' = [op |-> "replace", cells |-> <<c>>, body |-> <<sent>>]
    BY DEF ReplaceOrder, history
  <1>3. calls' \in 0..MaxCalls
    BY <1>1, <1>2, CallsType DEF Begin
  <1>4. sent.num = [f \in ModFields |-> Clear(change.num[f])]
    BY DEF Modification
  <1>5. \A f \in ModFields : ~IsNull(sent.num[f])
    <2>1. \A f \in ModFields : change.num[f] \in Decimals
      BY DEF DeskAssumption
    <2> QED BY <1>4, <2>1, ClearType
  <1> HIDE DEF sent
  <1>6. CallOK' /\ call'.op \in Calling \cup {"idle"} /\ call'.cells \in Seq(Cells)
        /\ DOMAIN call'.body = DOMAIN call'.cells
        /\ (call'.op # "replace" => \A k \in 1..Len(call'.body) : IsOrder(call'.body[k]))
    <2>1. CASE call' = Idle
      <3>1. CallOK'
        BY <2>1, IdleType DEF CallOK
      <3>2. \A k \in 1..Len(Idle.body) : IsOrder(Idle.body[k])
        BY IdleType
      <3> QED BY <2>1, <3>1, <3>2, IdleType
    <2>2. CASE call' = [op |-> "replace", cells |-> <<c>>, body |-> <<sent>>]
      <3>1. call'.op = "replace" /\ call'.cells = <<c>> /\ call'.body = <<sent>>
        BY <2>2
      <3>2. /\ Len(<<c>>) = 1 /\ Len(<<sent>>) = 1 /\ <<sent>>[1] = sent
            /\ <<c>> \in Seq(Cells) /\ DOMAIN <<c>> = DOMAIN <<sent>>
            /\ <<sent>> = [k \in 1..1 |-> <<sent>>[k]]
        OBVIOUS
      <3>3. CallOK'
        BY <3>1, <3>2, <1>4, <1>5 DEF CallOK
      <3> QED BY <3>1, <3>2, <3>3 DEF Calling
    <2> QED BY <1>2, <2>1, <2>2
  <1>7. TypeOK'
    BY <1>1, <1>2, <1>3, <1>6 DEF TypeOK
  <1>8. IdStable' /\ OneOrderPerValue' /\ WantOK' /\ PreviewOK'
    BY <1>1, <1>2 DEF IdStable, OneOrderPerValue, WantOK, PreviewOK
  <1> QED BY <1>6, <1>7, <1>8 DEF Inv

\* Accepting adds placements of orders that keep their ID from then on.
LEMMA AcceptStep ==
  ASSUME DeskAssumption, Inv, Accept
  PROVE  Inv'
  <1> DEFINE new == {Placement(k) : k \in {j \in 1..Len(call.body) : ~Taken(call.body[j].id)}}
  <1>1. TypeOK /\ CallOK /\ IdStable /\ OneOrderPerValue /\ WantOK /\ PreviewOK
    BY DEF Inv
  <1>2. /\ accepted' = IF IsPlacement THEN accepted \cup new ELSE accepted
        /\ call' = Idle
        /\ UNCHANGED <<order, groups, calls, edits, want, touched, loose, previewed, gen>>
    BY DEF Accept, history
  <1>3. IsPlacement => \A a \in new : /\ a \in [id : Nat, cell : Cells, gen : Nat]
                                      /\ a.id # NoId /\ a.gen = gen[a.cell]
                                      /\ order[a.cell].id = a.id
    <2>1. SUFFICES ASSUME IsPlacement, NEW k \in 1..Len(call.body)
                   PROVE  LET a == Placement(k) IN
                          /\ a \in [id : Nat, cell : Cells, gen : Nat]
                          /\ a.id # NoId /\ a.gen = gen[a.cell]
                          /\ order[a.cell].id = a.id
      OBVIOUS
    <2> DEFINE c == call.cells[k]
    <2>2. call.op \notin {"idle", "replace"} /\ k \in 1..Len(call.cells)
      BY <2>1, <1>1 DEF IsPlacement, CallOK
    <2>3. c \in Cells /\ gen[c] \in Nat
      BY <2>2, <1>1 DEF TypeOK
    <2>4. Passed(order[c]) /\ call.body[k] = ForPlacement(order[c])
      BY <2>1, <2>2, <1>1 DEF CallOK
    <2> HIDE DEF c
    <2>5. call.body[k].id = order[c].id /\ order[c].id \in Nat \ {NoId}
      <3>1. IsOrder(order[c]) /\ order[c].id \in Nat \ {NoId}
        BY <2>4 DEF Passed
      <3>2. \A f \in OrderFields \ {"num"} : ForPlacement(order[c])[f] = order[c][f]
        BY <3>1, ForPlacementFields
      <3> QED BY <3>1, <3>2, <2>4, FieldNames
    <2>6. Placement(k) = [id |-> call.body[k].id, cell |-> c, gen |-> gen[c]]
      BY DEF Placement, c
    <2> QED BY <2>3, <2>5, <2>6
  <1> HIDE DEF new
  <1>4. \A a \in accepted' : a \in accepted \/ (IsPlacement /\ a \in new)
    BY <1>2
  <1>5. TypeOK'
    <2>1. accepted' \subseteq [id : Nat, cell : Cells, gen : Nat]
      BY <1>1, <1>3, <1>4 DEF TypeOK
    <2>2. call'.op \in Calling \cup {"idle"} /\ call'.cells \in Seq(Cells)
          /\ DOMAIN call'.body = DOMAIN call'.cells
          /\ \A k \in 1..Len(call'.body) : IsOrder(call'.body[k])
      <3>1. \A k \in 1..Len(Idle.body) : IsOrder(Idle.body[k])
        BY IdleType
      <3> QED BY <1>2, <3>1, IdleType
    <2> QED BY <1>1, <1>2, <2>1, <2>2 DEF TypeOK
  <1>6. CallOK'
    BY <1>2, IdleType DEF CallOK
  <1>7. IdStable'
    <2>1. SUFFICES ASSUME NEW a \in accepted'
                   PROVE  /\ a.gen <= gen[a.cell] /\ a.id # NoId
                          /\ a.gen = gen[a.cell] => order[a.cell].id = a.id
      BY <1>2 DEF IdStable
    <2>2. CASE a \in accepted
      BY <2>2, <1>1 DEF IdStable
    <2>3. CASE IsPlacement /\ a \in new
      <3>1. a.gen = gen[a.cell] /\ a.id # NoId /\ order[a.cell].id = a.id /\ a.gen \in Nat
        BY <2>3, <1>3
      <3> QED BY <3>1
    <2> QED BY <2>2, <2>3, <1>4
  <1>8. OneOrderPerValue'
    <2>1. SUFFICES ASSUME NEW a \in accepted', NEW b \in accepted', a.cell = b.cell, a.gen = b.gen
                   PROVE  a = b
      BY DEF OneOrderPerValue
    <2>2. CASE a \in accepted /\ b \in accepted
      BY <2>1, <2>2, <1>1 DEF OneOrderPerValue
    <2>3. CASE IsPlacement /\ (a \in new \/ b \in new)
      <3>1. a.gen = gen[a.cell] \/ b.gen = gen[b.cell]
        BY <2>3, <1>3, <1>4, <1>2
      <3>2. a.gen = gen[a.cell] /\ b.gen = gen[b.cell]
        BY <3>1, <2>1
      <3>3. order[a.cell].id = a.id /\ order[b.cell].id = b.id
        BY <3>2, <1>7, <1>2 DEF IdStable
      <3>4. a \in [id : Nat, cell : Cells, gen : Nat] /\ b \in [id : Nat, cell : Cells, gen : Nat]
        BY <1>5 DEF TypeOK
      <3> QED BY <3>3, <3>4, <2>1
    <2> QED BY <2>2, <2>3, <1>4
  <1>9. WantOK' /\ PreviewOK'
    BY <1>1, <1>2 DEF WantOK, PreviewOK
  <1> QED BY <1>5, <1>6, <1>7, <1>8, <1>9 DEF Inv

\* A request that is refused or lost leaves the orders as they were prepared.
LEMMA RefuseStep ==
  ASSUME DeskAssumption, Inv, Refuse
  PROVE  Inv'
  <1>1. TypeOK /\ CallOK /\ IdStable /\ OneOrderPerValue /\ WantOK /\ PreviewOK
    BY DEF Inv
  <1>2. /\ call' = Idle
        /\ UNCHANGED <<order, groups, accepted, calls, edits, want, touched, loose, previewed, gen>>
    BY DEF Refuse, history
  <1>3. TypeOK'
    <2>1. call'.op \in Calling \cup {"idle"} /\ call'.cells \in Seq(Cells)
          /\ DOMAIN call'.body = DOMAIN call'.cells
          /\ \A k \in 1..Len(call'.body) : IsOrder(call'.body[k])
      <3>1. \A k \in 1..Len(Idle.body) : IsOrder(Idle.body[k])
        BY IdleType
      <3> QED BY <1>2, <3>1, IdleType
    <2> QED BY <1>1, <1>2, <2>1 DEF TypeOK
  <1>4. CallOK'
    BY <1>2, IdleType DEF CallOK
  <1>5. IdStable' /\ OneOrderPerValue' /\ WantOK' /\ PreviewOK'
    BY <1>1, <1>2 DEF IdStable, OneOrderPerValue, WantOK, PreviewOK
  <1> QED BY <1>3, <1>4, <1>5 DEF Inv

\* Every step keeps the invariant.
LEMMA NextStep ==
  ASSUME DeskAssumption, Inv, [Next]_vars
  PROVE  Inv'
  <1>1. CASE Caller
    <2>1. ASSUME NEW c \in Cells, NEW e \in Edits, Edit(c, e)
          PROVE  Inv'
      BY <2>1, EditStep DEF DeskAssumption
    <2>4. ASSUME NEW g \in 1..Len(groups), NameGroup(g)
          PROVE  Inv'
      BY <2>4, NameStep
    <2>2. ASSUME NEW args \in BracketArgs, Bracket(args)
          PROVE  Inv'
      BY <2>2, BracketStep
    <2>3. ASSUME NEW args \in ListArgs,
                 Triggered(args, "OTO") \/ Triggered(args, "OTOCO") \/ OCO(args)
          PROVE  Inv'
      BY <2>3, ListStep
    <2> QED BY <1>1, <2>1, <2>2, <2>3, <2>4 DEF Caller
  <1>2. CASE Calls
    BY <1>2, PreviewStep, PlaceStep, BatchStep, ReplaceStep, GroupStep DEF Calls
  <1>3. CASE Accept
    BY <1>3, AcceptStep
  <1>4. CASE Refuse
    BY <1>4, RefuseStep
  <1>5. CASE UNCHANGED vars
    <2>1. TypeOK'
      BY <1>5 DEF Inv, TypeOK, vars, history
    <2>2. CallOK'
      BY <1>5 DEF Inv, CallOK, IsPlacement, Ordered, vars, history
    <2>3. IdStable' /\ OneOrderPerValue' /\ WantOK' /\ PreviewOK'
      BY <1>5 DEF Inv, IdStable, OneOrderPerValue, WantOK, PreviewOK, vars, history
    <2> QED BY <2>1, <2>2, <2>3 DEF Inv
  <1> QED BY <1>1, <1>2, <1>3, <1>4, <1>5 DEF Next

(***************************************************************************)
(* The theorems.                                                           *)
(***************************************************************************)

\* The invariant holds in every reachable state.
LEMMA Invariant == Spec => []Inv
  <1>1. Init => Inv
    BY DeskAssumption, InitInv
  <1>2. Inv /\ [Next]_vars => Inv'
    BY DeskAssumption, NextStep
  <1> QED BY <1>1, <1>2, PTL DEF Spec

\* Every variable has its type, whatever orders the caller starts from and however
\* it edits, groups, previews and places them.
THEOREM TypeCorrect == Spec => []TypeOK
  <1>1. Inv => TypeOK
    BY DEF Inv
  <1> QED BY <1>1, Invariant, PTL

\* At most one order is accepted from an Order value, unless its ID is emptied: once
\* one was, prepare finds an ID to keep, and the server knows it.
THEOREM OneAccepted == Spec => []OneOrderPerValue
  <1>1. Inv => OneOrderPerValue
    BY DEF Inv
  <1> QED BY <1>1, Invariant, PTL

\* Field by field, what is sent of a corrected order.
LEMMA ResentFields ==
  ASSUME Inv, call.op # "replace", NEW k \in 1..Len(call.body)
  PROVE  \A f \in DOMAIN FirstPrepared(k) \ (loose[call.cells[k]] \cup {"id"}) :
           call.body[k][f] = FirstPrepared(k)[f]
  <1> DEFINE c == call.cells[k]
             o == order[c]
             w == want[c]
             id == call.body[k].id
             first == Prepared(w, id)
             expected == IF IsPlacement THEN ForPlacement(first) ELSE first
  <1>0. FirstPrepared(k) = expected /\ c = call.cells[k]
    BY DEF FirstPrepared
  <1>1. TypeOK /\ CallOK /\ WantOK
    BY DEF Inv
  <1>2. call.op # "idle" /\ k \in 1..Len(call.cells)
    BY <1>1, IdleType DEF CallOK
  <1>3. c \in Cells
    BY <1>1, <1>2 DEF TypeOK
  <1>4. Passed(o) /\ call.body[k] = IF IsPlacement THEN ForPlacement(o) ELSE o
    BY <1>1, <1>2 DEF CallOK
  <1>5. IsOrder(o) /\ Settled(o) /\ o.id \in Nat \ {NoId}
    BY <1>4 DEF Passed
  <1>6. IsOrder(w)
    BY <1>1, <1>3 DEF TypeOK
  <1>7. /\ w.id = NoId \/ w.id = o.id
        /\ \A f \in OrderFields \ {"id"} : f \notin loose[c] => Filled(o)[f] = Filled(w)[f]
    BY <1>1, <1>3 DEF WantOK
  <1> HIDE DEF c, o, w
  <1>8. /\ IsOrder(ForPlacement(o)) /\ ForPlacement(o).id = o.id
    BY <1>5, ForPlacementFields, FieldNames
  <1>9. id = o.id
    BY <1>4, <1>8
  <1>10. id \in Nat \ {NoId} /\ w.id # BadId
    BY <1>5, <1>7, <1>9 DEF BadId, NoId
  <1> HIDE DEF id
  <1>11. IsOrder(first) /\ \A f \in OrderFields \ {"id"} : first[f] = Filled(w)[f]
    BY <1>6, <1>10, PreparedFields
  <1>12. Filled(o) = o
    BY <1>5, SettledIsFilled
  <1>13. \A f \in OrderFields \ {"id"} : f \notin loose[c] => first[f] = o[f]
    BY <1>7, <1>11, <1>12
  <1> HIDE DEF first
  <1>14. CASE ~IsPlacement
    <2>1. DOMAIN first = OrderFields
      BY <1>11 DEF IsOrder
    <2> QED BY <2>1, <1>0, <1>4, <1>13, <1>14
  <1>15. CASE IsPlacement
    <2> DEFINE p == ForPlacement(o)
               q == ForPlacement(first)
    <2>1. /\ IsOrder(p) /\ \A f \in OrderFields \ {"num"} : p[f] = o[f]
          /\ \A f \in NumFields : p.num[f] = IF f \in PreviewFields THEN Unset ELSE o.num[f]
      BY <1>5, ForPlacementFields
    <2>2. /\ IsOrder(q) /\ \A f \in OrderFields \ {"num"} : q[f] = first[f]
          /\ \A f \in NumFields : q.num[f] = IF f \in PreviewFields THEN Unset ELSE first.num[f]
      BY <1>11, ForPlacementFields
    <2> HIDE DEF p, q
    <2>3. DOMAIN q = OrderFields
      BY <2>2 DEF IsOrder
    <2>4. "num" \notin loose[c] => p.num = q.num
      <3>1. "num" \notin loose[c] => first.num = o.num
        BY <1>13, FieldNames
      <3>2. p.num \in [NumFields -> Decimals] /\ q.num \in [NumFields -> Decimals]
        BY <2>1, <2>2 DEF IsOrder
      <3> QED BY <3>1, <3>2, <2>1, <2>2
    <2>5. \A f \in OrderFields \ (loose[c] \cup {"id"}) : p[f] = q[f]
      BY <2>1, <2>2, <2>4, <1>13
    <2>6. call.body[k] = p /\ expected = q
      BY <1>4, <1>15 DEF p, q
    <2> QED BY <1>0, <2>3, <2>5, <2>6
  <1> QED BY <1>14, <1>15

\* An order is sent again as a first preparation of the caller's own fields would send
\* it, but for what was derived from a field changed since: nothing else goes stale.
THEOREM OnlyDerivedStale == Spec => []OnlyDerivedIsStale
  <1>1. Inv => OnlyDerivedIsStale
    BY ResentFields DEF OnlyDerivedIsStale
  <1> QED BY <1>1, Invariant, PTL

\* PreviewOrder and PlaceOrder prepare an order the same way.
THEOREM PreviewedAlike == Spec => []PreviewedIsPlaced
  <1>1. ASSUME Inv
        PROVE  PreviewedIsPlaced
    <2> DEFINE c == call.cells[1]
    <2>1. SUFFICES ASSUME call.op = "place", previewed[c] # NotPreviewed
                   PROVE  call.body = <<ForPlacement(previewed[c][1])>>
      BY DEF PreviewedIsPlaced
    <2>2. TypeOK /\ CallOK /\ PreviewOK
      BY <1>1 DEF Inv
    <2>3. Len(call.cells) = 1 /\ Len(call.body) = 1 /\ IsPlacement
      BY <2>1, <2>2 DEF CallOK, IsPlacement
    <2>4. c \in Cells
      BY <2>2, <2>3 DEF TypeOK
    <2>5. call.body[1] = ForPlacement(order[c])
      BY <2>1, <2>2, <2>3 DEF CallOK
    <2>6. previewed[c][1] = order[c]
      BY <2>1, <2>2, <2>4 DEF PreviewOK
    <2>7. call.body = [k \in 1..1 |-> call.body[k]]
      BY <2>2, <2>3 DEF CallOK
    <2>8. call.body = <<call.body[1]>>
      BY <2>7
    <2> QED BY <2>5, <2>6, <2>8
  <1> QED BY <1>1, Invariant, PTL

\* What is sent of any one order.
LEMMA SentOrder ==
  ASSUME Inv, call.op # "replace", NEW k \in 1..Len(call.body)
  PROVE  LET o == call.body[k] IN
         /\ Documented(o)
         /\ IsPlacement => \A f \in PreviewFields : o.num[f] = Unset
         /\ \A f \in DOMAIN o.num : ~IsNull(o.num[f])
         /\ o.instrument = "OPTION" => \A j \in 1..Len(o.legs) : ~IsNull(o.legs[j].quantity)
  <1> DEFINE o == order[call.cells[k]]
             b == call.body[k]
  <1>1. TypeOK /\ CallOK
    BY DEF Inv
  <1>2. call.op # "idle" /\ k \in 1..Len(call.cells)
    BY <1>1, IdleType DEF CallOK
  <1>3. Passed(o) /\ b = IF IsPlacement THEN ForPlacement(o) ELSE o
    BY <1>1, <1>2 DEF CallOK
  <1> HIDE DEF o, b
  <1>4. IsOrder(o) /\ Settled(o) /\ Sound(o)
    BY <1>3, ValidIsSound DEF Passed
  <1>5. IsOrder(b)
    BY <1>3, <1>4, ForPlacementFields
  <1>6. DOMAIN b.num = NumFields
    BY <1>5 DEF IsOrder
  <1>7. CASE IsPlacement
    <2>1. b = ForPlacement(o)
      BY <1>3, <1>7
    <2> QED BY <2>1, <1>4, <1>6, PlacementIsDocumented DEF b
  <1>8. CASE ~IsPlacement
    <2>1. b = o
      BY <1>3, <1>8
    <2> QED BY <2>1, <1>4, <1>6, <1>8, SoundIsDocumented, SoundHasNoNulls DEF b
  <1> QED BY <1>7, <1>8

\* Every order that is sent is one the package documents.
THEOREM SentAsDocumented == Spec => []SentIsDocumented
  <1>1. ASSUME Inv
        PROVE  SentIsDocumented
    <2>1. TypeOK /\ CallOK
      BY <1>1 DEF Inv
    <2>2. CASE call.op # "replace"
      BY <1>1, <2>2, SentOrder DEF SentIsDocumented, Clean
    <2>3. CASE call.op = "replace"
      <3>1. Len(call.body) = 1 /\ ~IsPlacement
        BY <2>1, <2>3 DEF CallOK, IsPlacement
      <3>2. \A f \in DOMAIN call.body[1].num : ~IsNull(call.body[1].num[f])
        BY <2>1, <2>3 DEF CallOK
      <3> QED BY <2>3, <3>1, <3>2 DEF SentIsDocumented, Clean
    <2> QED BY <2>2, <2>3
  <1> QED BY <1>1, Invariant, PTL

\* A group that is sent is one the comments of the constructors describe.
THEOREM GroupAsDocumented == Spec => []GroupIsDocumented
  <1>1. ASSUME Inv
        PROVE  GroupIsDocumented
    <2>1. SUFFICES ASSUME call.op \in {"placeGroup", "previewGroup"}
                   PROVE  DocumentedGroup(call.body)
      BY DEF GroupIsDocumented
    <2>2. TypeOK /\ CallOK
      BY <1>1 DEF Inv
    <2>3. Len(call.body) = Len(call.cells) /\ Len(call.cells) \in Nat
      BY <2>2 DEF CallOK, TypeOK
    <2>4. PICK kind \in Kinds : GroupOK(Ordered, kind)
      BY <2>1, <2>2 DEF CallOK
    <2>5. /\ Len(Ordered) = Len(call.cells)
          /\ \A k \in 1..Len(Ordered) : Ordered[k] = order[call.cells[k]]
      BY <2>3 DEF Ordered
    <2>6. ASSUME NEW k \in 1..Len(Ordered)
          PROVE  /\ call.body[k].id = Ordered[k].id /\ call.body[k].combo = Ordered[k].combo
                 /\ call.body[k].instrument = Ordered[k].instrument
                 /\ call.body[k].side = Ordered[k].side /\ call.body[k].symbol = Ordered[k].symbol
                 /\ call.body[k].type = Ordered[k].type
      <3> DEFINE o == order[call.cells[k]]
      <3>1. Passed(o) /\ call.body[k] = IF IsPlacement THEN ForPlacement(o) ELSE o
        BY <2>1, <2>2, <2>5, <2>6 DEF CallOK
      <3> HIDE DEF o
      <3>2. \A f \in OrderFields \ {"num"} : ForPlacement(o)[f] = o[f]
        BY <3>1, ForPlacementFields DEF Passed
      <3>3. \A f \in OrderFields \ {"num"} : call.body[k][f] = o[f]
        BY <3>1, <3>2
      <3>4. /\ call.body[k].id = o.id /\ call.body[k].combo = o.combo
            /\ call.body[k].instrument = o.instrument
            /\ call.body[k].side = o.side /\ call.body[k].symbol = o.symbol
            /\ call.body[k].type = o.type
        BY <3>3, FieldNames
      <3> QED BY <3>4, <2>5, <2>6 DEF o
    <2> QED BY <2>3, <2>4, <2>5, <2>6, PassedIsDocumented
  <1> QED BY <1>1, Invariant, PTL

=============================================================================
