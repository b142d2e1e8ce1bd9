------------------------------ MODULE OrderDesk ------------------------------
(***************************************************************************)
(* A caller of trade.Client and the Order values it keeps.  It edits them, *)
(* groups them with a constructor, previews and places them alone, in a    *)
(* batch or in a group, and sends a corrected order again.  prepare writes *)
(* into the caller's values, groups hold pointers to them, so what one     *)
(* call leaves behind is what the next one starts from.                    *)
(*                                                                         *)
(* A call is two steps: preparing, which ends in a refusal or in a request *)
(* whose body is fixed, and the server's verdict on that request.  Whether *)
(* the caller hears the verdict changes none of its values (ComboOrders    *)
(* has the requests the client gave up on).  `want`, `touched`, `loose`,   *)
(* `previewed` and `gen` are history, which no code keeps.                 *)
(***************************************************************************)
EXTENDS ComboRules

CONSTANTS
  Templates,    \* per cell, the orders the caller may write first
  Edits,        \* the changes the caller makes to an order
  BracketArgs,  \* the three arguments given to Bracket, 0 for nil
  ListArgs,     \* those given to OTO, OCO and OTOCO
  Batches,      \* those given to PlaceOrders
  Changes,      \* the changes given to ReplaceOrder, and the legs with them
  MaxEdits,     \* bound: edits and groups built
  MaxCalls      \* bound: calls of the client

Cells == DOMAIN Templates
Args == Cells \cup {0}
AllEdits == {"quantity", "null", "cash", "type", "stop", "side", "instrument", "legs", "ask", "id"}

\* Only types: the caller may start from any order and change anything to it.
ASSUME DeskAssumption ==
  /\ Len(Templates) \in Nat /\ Cells = 1..Len(Templates)
  /\ \A c \in Cells : \A o \in Templates[c] : IsOrder(o)
  /\ Edits \subseteq AllEdits
  /\ BracketArgs \subseteq Args \X Args \X Args
  /\ ListArgs \subseteq Seq(Args)
  /\ Batches \subseteq Seq(Cells)
  /\ \A change \in Changes : change.num \in [ModFields -> Decimals]
  /\ MaxEdits \in Nat /\ MaxCalls \in Nat

VARIABLES
  order,     \* the caller's Order values
  groups,    \* its Combo values: an ID and the orders pointed to
  call,      \* the request under way
  accepted,  \* server: the placements accepted
  calls,     \* calls so far
  edits,     \* edits so far
  want,      \* what the caller wrote into each order, without the defaults
  touched,   \* the orders that were prepared
  loose,     \* fields derived from one the caller changed afterwards
  previewed, \* the last preview of each order, if unedited since
  gen        \* how often the caller emptied the ID of each order

history == <<want, touched, loose, previewed, gen>>
vars == <<order, groups, call, accepted, calls, edits, history>>

Idle == [op |-> "idle", cells |-> <<>>, body |-> <<>>]
NotPreviewed == <<>>

\* IDs generated by the call that follows: the group's, and one for each order
\* that has none.
Fresh(c) == (Len(Templates) + 1) * (calls + 1) + c

-----------------------------------------------------------------------------
(* The caller edits and groups its orders. *)

SecondLeg == LegFromSymbol([shaped |-> TRUE, dated |-> TRUE, root |-> "X", contract |-> "P"])

SetNum(o, f, d) == [o EXCEPT !.num[f] = d]

\* The order with one change applied.
Edited(o, e) ==
  CASE e = "quantity" -> SetNum(o, "quantity", Price(2, 0))
    [] e = "null" -> SetNum(o, "quantity", NullDecimal(FALSE, 1, 0))
    [] e = "cash" -> SetNum(SetNum(o, "quantity", Unset), "cash", Price(100, 2))
    [] e = "type" -> [o EXCEPT !.type = "MARKET"]
    [] e = "stop" -> SetNum([o EXCEPT !.type = "STOP_LOSS"], "stop", Price(1, 2))
    [] e = "side" -> [o EXCEPT !.side = IF @ = Buy THEN Sell ELSE Buy]
    [] e = "instrument" -> [o EXCEPT !.instrument = "CRYPTO"]
    [] e = "legs" -> [o EXCEPT !.legs = Append(@, SecondLeg), !.strategy = "VERTICAL"]
    [] e = "ask" -> SetNum(o, "ask", Price(3, 2))
    [] e = "id" -> [o EXCEPT !.id = NoId]

\* The fields prepare derives from the one an edit changes.
Derived(e) ==
  CASE e = "legs" -> {"instrument", "session", "strategy", "legs"}
    [] e = "instrument" -> {"session", "strategy", "legs"}
    [] e \in {"quantity", "cash", "null"} -> {"entrust", "legs"}
    [] e = "side" -> {"legs"}
    [] OTHER -> {}

Edit(c, e) ==
  /\ call = Idle /\ edits < MaxEdits
  /\ edits' = edits + 1
  /\ order' = [order EXCEPT ![c] = Edited(@, e)]
  /\ want' = [want EXCEPT ![c] = Edited(@, e)]
  /\ gen' = IF e = "id" THEN [gen EXCEPT ![c] = @ + 1] ELSE gen
  /\ loose' = IF c \in touched THEN [loose EXCEPT ![c] = @ \cup Derived(e)] ELSE loose
  /\ previewed' = [previewed EXCEPT ![c] = NotPreviewed]
  /\ UNCHANGED <<groups, call, accepted, calls, touched>>

\* The caller names a group itself, with an ID of the wrong length.
NameGroup(g) ==
  /\ call = Idle /\ edits < MaxEdits
  /\ edits' = edits + 1
  /\ groups' = [groups EXCEPT ![g].id = BadId]
  /\ UNCHANGED <<order, call, accepted, calls, history>>

\* The orders of `args` with the role of the last place each is in.
Assigned(values, args, roles) ==
  [c \in Cells |->
    LET places == {k \in 1..Len(args) : args[k] = c} IN
      IF places = {} THEN values[c]
      ELSE [values[c] EXCEPT !.combo = roles[CHOOSE k \in places : \A j \in places : j <= k]]]

\* A constructor writes the roles into the orders it is given.
Build(args, members, roles) ==
  /\ call = Idle /\ edits < MaxEdits
  /\ edits' = edits + 1
  /\ order' = Assigned(order, args, roles)
  /\ want' = Assigned(want, args, roles)
  /\ groups' = Append(groups, [id |-> NoId, cells |-> members])
  /\ previewed' = [c \in Cells |-> IF \E k \in 1..Len(args) : args[k] = c
                                     THEN NotPreviewed ELSE previewed[c]]
  /\ UNCHANGED <<call, accepted, calls, touched, loose, gen>>

Given(c) == IF c = 0 THEN <<>> ELSE <<c>>

Bracket(args) ==
  Build(args, Given(args[1]) \o Given(args[2]) \o Given(args[3]), [k \in 1..3 |-> BracketRole(k)])
Triggered(args, kind) == Build(args, args, [k \in 1..Len(args) |-> TriggerRole(k, kind)])
OCO(args) == Build(args, args, [k \in 1..Len(args) |-> "OCO"])

-----------------------------------------------------------------------------
(* Preparing. *)

\* Faulty variants of WriteBack: prepare works on a copy of the order; the
\* preview fields are stripped from the caller's order.
OnACopy(mine, o) == mine

StripsInPlace(mine, o) == ForPlacement(o)

\* What the caller's order is after prepare made `o` of it: prepare changes it in
\* place.
WriteBack(mine, o) == o

\* An order named twice is prepared once: the second time changes nothing.
PreparedOrder(c) == Prepared(order[c], Fresh(c))

\* Preparing goes through the orders and stops at the first bad one.
Bad(c, batch) == ~Valid(order[c]) \/ (batch /\ ~BatchOK(PreparedOrder(c)))

Reached(cells, batch) ==
  {cells[k] : k \in {n \in 1..Len(cells) : \A j \in 1..(n - 1) : ~Bad(cells[j], batch)}}

\* The orders as they go into the request, if all of them are prepared.
Bodies(cells, placing) ==
  [k \in 1..Len(cells) |->
    IF placing THEN ForPlacement(PreparedOrder(cells[k])) ELSE PreparedOrder(cells[k])]

\* The call prepares `cells`; `sends` says whether it goes on to the request.
Prepare(op, cells, batch, placing, sends) ==
  /\ order' = [c \in Cells |-> IF c \in Reached(cells, batch)
                                THEN WriteBack(order[c], PreparedOrder(c)) ELSE order[c]]
  /\ touched' = touched \cup Reached(cells, batch)
  /\ call' = IF sends /\ \A k \in 1..Len(cells) : ~Bad(cells[k], batch)
               THEN [op |-> op, cells |-> cells, body |-> Bodies(cells, placing)]
               ELSE Idle

Begin ==
  /\ call = Idle /\ calls < MaxCalls
  /\ calls' = calls + 1

PreviewOrder(c) ==
  /\ Begin
  /\ Prepare("preview", <<c>>, FALSE, FALSE, TRUE)
  /\ previewed' = IF call' = Idle THEN previewed ELSE [previewed EXCEPT ![c] = call'.body]
  /\ UNCHANGED <<groups, accepted, edits, want, loose, gen>>

PlaceOrder(c) ==
  /\ Begin
  /\ Prepare("place", <<c>>, FALSE, TRUE, TRUE)
  /\ UNCHANGED <<groups, accepted, edits, want, loose, previewed, gen>>

PlaceOrders(cells) ==
  /\ Begin
  /\ Prepare("batch", cells, TRUE, TRUE, Len(cells) > 0)
  /\ UNCHANGED <<groups, accepted, edits, want, loose, previewed, gen>>

\* The change is sent for the ID the caller's order has; nothing of the order
\* itself is prepared or sent.
ReplaceOrder(c, change) ==
  LET mod == [id |-> order[c].id, num |-> change.num, legs |-> change.legs] IN
    /\ Begin
    /\ call' = IF ModificationOK(mod)
                 THEN [op |-> "replace", cells |-> <<c>>, body |-> <<Modification(mod)>>]
                 ELSE Idle
    /\ UNCHANGED <<order, groups, accepted, edits, history>>

\* A nil member, an empty group, an ID of the wrong length or a group without a
\* dependent order fails before any order is prepared; the group's ID is generated
\* only after the first two.
SendGroup(g, placing) ==
  LET cells == groups[g].cells
      nil == Len(cells) = 0 \/ \E k \in 1..Len(cells) : cells[k] = 0
      kind == Kind([k \in 1..Len(cells) |-> order[cells[k]]]) IN
    /\ Begin
    /\ IF nil THEN UNCHANGED groups
       ELSE groups' = [groups EXCEPT ![g].id = IF @ = NoId THEN Fresh(0) ELSE @]
    /\ IF nil \/ groups[g].id = BadId \/ kind = NoKind THEN UNCHANGED <<order, touched, call>>
       ELSE Prepare(IF placing THEN "placeGroup" ELSE "previewGroup", cells, FALSE, placing,
                    GroupOK(Bodies(cells, FALSE), kind))
    /\ UNCHANGED <<accepted, edits, want, loose, previewed, gen>>

-----------------------------------------------------------------------------
(* The server's verdict. *)

IsPlacement == call.op \in {"place", "batch", "placeGroup"}

Placement(k) == [id |-> call.body[k].id, cell |-> call.cells[k], gen |-> gen[call.cells[k]]]
Taken(id) == \E a \in accepted : a.id = id

\* Executed: a batch order by order, anything else as a whole.
Accept ==
  /\ call # Idle
  /\ call.op = "batch" \/ IsPlacement => \A k \in 1..Len(call.body) : ~Taken(call.body[k].id)
  /\ accepted' = IF IsPlacement
                   THEN accepted \cup {Placement(k) : k \in {j \in 1..Len(call.body) :
                                                              ~Taken(call.body[j].id)}}
                   ELSE accepted
  /\ call' = Idle
  /\ UNCHANGED <<order, groups, calls, edits, history>>

\* A duplicate, another refusal, or a request that never arrived.
Refuse ==
  /\ call # Idle
  /\ call' = Idle
  /\ UNCHANGED <<order, groups, accepted, calls, edits, history>>

Init ==
  /\ order \in {f \in [Cells -> UNION {Templates[c] : c \in Cells}] :
                  \A c \in Cells : f[c] \in Templates[c]}
  /\ groups = <<>> /\ call = Idle /\ accepted = {} /\ calls = 0 /\ edits = 0
  /\ want = order /\ touched = {}
  /\ loose = [c \in Cells |-> {}]
  /\ previewed = [c \in Cells |-> NotPreviewed]
  /\ gen = [c \in Cells |-> 0]

Caller ==
  \/ \E c \in Cells, e \in Edits : Edit(c, e)
  \/ \E g \in 1..Len(groups) : NameGroup(g)
  \/ \E args \in BracketArgs : Bracket(args)
  \/ \E args \in ListArgs : Triggered(args, "OTO") \/ Triggered(args, "OTOCO") \/ OCO(args)

Calls ==
  \/ \E c \in Cells : PlaceOrder(c) \/ PreviewOrder(c)
  \/ \E cells \in Batches : PlaceOrders(cells)
  \/ \E c \in Cells, change \in Changes : ReplaceOrder(c, change)
  \/ \E g \in 1..Len(groups), placing \in BOOLEAN : SendGroup(g, placing)

Next == Caller \/ Calls \/ Accept \/ Refuse

Spec == Init /\ [][Next]_vars

-----------------------------------------------------------------------------
(* Properties. *)

Calling == {"preview", "place", "batch", "previewGroup", "placeGroup", "replace"}

\* The roles an order can have: those of the constructors and what the caller wrote.
Combos(c) == {NoText, Normal} \cup Roles \cup {o.combo : o \in Templates[c]}

GroupIds == Nat \cup {BadId}

\* Every variable has its type.
TypeOK ==
  /\ DOMAIN order = Cells /\ DOMAIN want = Cells
  /\ \A c \in Cells : /\ IsOrder(order[c]) /\ order[c].combo \in Combos(c)
                      /\ IsOrder(want[c])
  /\ groups \in Seq([id : GroupIds, cells : Seq(Args)])
  /\ call.op \in Calling \cup {"idle"} /\ call.cells \in Seq(Cells)
  /\ DOMAIN call.body = DOMAIN call.cells
  /\ call.op # "replace" => \A k \in 1..Len(call.body) : IsOrder(call.body[k])
  /\ accepted \subseteq [id : Nat, cell : Cells, gen : Nat]
  /\ calls \in 0..MaxCalls /\ edits \in 0..MaxEdits
  /\ touched \subseteq Cells /\ loose \in [Cells -> SUBSET OrderFields]
  /\ DOMAIN previewed = Cells
  /\ \A c \in Cells : Len(previewed[c]) \in 0..1
  /\ gen \in [Cells -> Nat]

\* "An Order value describes one placement": however it is previewed, placed
\* alone, batched and grouped, and whatever fails in between, the server
\* accepts at most one order from it, unless the caller empties its ID.
OneOrderPerValue ==
  \A a, b \in accepted : a.cell = b.cell /\ a.gen = b.gen => a = b

\* What the k-th order of the request would be if the caller's own fields, as they
\* are now, were prepared for the first time.
FirstPrepared(k) ==
  LET first == Prepared(want[call.cells[k]], call.body[k].id) IN
    IF IsPlacement THEN ForPlacement(first) ELSE first

\* Where prepare's write-back can go stale: an order sent again after an edit is
\* what its fields as written give, whatever was sent or refused before, in all but
\* the fields prepare derived earlier from the ones the caller has changed since.
OnlyDerivedIsStale ==
  call.op # "replace" => \A k \in 1..Len(call.body) :
    \A f \in DOMAIN FirstPrepared(k) \ (loose[call.cells[k]] \cup {"id"}) :
      call.body[k][f] = FirstPrepared(k)[f]

\* "A rejected placement does not consume the ID, so a corrected Order may be resent
\* as is": an order that is placed under an ID not consumed yet says what its fields
\* as written give.
CorrectedIsResent ==
  IsPlacement => \A k \in 1..Len(call.body) :
    ~Taken(call.body[k].id) =>
      \A f \in DOMAIN FirstPrepared(k) \ {"id"} : call.body[k][f] = FirstPrepared(k)[f]

\* PreviewOrder "applies the same defaults and validation as PlaceOrder": an
\* order previewed and not edited since is placed as it was previewed, less the
\* fields only a preview takes, although an unrelated call prepared it in between.
PreviewedIsPlaced ==
  call.op = "place" /\ previewed[call.cells[1]] # NotPreviewed
    => call.body = <<ForPlacement(previewed[call.cells[1]][1])>>

\* No placement carries a field only a preview takes, and no request an
\* explicit null for a price that was assigned and then became null.
Clean ==
  \A k \in 1..Len(call.body) :
    LET o == call.body[k] IN
      /\ IsPlacement => \A f \in PreviewFields : o.num[f] = Unset
      /\ \A f \in DOMAIN o.num : ~IsNull(o.num[f])
      /\ call.op # "replace" /\ o.instrument = "OPTION" => \A j \in 1..Len(o.legs) : ~IsNull(o.legs[j].quantity)

\* What the comments on OrderType, TimeInForce, EntrustType and Order promise of
\* every order that is sent, after whatever edits and calls, as far as its values
\* are ones the package lists: others are Webull's to judge.
Documented(o) ==
  LET Is(known, value, promised) == value \in known => value \in promised IN
  /\ o.instrument = "EVENT" => o.outcome # NoText /\ Is(Types, o.type, {"LIMIT"})
  /\ o.instrument = "CRYPTO" => /\ Is(Types, o.type, {"MARKET", "LIMIT", "STOP_LOSS_LIMIT"})
                                /\ Is(TimesInForce, o.tif, {"DAY", "GTC", "IOC"})
  /\ o.instrument \in {"OPTION", "FUTURES"} => Is(TimesInForce, o.tif, {"DAY", "GTC"})
  /\ o.type = "TRAILING_STOP_LOSS" => Is(Instruments, o.instrument, {"EQUITY", "FUTURES"})
  /\ o.entrust = "AMOUNT" => Is(Instruments, o.instrument, {"EQUITY", "CRYPTO"})
  /\ o.tif = "GTD" => o.expire # NoText
  /\ o.session = NoText => o.instrument # "EQUITY"

\* Whatever was edited and sent before, every order that is sent is one the
\* package documents, with no field that does not belong in the request.
SentIsDocumented ==
  /\ Clean
  /\ call.op # "replace" => \A k \in 1..Len(call.body) : Documented(call.body[k])

\* The groups the comments of the constructors and of Combo describe.
DocumentedGroup(body) ==
  LET Has(role) == Cardinality(WithRole(body, role))
      Only(roles) == \A k \in 1..Len(body) : body[k].combo \in roles
      Equities == \A k \in 1..Len(body) : body[k].instrument = "EQUITY" IN
    /\ \A j, k \in 1..Len(body) : j # k => body[j].id # body[k].id
    /\ \/ /\ Only({"MASTER", "STOP_PROFIT", "STOP_LOSS"})
          /\ Has("MASTER") <= 1 /\ Has("STOP_PROFIT") <= 1 /\ Has("STOP_LOSS") <= 1
          /\ Has("STOP_PROFIT") + Has("STOP_LOSS") > 0
          /\ \A k \in 1..Len(body) :
               /\ body[k].combo = "MASTER" => body[k].type \in {"MARKET", "LIMIT"}
               /\ body[k].combo = "STOP_PROFIT" => body[k].type = "LIMIT"
               /\ body[k].combo = "STOP_LOSS" => body[k].type = "STOP_LOSS"
          /\ \A m, x \in 1..Len(body) :
               body[m].combo = "MASTER" /\ body[x].combo # "MASTER"
                 => body[x].side # body[m].side /\ body[x].symbol = body[m].symbol
       \/ Equities /\ Only({"MASTER", "OTO"}) /\ Has("MASTER") = 1 /\ Has("OTO") \in 1..6
       \/ Equities /\ Only({"OCO"}) /\ Has("OCO") \in 2..6
       \/ Equities /\ Only({"MASTER", "OTOCO"}) /\ Has("MASTER") = 1 /\ Has("OTOCO") \in 1..6

\* A group is sent only if it is one the constructors' comments describe,
\* although its orders may have been edited, shared with another group or named
\* twice since it was built.
GroupIsDocumented ==
  call.op \in {"placeGroup", "previewGroup"} => DocumentedGroup(call.body)

=============================================================================
