----------------------------- MODULE ComboRules -----------------------------
(***************************************************************************)
(* The groups of package trade: the roles each constructor gives out, the  *)
(* rule table of each kind of group, and the checks Combo.prepare makes    *)
(* once its orders are prepared.                                           *)
(*                                                                         *)
(* A group is seen here as the sequence of its orders.  prepare's problems *)
(* are kept as whether there is one: every check is made, and an order     *)
(* whose role does not belong only skips its own checks, so no problem     *)
(* hides another.                                                          *)
(***************************************************************************)
EXTENDS OrderRules, FiniteSets

Indices(orders) == 1..Len(orders)

MarketOrLimit == {"MARKET", "LIMIT"}
Triggerable == {"MARKET", "LIMIT", "STOP_LOSS", "STOP_LOSS_LIMIT"}
Cancellable == {"LIMIT", "STOP_LOSS", "STOP_LOSS_LIMIT"}

RoleRule(types, min, max) == [types |-> types, min |-> min, max |-> max]

\* The kind of a group is named by a role: a bracket is "STOP_PROFIT".
Kinds == {"STOP_PROFIT", "OTO", "OCO", "OTOCO"}

RolesOf(kind) ==
  CASE kind = "STOP_PROFIT" -> {"MASTER", "STOP_PROFIT", "STOP_LOSS"}
    [] kind = "OCO" -> {"OCO"}
    [] OTHER -> {"MASTER", kind}

ComboRules(kind, role) ==
  CASE kind = "STOP_PROFIT" /\ role = "MASTER" -> RoleRule(MarketOrLimit, 0, 1)
    [] kind = "STOP_PROFIT" /\ role = "STOP_PROFIT" -> RoleRule({"LIMIT"}, 0, 1)
    [] kind = "STOP_PROFIT" /\ role = "STOP_LOSS" -> RoleRule({"STOP_LOSS"}, 0, 1)
    [] kind \in {"OTO", "OTOCO"} /\ role = "MASTER" -> RoleRule(Triggerable, 1, 1)
    [] kind = "OTO" /\ role = "OTO" -> RoleRule(Triggerable, 1, 6)
    [] kind = "OCO" /\ role = "OCO" -> RoleRule(Cancellable, 2, 6)
    [] kind = "OTOCO" /\ role = "OTOCO" -> RoleRule(Cancellable, 1, 6)

NoKind == NoText

\* The first of these roles that is present names the kind.
Kind(orders) ==
  LET present == {orders[k].combo : k \in Indices(orders)} IN
    IF "OTOCO" \in present THEN "OTOCO"
    ELSE IF "OTO" \in present THEN "OTO"
    ELSE IF "OCO" \in present THEN "OCO"
    ELSE IF present \cap {"STOP_PROFIT", "STOP_LOSS"} # {} THEN "STOP_PROFIT"
    ELSE NoKind

WithRole(orders, role) == {k \in Indices(orders) : orders[k].combo = role}

DistinctIds(orders) ==
  \A j, k \in Indices(orders) : orders[j].id = orders[k].id => j = k

Opposite(a, b) == IF a = Buy THEN b = Sell ELSE a \in {Sell, Short} /\ b = Buy

RoleOK(o, kind) ==
  /\ o.combo \in RolesOf(kind)
  /\ o.type \in ComboRules(kind, o.combo).types
  /\ IF kind = "STOP_PROFIT"
       THEN o.instrument = "OPTION" => o.strategy = "SINGLE"
       ELSE o.instrument = "EQUITY"

\* Faulty variant of CountsOK: the lower bounds are not checked.
AtMostMax(orders, kind) ==
  \A role \in RolesOf(kind) :
    Cardinality(WithRole(orders, role)) <= ComboRules(kind, role).max

CountsOK(orders, kind) ==
  \A role \in RolesOf(kind) :
    LET n == Cardinality(WithRole(orders, role)) IN
      ComboRules(kind, role).min <= n /\ n <= ComboRules(kind, role).max

\* Exits close what the master opens: same symbol, opposite side.  The master
\* is the last order with that role.
BracketOK(orders) ==
  LET masters == WithRole(orders, "MASTER")
      exits == Indices(orders) \ masters IN
    /\ WithRole(orders, "STOP_PROFIT") \cup WithRole(orders, "STOP_LOSS") # {}
    /\ masters # {} =>
         LET master == orders[CHOOSE k \in masters : \A j \in masters : j <= k] IN
           \A k \in exits : /\ orders[k].symbol = master.symbol
                            /\ Opposite(master.side, orders[k].side)

\* prepare's checks of a group whose kind was read before its orders were
\* prepared, once they all are.
GroupOK(orders, kind) ==
  /\ DistinctIds(orders)
  /\ \A k \in Indices(orders) : RoleOK(orders[k], kind)
  /\ CountsOK(orders, kind)
  /\ kind = "STOP_PROFIT" => BracketOK(orders)

-----------------------------------------------------------------------------
(* The constructors, as the role each gives to an order at a place. *)

BracketRole(k) == <<"MASTER", "STOP_PROFIT", "STOP_LOSS">>[k]
TriggerRole(k, kind) == IF k = 1 THEN "MASTER" ELSE kind

=============================================================================
