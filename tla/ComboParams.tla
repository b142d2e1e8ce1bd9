---------------------------- MODULE ComboParams ----------------------------
(***************************************************************************)
(* The parameters of ComboOrders, in a module of their own so that one     *)
(* that composes ComboOrders with another part extends them.               *)
(***************************************************************************)
EXTENDS Integers, Sequences

CONSTANTS
  Orders,     \* Combo.Orders, as a sequence of roles
  Master,     \* the role of the master, if the group has one
  MaxPlaces,  \* bound: calls of PlaceCombo
  MaxCancels  \* bound: calls of CancelCombo

ASSUME GroupAssumption ==
  /\ Orders \in Seq(STRING) /\ Len(Orders) > 0
  /\ MaxPlaces \in Nat /\ MaxCancels \in Nat

=============================================================================
