---------------------------- MODULE MCComboOrders ----------------------------
(***************************************************************************)
(* A group for TLC: a bracket with both of its exits.                      *)
(***************************************************************************)
EXTENDS ComboOrders

Bracket == <<"MASTER", "STOP_PROFIT", "STOP_LOSS">>

=============================================================================
