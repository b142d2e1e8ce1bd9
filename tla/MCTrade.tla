------------------------------ MODULE MCTrade ------------------------------
(***************************************************************************)
(* trade.Client for TLC: the caller's values (OrderDesk, with the orders   *)
(* of MCOrderDesk) and a group at the server (ComboOrders, a bracket with  *)
(* both of its exits).  The two share no state, so a behaviour is one of   *)
(* either: `part` says which, and the other one rests.                     *)
(***************************************************************************)
EXTENDS MCOrderDesk, ComboParams

VARIABLES
  part,     \* the part that moves, "desk" or "group"
  id, pc, answer, at, failed, ret, places, cancels, status, late, lateCancels, settled

group == <<id, pc, answer, at, failed, ret, places, cancels, status, late, lateCancels,
           settled>>

Group == INSTANCE ComboOrders

Bracketed == <<"MASTER", "STOP_PROFIT", "STOP_LOSS">>

MCInit ==
  /\ part \in {"desk", "group"}
  /\ Init
  /\ Group!Init

DeskMoves == part = "desk" /\ Next /\ UNCHANGED <<part, group>>
GroupMoves == part = "group" /\ Group!Next /\ UNCHANGED <<part, vars>>

MCNext == DeskMoves \/ GroupMoves

MCSpec == MCInit /\ [][MCNext]_<<part, vars, group>>

\* A group has one placement at most, however often it is placed again.
PlacedOnce == Group!PlacedOnce

\* A cancel reported as done leaves nothing of the group working.
NothingLeftWorking == Group!NothingLeftWorking

=============================================================================
