------------------------- MODULE ComboOrdersProofs -------------------------
(***************************************************************************)
(* Theorems about ComboOrders, for a group of any orders and any number of *)
(* placements and cancels: its types, that the server never holds two      *)
(* groups for one Combo, and that a successful CancelCombo leaves nothing  *)
(* working.                                                                *)
(***************************************************************************)
EXTENDS ComboOrders, SequenceTheorems, TLAPS

(***************************************************************************)
(* The IDs never change once they are there, so every placement the server *)
(* has seen, or will see, is of the same group.                            *)
(***************************************************************************)
OneGroup ==
  /\ pc = "placing" => id # 0
  /\ \A g \in Groups : Taken(g) \/ g \in late => g = id

(***************************************************************************)
(* CancelCombo has dealt with the orders before its place, if no placement *)
(* can revive them; an order that is no longer open never is again.        *)
(***************************************************************************)
Behind ==
  settled =>
    /\ pc = "cancelling" \/ (pc = "idle" /\ ret = "cancelled") => late = {}
    /\ pc = "cancelling" /\ answer \in {"ok", "gone"} =>
         id # 0 /\ status[id][Orders[at]] \notin Open
    /\ pc = "cancelling" /\ ~failed =>
         \A i \in 1..Len(Orders) : i < at => id # 0 /\ status[id][Orders[i]] \notin Open

(* An answer is to the kind of POST that is under way. *)
Answered ==
  /\ pc = "cancelling" => answer # "duplicate"
  /\ pc = "placing" => answer # "gone"

IInv == TypeOK /\ OneGroup /\ Answered /\ Behind /\ NothingLeftWorking

\* Every place in Combo.Orders holds the role of an order of the group.
LEMMA OrdersHaveRoles ==
  /\ Len(Orders) \in Nat /\ Len(Orders) > 0 /\ MaxPlaces \in Nat /\ MaxCancels \in Nat
  /\ \A i \in 1..Len(Orders) : Orders[i] \in Roles
  /\ \A r \in Roles : \E i \in 1..Len(Orders) : r = Orders[i]
  BY GroupAssumption, LenProperties DEF Roles

\* Nothing has been sent.
LEMMA InitIInv == Init => IInv
  <1> SUFFICES ASSUME Init PROVE IInv
    OBVIOUS
  <1> USE OrdersHaveRoles DEF Init, Open, Groups
  <1>1. TypeOK
    <2>1. status \in [Groups -> [Roles -> {"none", "working", "held", "filled", "cancelled"}]]
      OBVIOUS
    <2>2. id \in 0..MaxPlaces /\ places \in 0..MaxPlaces /\ cancels \in 0..MaxCancels
      OBVIOUS
    <2>3. at \in 1..Len(Orders)
      OBVIOUS
    <2>4. late \subseteq Groups /\ lateCancels \subseteq Roles /\ settled \in BOOLEAN
      OBVIOUS
    <2>5. failed \in BOOLEAN
      OBVIOUS
    <2> QED BY <2>1, <2>2, <2>3, <2>4, <2>5 DEF TypeOK
  <1>2. OneGroup /\ Answered
    BY DEF OneGroup, Taken, Answered
  <1>3. Behind /\ NothingLeftWorking
    BY DEF Behind, NothingLeftWorking
  <1> QED BY <1>1, <1>2, <1>3 DEF IInv

\* Accepting a group gives each of its orders a status.
LEMMA AcceptedTypes ==
  ASSUME NEW g \in Groups, Accepts(g),
         status \in [Groups -> [Roles -> {"none", "working", "held", "filled", "cancelled"}]]
  PROVE  status' \in [Groups -> [Roles -> {"none", "working", "held", "filled", "cancelled"}]]
  <1> DEFINE accepted ==
        [r \in Roles |-> IF r = Master \/ Master \notin Roles THEN "working" ELSE "held"]
  <1>1. accepted \in [Roles -> {"none", "working", "held", "filled", "cancelled"}]
    OBVIOUS
  <1>2. status' = [status EXCEPT ![g] = accepted]
    BY DEF Accepts
  <1> HIDE DEF accepted
  <1> QED BY <1>1, <1>2

\* The types need the IDs of a group that is being placed, and the kind of answer.
LEMMA NextTypeOK ==
  ASSUME TypeOK, OneGroup, Answered, [Next]_vars
  PROVE  TypeOK'
  <1> USE OrdersHaveRoles DEF TypeOK, OneGroup, Answered, Groups, Open
  <1>1. CASE PlaceCombo
    BY <1>1 DEF PlaceCombo, Prepared, server
  <1>2. CASE PlaceReturns
    BY <1>2 DEF PlaceReturns, server
  <1>3. CASE PlaceUnknown
    BY <1>3 DEF PlaceUnknown
  <1>4. CASE CancelCombo
    <2>1. failed' \in BOOLEAN /\ settled' \in BOOLEAN
      BY <1>4 DEF CancelCombo
    <2>2. at' \in 1..Len(Orders) /\ cancels' \in 0..MaxCancels
      BY <1>4 DEF CancelCombo
    <2>3. UNCHANGED <<id, ret, places, status, late, lateCancels>>
      BY <1>4 DEF CancelCombo, server
    <2>4. pc' = "cancelling" /\ answer' = "none"
      BY <1>4 DEF CancelCombo
    <2> QED BY <2>1, <2>2, <2>3, <2>4
  <1>5. CASE CancelReturns
    BY <1>5 DEF CancelReturns, NextOrder, server
  <1>6. CASE CancelWithoutId
    BY <1>6 DEF CancelWithoutId, NextOrder, server
  <1>7. CASE CancelUnknown
    BY <1>7 DEF CancelUnknown, NextOrder
  <1>8. CASE PlaceExecutes
    <2>1. status' \in [Groups -> [Roles -> {"none", "working", "held", "filled", "cancelled"}]]
      BY <1>8, AcceptedTypes DEF PlaceExecutes
    <2> QED BY <1>8, <2>1 DEF PlaceExecutes, caller
  <1>9. CASE CancelExecutes
    BY <1>9 DEF CancelExecutes, Cancels, caller
  <1>10. CASE Refuses
    BY <1>10 DEF Refuses, caller, server
  <1>11. CASE Lost
    <2>1. late' \subseteq late /\ lateCancels' \subseteq lateCancels
      BY <1>11 DEF Lost
    <2>2. UNCHANGED <<id, pc, at, ret, failed, places, cancels, answer, status, settled>>
      BY <1>11 DEF Lost, caller
    <2> QED BY <2>1, <2>2
  <1>12. ASSUME NEW g \in late, LatePlace(g)
        PROVE  TypeOK'
    <2>1. status' \in [Groups -> [Roles -> {"none", "working", "held", "filled", "cancelled"}]]
      BY <1>12, AcceptedTypes DEF LatePlace
    <2> QED BY <1>12, <2>1 DEF LatePlace, caller
  <1>13. ASSUME NEW r \in lateCancels, LateCancel(r)
        PROVE  TypeOK'
    BY <1>13 DEF LateCancel, Cancels, caller
  <1>14. ASSUME NEW g \in Groups, NEW r \in Roles, Fill(g, r)
        PROVE  TypeOK'
    BY <1>14 DEF Fill, caller
  <1>15. CASE UNCHANGED vars
    BY <1>15 DEF vars, caller, server
  <1> QED
    BY <1>1, <1>2, <1>3, <1>4, <1>5, <1>6, <1>7, <1>8, <1>9, <1>10, <1>11, <1>12,
       <1>13, <1>14, <1>15
    DEF Next, Client, Server

\* Only Prepared sets the IDs, and only while there are none.
LEMMA NextOneGroup ==
  ASSUME TypeOK, OneGroup, [Next]_vars
  PROVE  OneGroup'
  <1> USE OrdersHaveRoles DEF TypeOK, OneGroup, Taken, Groups, Open
  <1>1. CASE PlaceCombo
    BY <1>1 DEF PlaceCombo, Prepared, server
  <1>2. CASE PlaceReturns
    BY <1>2 DEF PlaceReturns, server
  <1>3. CASE PlaceUnknown
    BY <1>3 DEF PlaceUnknown
  <1>4. CASE CancelCombo
    BY <1>4 DEF CancelCombo, server
  <1>5. CASE CancelReturns
    BY <1>5 DEF CancelReturns, NextOrder, server
  <1>6. CASE CancelWithoutId
    BY <1>6 DEF CancelWithoutId, NextOrder, server
  <1>7. CASE CancelUnknown
    BY <1>7 DEF CancelUnknown, NextOrder
  <1>8. CASE PlaceExecutes
    BY <1>8 DEF PlaceExecutes, Accepts, caller
  <1>9. CASE CancelExecutes
    BY <1>9 DEF CancelExecutes, Cancels, caller
  <1>10. CASE Refuses
    BY <1>10 DEF Refuses, caller, server
  <1>11. CASE Lost
    BY <1>11 DEF Lost, caller
  <1>12. ASSUME NEW g \in late, LatePlace(g)
        PROVE  OneGroup'
    BY <1>12 DEF LatePlace, Accepts, caller
  <1>13. ASSUME NEW r \in lateCancels, LateCancel(r)
        PROVE  OneGroup'
    BY <1>13 DEF LateCancel, Cancels, caller
  <1>14. ASSUME NEW g \in Groups, NEW r \in Roles, Fill(g, r)
        PROVE  OneGroup'
    BY <1>14 DEF Fill, caller
  <1>15. CASE UNCHANGED vars
    BY <1>15 DEF vars, caller, server
  <1> QED
    BY <1>1, <1>2, <1>3, <1>4, <1>5, <1>6, <1>7, <1>8, <1>9, <1>10, <1>11, <1>12,
       <1>13, <1>14, <1>15
    DEF Next, Client, Server

\* A POST starts without an answer.
LEMMA NextAnswered ==
  ASSUME TypeOK, Answered, [Next]_vars
  PROVE  Answered'
  <1> USE OrdersHaveRoles DEF TypeOK, Answered
  <1>1. CASE PlaceCombo
    BY <1>1 DEF PlaceCombo, Prepared, server
  <1>2. CASE PlaceReturns
    BY <1>2 DEF PlaceReturns, server
  <1>3. CASE PlaceUnknown
    BY <1>3 DEF PlaceUnknown
  <1>4. CASE CancelCombo
    BY <1>4 DEF CancelCombo, server
  <1>5. CASE CancelReturns
    BY <1>5 DEF CancelReturns, NextOrder, server
  <1>6. CASE CancelWithoutId
    BY <1>6 DEF CancelWithoutId, NextOrder, server
  <1>7. CASE CancelUnknown
    BY <1>7 DEF CancelUnknown, NextOrder
  <1>8. CASE PlaceExecutes
    BY <1>8 DEF PlaceExecutes, Accepts, caller
  <1>9. CASE CancelExecutes
    BY <1>9 DEF CancelExecutes, Cancels, caller
  <1>10. CASE Refuses
    BY <1>10 DEF Refuses, caller, server
  <1>11. CASE Lost
    BY <1>11 DEF Lost, caller
  <1>12. ASSUME NEW g \in late, LatePlace(g)
        PROVE  Answered'
    BY <1>12 DEF LatePlace, Accepts, caller
  <1>13. ASSUME NEW r \in lateCancels, LateCancel(r)
        PROVE  Answered'
    BY <1>13 DEF LateCancel, Cancels, caller
  <1>14. ASSUME NEW g \in Groups, NEW r \in Roles, Fill(g, r)
        PROVE  Answered'
    BY <1>14 DEF Fill, caller
  <1>15. CASE UNCHANGED vars
    BY <1>15 DEF vars, caller, server
  <1> QED
    BY <1>1, <1>2, <1>3, <1>4, <1>5, <1>6, <1>7, <1>8, <1>9, <1>10, <1>11, <1>12,
       <1>13, <1>14, <1>15
    DEF Next, Client, Server

\* CancelCombo moves on past an order only once it is not open, or has failed.
LEMMA NextBehind ==
  ASSUME TypeOK, TypeOK', OneGroup, Answered, Behind, NothingLeftWorking, [Next]_vars
  PROVE  Behind'
  <1> USE OrdersHaveRoles DEF TypeOK, Behind, NothingLeftWorking, OneGroup, Answered, Groups, Open
  <1>1. CASE PlaceCombo
    BY <1>1 DEF PlaceCombo, Prepared, server
  <1>2. CASE PlaceReturns
    BY <1>2 DEF PlaceReturns, server
  <1>3. CASE PlaceUnknown
    BY <1>3 DEF PlaceUnknown
  <1>4. CASE CancelCombo
    BY <1>4 DEF CancelCombo, server
  <1>5. CASE CancelReturns
    <2>1. /\ pc = "cancelling" /\ answer \in {"ok", "gone", "refused"} /\ answer' = "none"
          /\ UNCHANGED <<id, status, late, settled>>
      BY <1>5 DEF CancelReturns, NextOrder, server
    <2>2. settled /\ ~failed' =>
            id # 0 /\ \A i \in 1..Len(Orders) : i <= at => status[id][Orders[i]] \notin Open
      <3> SUFFICES ASSUME settled, ~failed'
                   PROVE  id # 0 /\ \A i \in 1..Len(Orders) :
                                      i <= at => status[id][Orders[i]] \notin Open
        OBVIOUS
      <3>1. ~failed /\ answer # "refused"
        BY <1>5, <2>1 DEF CancelReturns, NextOrder
      <3>2. \A i \in 1..Len(Orders) : i <= at <=> i < at \/ i = at
        OBVIOUS
      <3> QED BY <2>1, <3>1, <3>2
    <2>3. pc' = "cancelling" => at' = at + 1
      BY <1>5 DEF CancelReturns, NextOrder
    <2> QED BY <2>1, <2>2, <2>3
  <1>6. CASE CancelWithoutId
    BY <1>6 DEF CancelWithoutId, NextOrder, server
  <1>7. CASE CancelUnknown
    BY <1>7 DEF CancelUnknown, NextOrder
  <1>8. CASE PlaceExecutes
    BY <1>8 DEF PlaceExecutes, Accepts, caller
  <1>9. CASE CancelExecutes
    BY <1>9 DEF CancelExecutes, Cancels, caller
  <1>10. CASE Refuses
    BY <1>10 DEF Refuses, caller, server
  <1>11. CASE Lost
    BY <1>11 DEF Lost, caller
  <1>12. ASSUME NEW g \in late, LatePlace(g)
        PROVE  Behind'
    BY <1>12 DEF LatePlace, Accepts, caller
  <1>13. ASSUME NEW r \in lateCancels, LateCancel(r)
        PROVE  Behind'
    BY <1>13 DEF LateCancel, Cancels, caller
  <1>14. ASSUME NEW g \in Groups, NEW r \in Roles, Fill(g, r)
        PROVE  Behind'
    BY <1>14 DEF Fill, caller
  <1>15. CASE UNCHANGED vars
    BY <1>15 DEF vars, caller, server
  <1> QED
    BY <1>1, <1>2, <1>3, <1>4, <1>5, <1>6, <1>7, <1>8, <1>9, <1>10, <1>11, <1>12,
       <1>13, <1>14, <1>15
    DEF Next, Client, Server

\* CancelCombo reports success at the last order, with every other one behind it.
LEMMA NextCancelled ==
  ASSUME TypeOK, TypeOK', OneGroup, Answered, Behind, NothingLeftWorking, [Next]_vars
  PROVE  NothingLeftWorking'
  <1> USE OrdersHaveRoles DEF TypeOK, Behind, NothingLeftWorking, OneGroup, Answered, Groups, Open
  <1>1. CASE PlaceCombo
    BY <1>1 DEF PlaceCombo, Prepared, server
  <1>2. CASE PlaceReturns
    BY <1>2 DEF PlaceReturns, server
  <1>3. CASE PlaceUnknown
    BY <1>3 DEF PlaceUnknown
  <1>4. CASE CancelCombo
    BY <1>4 DEF CancelCombo, server
  <1>5. CASE CancelReturns
    <2>1. /\ pc = "cancelling" /\ answer \in {"ok", "gone", "refused"}
          /\ UNCHANGED <<id, status, settled>>
      BY <1>5 DEF CancelReturns, server
    <2>2. CASE pc' = "idle" /\ ret' = "cancelled" /\ settled
      <3>1. at = Len(Orders) /\ ~failed /\ answer # "refused"
        BY <1>5, <2>1, <2>2 DEF CancelReturns, NextOrder
      <3>2. id # 0 /\ \A i \in 1..Len(Orders) : status[id][Orders[i]] \notin Open
        BY <2>1, <2>2, <3>1
      <3>3. \A r \in Roles : status[id][r] \notin Open
        BY <3>2
      <3>4. \A g \in Groups, r \in Roles : g # id => status[g][r] = "none"
        BY DEF Taken
      <3> QED BY <2>1, <3>3, <3>4
    <2> QED BY <2>1, <2>2
  <1>6. CASE CancelWithoutId
    BY <1>6 DEF CancelWithoutId, NextOrder, server
  <1>7. CASE CancelUnknown
    BY <1>7 DEF CancelUnknown, NextOrder
  <1>8. CASE PlaceExecutes
    BY <1>8 DEF PlaceExecutes, Accepts, caller
  <1>9. CASE CancelExecutes
    BY <1>9 DEF CancelExecutes, Cancels, caller
  <1>10. CASE Refuses
    BY <1>10 DEF Refuses, caller, server
  <1>11. CASE Lost
    BY <1>11 DEF Lost, caller
  <1>12. ASSUME NEW g \in late, LatePlace(g)
        PROVE  NothingLeftWorking'
    BY <1>12 DEF LatePlace, Accepts, caller
  <1>13. ASSUME NEW r \in lateCancels, LateCancel(r)
        PROVE  NothingLeftWorking'
    BY <1>13 DEF LateCancel, Cancels, caller
  <1>14. ASSUME NEW g \in Groups, NEW r \in Roles, Fill(g, r)
        PROVE  NothingLeftWorking'
    BY <1>14 DEF Fill, caller
  <1>15. CASE UNCHANGED vars
    BY <1>15 DEF vars, caller, server
  <1> QED
    BY <1>1, <1>2, <1>3, <1>4, <1>5, <1>6, <1>7, <1>8, <1>9, <1>10, <1>11, <1>12,
       <1>13, <1>14, <1>15
    DEF Next, Client, Server

\* The parts are preserved together.
LEMMA NextIInv == IInv /\ [Next]_vars => IInv'
  <1> QED
    BY NextTypeOK, NextOneGroup, NextAnswered, NextBehind, NextCancelled DEF IInv

\* Every variable keeps its type, whatever the orders of the group are.
THEOREM TypeCorrect == Spec => []TypeOK
  <1> QED BY InitIInv, NextIInv, PTL DEF Spec, IInv

\* However often PlaceCombo is called again after a lost response, the server holds
\* one group for a Combo at most.
THEOREM ComboPlacedOnce == Spec => []PlacedOnce
  <1>1. IInv => PlacedOnce
    BY DEF IInv, OneGroup, PlacedOnce
  <1> QED BY <1>1, InitIInv, NextIInv, PTL DEF Spec

\* A CancelCombo that succeeds leaves nothing working, for a group of any size and
\* whatever fills while it goes through the orders.
THEOREM CancelLeavesNothingWorking == Spec => []NothingLeftWorking
  <1> QED BY InitIInv, NextIInv, PTL DEF Spec, IInv

=============================================================================
