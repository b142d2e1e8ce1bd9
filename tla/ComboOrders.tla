----------------------------- MODULE ComboOrders -----------------------------
(***************************************************************************)
(* trade.Client's PlaceCombo and CancelCombo on one group of orders, with  *)
(* the server's side of the group.  One caller places the group, possibly  *)
(* again after a failure, and cancels it; orders fill at any moment.  A    *)
(* POST is as Exchange has it: executed at most once, and perhaps only     *)
(* after the client gave up on it ("late").                                *)
(*                                                                         *)
(* The orders are named by their role.  The client order IDs of the group  *)
(* are abstracted to one number, 0 when they are still empty.  PlaceOrder  *)
(* and CancelOrder are the case of a group of one order.  What the server  *)
(* does is external: taken from what the package's documentation, tests    *)
(* and error codes say of it.                                              *)
(***************************************************************************)
EXTENDS ComboParams

Roles == {Orders[i] : i \in 1..Len(Orders)}

VARIABLES
  id,       \* the client order IDs in the Combo, 0 if empty
  pc,       \* the caller is "idle", "placing" or "cancelling"
  answer,   \* the server's answer to the POST under way
  at,       \* CancelCombo's place in Combo.Orders
  failed,   \* CancelCombo's errs is not empty
  ret,      \* what the last call returned
  places,   \* calls of PlaceCombo so far
  cancels,  \* calls of CancelCombo so far
  status,   \* server: the orders of each group it was sent
  late,     \* POSTs of place the client gave up on
  lateCancels, \* POSTs of cancel the client gave up on, as the roles
  settled   \* history: no POST of place was late when CancelCombo began

caller == <<id, pc, at, failed, ret, places, cancels>>
server == <<status, late, lateCancels>>
vars == <<caller, answer, server, settled>>

Groups == 1..MaxPlaces
Open == {"working", "held"}

-----------------------------------------------------------------------------
(* The server. *)

Accepts(g) ==
  status' = [status EXCEPT ![g] =
    [r \in Roles |-> IF r = Master \/ Master \notin Roles THEN "working" ELSE "held"]]

Taken(g) == \E r \in Roles : status[g][r] # "none"

\* A cancel does nothing to an order that is not open.  Cancelling a master that
\* has not filled cancels its exits too; once it has, they are orders of their own.
Cancels(g, role) ==
  [status EXCEPT ![g] = [r \in Roles |->
    IF @[r] \in Open /\ (r = role \/ (role = Master /\ @[role] \in Open))
      THEN "cancelled" ELSE @[r]]]

\* A fill of the master releases its exits; a fill of another order cancels the
\* rest of its group.
Fill(g, role) ==
  /\ status[g][role] = "working"
  /\ status' = [status EXCEPT ![g] = [r \in Roles |->
       IF r = role THEN "filled"
       ELSE IF @[r] \notin Open THEN @[r]
       ELSE IF role = Master THEN "working" ELSE "cancelled"]]
  /\ UNCHANGED <<caller, answer, late, lateCancels, settled>>

PlaceExecutes ==
  /\ pc = "placing" /\ answer = "none"
  /\ IF Taken(id) THEN answer' = "duplicate" /\ UNCHANGED status
                  ELSE answer' = "ok" /\ Accepts(id)
  /\ UNCHANGED <<caller, late, lateCancels, settled>>

CancelExecutes ==
  /\ pc = "cancelling" /\ answer = "none" /\ id # 0
  /\ answer' = IF status[id][Orders[at]] \in Open THEN "ok" ELSE "gone"
  /\ status' = Cancels(id, Orders[at])
  /\ UNCHANGED <<caller, late, lateCancels, settled>>

\* An error that neither did anything nor is about the state of the order.
Refuses ==
  /\ pc # "idle" /\ answer = "none"
  /\ answer' = "refused"
  /\ UNCHANGED <<caller, server, settled>>

LatePlace(g) ==
  /\ late' = late \ {g}
  /\ IF Taken(g) THEN UNCHANGED status ELSE Accepts(g)
  /\ UNCHANGED <<caller, answer, lateCancels, settled>>

LateCancel(role) ==
  /\ lateCancels' = lateCancels \ {role}
  /\ status' = Cancels(id, role)
  /\ UNCHANGED <<caller, answer, late, settled>>

Lost ==
  /\ \/ \E g \in late : late' = late \ {g} /\ UNCHANGED lateCancels
     \/ \E r \in lateCancels : lateCancels' = lateCancels \ {r} /\ UNCHANGED late
  /\ UNCHANGED <<caller, answer, status, settled>>

-----------------------------------------------------------------------------
(* PlaceCombo *)

\* Faulty variant of Prepared: every placement gets fresh IDs.
AlwaysFresh == places + 1

\* prepare generates the IDs that are empty and writes them back.
Prepared == IF id = 0 THEN places + 1 ELSE id

\* The group is valid, and sent; or invalid, and not sent.
PlaceCombo ==
  /\ pc = "idle" /\ places < MaxPlaces
  /\ places' = places + 1
  /\ id' = Prepared
  /\ \/ pc' = "placing" /\ answer' = "none" /\ UNCHANGED ret
     \/ ret' = "invalid" /\ UNCHANGED <<pc, answer>>
  /\ UNCHANGED <<at, failed, cancels, server, settled>>

PlaceReturns ==
  /\ pc = "placing" /\ answer # "none"
  /\ pc' = "idle"
  /\ ret' = IF answer = "ok" THEN "placed" ELSE answer
  /\ UNCHANGED <<id, at, failed, places, cancels, answer, server, settled>>

\* The response is lost, times out or cannot be read: the outcome is unknown.
PlaceUnknown ==
  /\ pc = "placing"
  /\ pc' = "idle" /\ ret' = "unknown"
  /\ late' = IF answer = "none" THEN late \cup {id} ELSE late
  /\ UNCHANGED <<id, at, failed, places, cancels, answer, status, lateCancels, settled>>

-----------------------------------------------------------------------------
(* CancelCombo *)

CancelCombo ==
  /\ pc = "idle" /\ cancels < MaxCancels
  /\ cancels' = cancels + 1
  /\ pc' = "cancelling" /\ answer' = "none"
  /\ at' = 1 /\ failed' = FALSE
  /\ settled' = (late = {})
  /\ UNCHANGED <<id, ret, places, server>>

\* Goes on with the next order, or returns the errors joined.
NextOrder(error) ==
  /\ failed' = (failed \/ error)
  /\ IF at < Len(Orders)
       THEN at' = at + 1 /\ UNCHANGED <<pc, ret>>
       ELSE /\ pc' = "idle" /\ UNCHANGED at
            /\ ret' = IF failed \/ error THEN "cancelFailed" ELSE "cancelled"
  /\ answer' = "none"

\* Faulty variant of CancelReturns: only the master is cancelled, as if that
\* always cancelled its exits.
FirstOnly ==
  /\ pc = "cancelling" /\ answer # "none"
  /\ pc' = "idle" /\ answer' = "none" /\ UNCHANGED at
  /\ failed' = (failed \/ answer = "refused")
  /\ ret' = IF failed' THEN "cancelFailed" ELSE "cancelled"
  /\ UNCHANGED <<id, places, cancels, server, settled>>

\* CancelOrder returned: an order already gone is not an error.
CancelReturns ==
  /\ pc = "cancelling" /\ answer # "none"
  /\ NextOrder(answer = "refused")
  /\ UNCHANGED <<id, places, cancels, server, settled>>

\* CancelOrder refuses an empty ID before it sends anything.
CancelWithoutId ==
  /\ pc = "cancelling" /\ id = 0
  /\ NextOrder(TRUE)
  /\ UNCHANGED <<id, places, cancels, server, settled>>

CancelUnknown ==
  /\ pc = "cancelling" /\ id # 0
  /\ NextOrder(TRUE)
  /\ lateCancels' = IF answer = "none" THEN lateCancels \cup {Orders[at]} ELSE lateCancels
  /\ UNCHANGED <<id, places, cancels, status, late, settled>>

-----------------------------------------------------------------------------

Init ==
  /\ id = 0 /\ pc = "idle" /\ answer = "none"
  /\ at = 1 /\ failed = FALSE /\ ret = "none" /\ places = 0 /\ cancels = 0
  /\ status = [g \in Groups |-> [r \in Roles |-> "none"]]
  /\ late = {} /\ lateCancels = {} /\ settled = TRUE

Client ==
  \/ PlaceCombo \/ PlaceReturns \/ PlaceUnknown
  \/ CancelCombo \/ CancelReturns \/ CancelWithoutId \/ CancelUnknown

Server ==
  \/ PlaceExecutes \/ CancelExecutes \/ Refuses \/ Lost
  \/ \E g \in late : LatePlace(g)
  \/ \E r \in lateCancels : LateCancel(r)
  \/ \E g \in Groups, r \in Roles : Fill(g, r)

Next == Client \/ Server

Spec == Init /\ [][Next]_vars

-----------------------------------------------------------------------------
(* Properties. *)

\* Every variable has its type.
TypeOK ==
  /\ id \in 0..MaxPlaces /\ pc \in {"idle", "placing", "cancelling"}
  /\ answer \in {"none", "ok", "duplicate", "gone", "refused"}
  /\ at \in 1..Len(Orders) /\ failed \in BOOLEAN
  /\ ret \in {"none", "invalid", "placed", "duplicate", "refused", "unknown",
              "cancelled", "cancelFailed"}
  /\ places \in 0..MaxPlaces /\ cancels \in 0..MaxCancels
  /\ status \in [Groups -> [Roles -> {"none", "working", "held", "filled", "cancelled"}]]
  /\ late \subseteq Groups /\ lateCancels \subseteq Roles
  /\ settled \in BOOLEAN

\* However often a Combo whose outcome was unknown is placed again, the server
\* holds one group for it at most, a late first placement included.
PlacedOnce == \A g, h \in Groups : Taken(g) /\ Taken(h) => g = h

\* When CancelCombo reports success nothing of the group is left working, in
\* whatever order its orders filled, released and cancelled each other while it
\* ran, provided that no placement was still on its way.
NothingLeftWorking ==
  ret = "cancelled" /\ settled /\ pc = "idle"
    => \A g \in Groups, r \in Roles : status[g][r] \notin Open

\* The same with no proviso: "the group's goal is that nothing is left working".
CancelIsComplete ==
  ret = "cancelled" /\ pc = "idle"
    => \A g \in Groups, r \in Roles : status[g][r] \notin Open

=============================================================================
