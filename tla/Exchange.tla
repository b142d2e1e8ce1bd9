------------------------------ MODULE Exchange ------------------------------
(***************************************************************************)
(* What the transport promises of a signed request: the server executes a  *)
(* read as often as it likes but a write at most once, success is reported *)
(* only for a request the server executed, and a request that returned     *)
(* keeps its result.  A copy may be executed after the request returned,   *)
(* unless the server's own refusal was the answer to a write.              *)
(***************************************************************************)
EXTENDS Naturals

CONSTANTS
  Requests,  \* calls of Do
  Reads      \* those whose method is idempotent

VARIABLES
  executed,  \* how often the server executed each request
  outcome    \* what each call of Do has reported: open, ok, refused or unknown

Init ==
  /\ executed = [r \in Requests |-> 0]
  /\ outcome = [r \in Requests |-> "open"]

Execute(r) ==
  /\ r \notin Reads => executed[r] = 0 /\ outcome[r] # "refused"
  /\ executed' = [executed EXCEPT ![r] = @ + 1]
  /\ UNCHANGED outcome

Report(r, o) ==
  /\ outcome[r] = "open"
  /\ o = "ok" => executed[r] > 0
  /\ o = "refused" /\ r \notin Reads => executed[r] = 0
  /\ outcome' = [outcome EXCEPT ![r] = o]
  /\ UNCHANGED executed

Next ==
  \E r \in Requests :
    Execute(r) \/ \E o \in {"ok", "refused", "unknown"} : Report(r, o)

Spec == Init /\ [][Next]_<<executed, outcome>>

=============================================================================
