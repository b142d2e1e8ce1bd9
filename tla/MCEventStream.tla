---------------------------- MODULE MCEventStream ----------------------------
(***************************************************************************)
(* Instance of EventStream for TLC, with the subscription it asks for and  *)
(* the events it returns checked on bounded arguments in the same run.     *)
(***************************************************************************)
EXTENDS EventStream, TradeEvents

EventScalars == {Scalar(f, w, 7) : f \in Forms, w \in {"integer", "compact", "timestamp", "garbage"}}

EventFields == Fields(KindOrder) \cup Fields(KindPosition)

\* All fields alike but one.
Payloads ==
  {[whole |-> w, fields |-> [f \in EventFields |-> IF f = odd THEN t ELSE s]] :
     w \in BOOLEAN, odd \in EventFields, s \in EventScalars, t \in EventScalars}

ContentTypes == JsonTypes \cup {"application/x-protobuf", ""}

\* Checked before the first dial, as both functions keep nothing: the types of a
\* SubscribeRequest, repeated and combined, become the mask of the request, and
\* decodeEvent returns a typed event whole or not at all, and the payload always.
EventsAreWhole ==
  dials = 0 =>
    /\ MaskIsUnion(UNION {[1..n -> 1..7] : n \in 0..3})
    /\ EventIsWhole({KindOrder, KindPosition, KindOption, 1}, ContentTypes, Payloads)

=============================================================================
