------------------------------ MODULE Messages ------------------------------
(***************************************************************************)
(* How streaming.decode makes a Message of what arrives on a topic of the  *)
(* MQTT connection.                                                        *)
(*                                                                         *)
(* A payload is a record: `whole` says whether it is a protobuf message of *)
(* the topic's type, `texts` gives its text fields and `books` its lists   *)
(* of levels, by field.  A text is a record too: its form, and the number  *)
(* it denotes.  In the result a number is the sequence of its values, <<>> *)
(* when it is absent.  A snapshot's fields are named by their session      *)
(* ("" is the regular one) and their name.                                 *)
(***************************************************************************)
EXTENDS Integers, Sequences

Forms == {"empty", "integer", "fraction", "word"}
Text(form, n) == [form |-> form, n |-> n]
Absent == <<>>

\* Faulty variant of Dec: what does not parse is zero.
ZeroIfNotParsed(t) == IF t.form \in {"integer", "fraction"} THEN <<t.n>> ELSE <<0>>

\* dec
Dec(t) == IF t.form \in {"integer", "fraction"} THEN <<t.n>> ELSE Absent

\* millis
MillisOf(t) == IF t.form = "integer" /\ t.n # 0 THEN <<t.n>> ELSE Absent

-----------------------------------------------------------------------------
(* The fields of each type: which are decimals, times, other texts, books. *)

Fields(decimals, times, texts, books) ==
  [decimals |-> decimals, times |-> times, texts |-> texts, books |-> books]

Sessions == {"", "ext", "ovn"}

SnapshotFields ==
  Fields((Sessions \X {"price", "high", "low", "volume", "change", "change_ratio"})
           \cup ({""} \X {"open", "pre_close"}),
         Sessions \X {"trade_time"}, {}, {})

QuoteFields == Fields({}, {}, {}, {"asks", "bids"})

TickFields == Fields({"price", "volume"}, {"time"}, {"side"}, {})

EventSnapshotFields ==
  Fields({"price", "volume", "open_interest", "yes_ask", "yes_bid", "yes_ask_size",
          "yes_bid_size", "no_ask", "no_bid", "no_ask_size", "no_bid_size"},
         {"last_trade_time"}, {}, {})

EventQuoteFields == Fields({}, {}, {}, {"yes_bids", "no_bids"})

EventTickFields ==
  Fields({"yes_price", "no_price", "volume"}, {"time"}, {"side", "trade_id"}, {})

FieldsOf(topic) ==
  CASE topic = "snapshot" -> SnapshotFields
    [] topic = "quote" -> QuoteFields
    [] topic = "tick" -> TickFields
    [] topic = "event-snapshot" -> EventSnapshotFields
    [] topic = "event-quote" -> EventQuoteFields
    [] topic = "event-tick" -> EventTickFields

Modelled == {"snapshot", "quote", "tick", "event-snapshot", "event-quote", "event-tick"}

-----------------------------------------------------------------------------
(* decode *)

\* basic, of an instrument that is there or not.
Basic(b) == IF b = Absent THEN [symbol |-> "", time |-> Absent]
            ELSE [symbol |-> b[1].symbol, time |-> MillisOf(b[1].timestamp)]

\* Faulty variant of Levels: a level without a price is left out.
PricedLevels(in) ==
  LET Priced(l) == Dec(l.price) # Absent IN
    [k \in 1..Len(SelectSeq(in, Priced)) |->
      [price |-> Dec(SelectSeq(in, Priced)[k].price), size |-> Dec(SelectSeq(in, Priced)[k].size)]]

\* levels and eventLevels; the market participants of a level are carried along.
Levels(in) == [k \in 1..Len(in) |-> [price |-> Dec(in[k].price), size |-> Dec(in[k].size)]]

Body(topic, payload) ==
  LET f == FieldsOf(topic) IN
    [basic |-> Basic(payload.basic),
     numbers |-> [n \in f.decimals \cup f.times |->
                   IF n \in f.decimals THEN Dec(payload.texts[n]) ELSE MillisOf(payload.texts[n])],
     texts |-> [n \in f.texts |-> payload.texts[n]],
     books |-> [n \in f.books |-> Levels(payload.books[n])]]

NoNotice == ""
NoRaw == <<>>

\* The typed field that is set, if any, is the first component.
Message(topic, typed, notice, raw) ==
  [type |-> topic, typed |-> typed, notice |-> notice, raw |-> raw]

EchoResult == [kind |-> "nothing"]
DecodeError == [kind |-> "error"]
Delivered(message) == [kind |-> "message", message |-> message]

\* Faulty variant of Decode: a payload that is not of its type falls through to
\* the topics that are not modelled.
DecodeOrRaw(topic, payload) ==
  CASE topic = "echo" -> EchoResult
    [] topic \in Modelled /\ payload.whole ->
         Delivered(Message(topic, <<topic, Body(topic, payload)>>, NoNotice, NoRaw))
    [] topic = "notice" -> Delivered(Message(topic, <<>>, "payload", <<payload>>))
    [] OTHER -> Delivered(Message(topic, <<>>, NoNotice, <<payload>>))

Decode(topic, payload) ==
  CASE topic = "echo" -> EchoResult
    [] topic \in Modelled ->
         IF payload.whole
           THEN Delivered(Message(topic, <<topic, Body(topic, payload)>>, NoNotice, NoRaw))
           ELSE DecodeError
    [] topic = "notice" -> Delivered(Message(topic, <<>>, "payload", <<payload>>))
    [] OTHER -> Delivered(Message(topic, <<>>, NoNotice, <<payload>>))

-----------------------------------------------------------------------------
(* Properties.  `samples` is a set of topics with a payload for each. *)

\* "Exactly one of the typed fields matching Type is populated; a topic this
\* package does not model arrives with only Type and Raw set": a consumer that
\* switches on Type never reads a field that is nil, whatever arrived.
TypeNamesField(samples) ==
  \A s \in samples : LET r == Decode(s.topic, s.payload) IN
    r.kind = "message" =>
      /\ r.message.type = s.topic
      /\ s.topic \in Modelled => r.message.typed # <<>> /\ r.message.typed[1] = s.topic
      /\ s.topic \notin Modelled => r.message.typed = <<>> /\ r.message.raw = <<s.payload>>

\* A number that is empty or does not parse is absent, never a value, and costs
\* neither the message nor the numbers beside it.
NothingInvented(samples) ==
  \A s \in samples : s.topic \in Modelled /\ s.payload.whole =>
    LET body == Decode(s.topic, s.payload).message.typed[2] IN
      \A n \in DOMAIN body.numbers : LET t == s.payload.texts[n] IN
        /\ t.form \in {"empty", "word"} => body.numbers[n] = Absent
        /\ t.form = "integer" /\ t.n # 0 => body.numbers[n] = <<t.n>>
        /\ body.numbers[n] \in {Absent, <<t.n>>}

\* Level k of a book is level k of the payload, although levels before it lack a
\* price or a size.
BooksKeepDepth(samples) ==
  \A s \in samples : s.topic \in Modelled /\ s.payload.whole =>
    LET body == Decode(s.topic, s.payload).message.typed[2] IN
      \A n \in DOMAIN body.books :
        /\ Len(body.books[n]) = Len(s.payload.books[n])
        /\ \A k \in 1..Len(body.books[n]) :
             /\ body.books[n][k].price = Dec(s.payload.books[n][k].price)
             /\ body.books[n][k].size = Dec(s.payload.books[n][k].size)

=============================================================================
