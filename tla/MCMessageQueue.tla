--------------------------- MODULE MCMessageQueue ---------------------------
(***************************************************************************)
(* MessageQueue with the payloads for TLC: the decoding that comes before  *)
(* the queue is checked on them in the same run (MCStreaming).             *)
(***************************************************************************)
EXTENDS MessageQueue, Messages

Topics == Modelled \cup {"echo", "notice", "other"}
Texts == {Text("empty", 0), Text("integer", 0), Text("integer", 7), Text("fraction", 3),
          Text("word", 9)}
Level(p, s) == [price |-> p, size |-> s]
SomeBooks == {<<>>, <<Level(Text("word", 9), Text("integer", 7)), Level(Text("integer", 7), Text("empty", 0))>>}
Instruments == {Absent, <<[symbol |-> "AAPL", timestamp |-> Text("integer", 7)]>>}

\* Every text field is `t` but those of `odd`, which are `u`.
PayloadOf(topic, whole, basic, odd, t, u, b) ==
  LET f == FieldsOf(topic) IN
    [whole |-> whole, basic |-> basic,
     texts |-> [n \in f.decimals \cup f.times \cup f.texts |-> IF n \in odd THEN u ELSE t],
     books |-> [n \in f.books |-> b]]

Odd(topic) ==
  LET f == FieldsOf(topic) IN {{}} \cup {{n} : n \in f.decimals \cup f.times \cup f.texts}

SamplesOf(topic) ==
  {[topic |-> topic, payload |-> PayloadOf(topic, w, i, odd, t, u, b)] :
     w \in BOOLEAN, i \in Instruments, odd \in Odd(topic), t \in Texts, u \in Texts,
     b \in SomeBooks}

Samples ==
  (UNION {SamplesOf(topic) : topic \in Modelled})
    \cup {[topic |-> topic, payload |-> [whole |-> FALSE]] : topic \in Topics}

\* Checked when the first message has been decoded, as decode keeps nothing: it sets
\* the one field a message's Type names, makes no number of what is none, and keeps
\* the depth of an order book.
MessagesAreWhole ==
  step = "send" /\ arrived = 1 /\ dropped = 0 /\ ~closed =>
    TypeNamesField(Samples) /\ NothingInvented(Samples) /\ BooksKeepDepth(Samples)

=============================================================================
