-------------------------------- MODULE Feed --------------------------------
(***************************************************************************)
(* What a caller of Recv may rely on, whatever the steps of enqueue it     *)
(* races with: the messages held are an unbroken run up to the newest, it  *)
(* reads them in the order they came, each at most once, and the feed      *)
(* never waits for it.  A message that finds the buffer full costs at most *)
(* the oldest one held.  The caller learns of it from a count that goes up *)
(* for every loss, and for a failed replay of its subscriptions too: the   *)
(* count is never short of the losses, but may be ahead of them.           *)
(***************************************************************************)
EXTENDS Integers, Sequences

CONSTANT
  Capacity  \* messages held at most

VARIABLES
  sent,     \* messages that joined those held; they are numbered
  oldest,   \* the number of the oldest message held, sent + 1 if none is
  pressed,  \* the next message has found the buffer full
  read,     \* what was read, oldest first
  spoiled,  \* payloads that were no message
  unreplayed, \* replays that failed
  counted   \* messages and payloads lost, and replays that failed

feed == <<sent, oldest, pressed, read, spoiled, unreplayed, counted>>

Held == sent - oldest + 1

Init ==
  /\ sent = 0 /\ oldest = 1 /\ pressed = FALSE
  /\ read = <<>> /\ spoiled = 0 /\ unreplayed = 0 /\ counted = 0

Spoil ==
  /\ spoiled' = spoiled + 1 /\ counted' = counted + 1
  /\ UNCHANGED <<sent, oldest, pressed, read, unreplayed>>

FailReplay ==
  /\ unreplayed' = unreplayed + 1 /\ counted' = counted + 1
  /\ UNCHANGED <<sent, oldest, pressed, read, spoiled>>

Join ==
  /\ ~pressed /\ Held < Capacity
  /\ sent' = sent + 1
  /\ UNCHANGED <<oldest, pressed, read, spoiled, unreplayed, counted>>

Press ==
  /\ ~pressed /\ Held = Capacity
  /\ pressed' = TRUE
  /\ UNCHANGED <<sent, oldest, read, spoiled, unreplayed, counted>>

\* The reader may have made room meanwhile: the oldest that is left still goes.
LoseOldest ==
  /\ pressed /\ Held > 0
  /\ oldest' = oldest + 1 /\ counted' = counted + 1
  /\ pressed' = FALSE
  /\ UNCHANGED <<sent, read, spoiled, unreplayed>>

\* The reader took everything, so nothing is lost.
LoseNothing ==
  /\ pressed /\ Held = 0
  /\ pressed' = FALSE
  /\ UNCHANGED <<sent, oldest, read, spoiled, unreplayed, counted>>

Read ==
  /\ Held > 0
  /\ read' = Append(read, oldest)
  /\ oldest' = oldest + 1
  /\ UNCHANGED <<sent, pressed, spoiled, unreplayed, counted>>

Next == Spoil \/ FailReplay \/ Join \/ Press \/ LoseOldest \/ LoseNothing \/ Read

Spec == Init /\ [][Next]_feed

=============================================================================
