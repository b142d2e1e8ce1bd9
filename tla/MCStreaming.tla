---------------------------- MODULE MCStreaming ----------------------------
(***************************************************************************)
(* streaming.Stream for TLC: its buffer (MessageQueue, with the decoding   *)
(* that comes before it) and its subscriptions (MarketStream).  Close ends *)
(* both, and resubscribe counts its failures in the buffer's counter; each *)
(* part has its own account of these, and neither reads what the other     *)
(* writes.  So a behaviour is one of either part: `part` says which, and   *)
(* the other one rests.                                                    *)
(***************************************************************************)
EXTENDS MCMessageQueue, StreamParams

VARIABLES
  part,      \* the part that moves, "queue" or "subs"
  mu, subs, request, answer, groups, handlers, connected, drops, posts, late, server,
  clears, doubt,
  failures,  \* `dropped` of MarketStream
  shut       \* its `closed`

session == <<mu, subs, request, answer, groups, handlers, connected, drops, posts, late,
             server, clears, doubt, failures, shut>>

Subs == INSTANCE MarketStream WITH dropped <- failures, closed <- shut

MCInit ==
  /\ part \in {"queue", "subs"}
  /\ Init
  /\ Subs!Init

QueueMoves == part = "queue" /\ Next /\ UNCHANGED <<part, session>>
SubsMove == part = "subs" /\ Subs!Next /\ UNCHANGED <<part, vars>>

MCNext == QueueMoves \/ SubsMove

\* The fairness of MessageQueue and of MarketStream, each for its own behaviours.
MCFairness ==
  /\ WF_vars(part = "queue" /\ Enqueue)
  /\ WF_vars(part = "queue" /\ (Receive \/ RecvClosed))
  /\ \A u \in Users :
       WF_session(part = "subs" /\ (Subs!CallSucceeds(u) \/ Subs!CallFails(u)))
  /\ WF_session(part = "subs" /\ Subs!Replays)
  /\ SF_session(part = "subs" /\ Subs!StartReplay)

MCSpec == MCInit /\ [][MCNext]_<<part, vars, session>> /\ MCFairness

-----------------------------------------------------------------------------
(* The properties of the subscriptions. *)

\* No replay revives a key that Unsubscribe cancelled, but for keys in doubt.
ForgottenStaysForgotten == Subs!ForgottenStaysForgotten

\* Once the handlers have run, the broker streams what was subscribed to.
ReplayedInFull == Subs!ReplayedInFull

\* Every replay runs to its end.
EveryReplayEnds == part = "subs" => Subs!EveryReplayEnds

=============================================================================
