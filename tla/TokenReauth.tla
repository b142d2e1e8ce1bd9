----------------------------- MODULE TokenReauth -----------------------------
(***************************************************************************)
(* TokenSource while the user goes through the authorization flow again:   *)
(* the platform exchanges the new code and saves the pair it gets in the   *)
(* store that a running Client also writes to.                             *)
(***************************************************************************)
EXTENDS TokenSource, TLC

CallerSymmetry == Permutations(Callers)

\* A second authorization while a pair is stored: the endpoint issues a new
\* pair, which supersedes the old one, and the platform stores it.
Reauthorize ==
  /\ store # None /\ live < MaxPairs
  /\ live' = live + 1
  /\ created' = [created EXCEPT ![live + 1] = clock]
  /\ store' = live + 1
  /\ UNCHANGED <<clock, source, started, restarts, locals, wire, history>>

ReauthNext == Next \/ Reauthorize

ReauthSpec == Init /\ [][ReauthNext]_vars

\* A pair in the store is never overwritten with an older one, also when the
\* platform stores a pair of its own while valid() is refreshing.
NeverOverwritesNewer == [][store' >= store]_store

=============================================================================
