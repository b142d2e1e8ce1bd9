--------------------------- MODULE MCTokenSource ---------------------------
(***************************************************************************)
(* Instance of TokenSource for TLC: two goroutines (interchangeable) whose *)
(* calls overlap, and lifetimes short enough that pairs lapse in a run.    *)
(***************************************************************************)
EXTENDS TokenSource, TLC

CallerSymmetry == Permutations(Callers)

=============================================================================
