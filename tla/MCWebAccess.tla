---------------------------- MODULE MCWebAccess -----------------------------
(***************************************************************************)
(* WebAccess with two handlers, a Subscriber and an unknown address, and a *)
(* limiter that keeps one bucket.                                          *)
(***************************************************************************)
EXTENDS WebAccess, TLC

MCSymmetry == Permutations(Handlers) \cup Permutations(Links)
                  \cup Permutations(Sessions)
=============================================================================
