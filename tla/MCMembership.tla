---------------------------- MODULE MCMembership ----------------------------
(***************************************************************************)
(* Membership for one address with two handlers in progress: enough for    *)
(* every race between two handlers, on a subscription and the next one of  *)
(* the same address.                                                       *)
(***************************************************************************)
EXTENDS Membership, TLC

MCSymmetry == Permutations(Handlers) \cup Permutations(Tokens)
=============================================================================
