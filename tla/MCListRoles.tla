----------------------------- MODULE MCListRoles -----------------------------
(***************************************************************************)
(* ListRoles with two handlers, two Subscribers and two successive lists.  *)
(***************************************************************************)
EXTENDS ListRoles, TLC

MCSymmetry == Permutations(Handlers) \cup Permutations(Persons)
=============================================================================
