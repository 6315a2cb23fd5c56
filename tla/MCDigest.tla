------------------------------ MODULE MCDigest ------------------------------
(***************************************************************************)
(* Digest with two instances, two posts and two members: a post inside the *)
(* window and one at its edge, a digest and the next.                      *)
(***************************************************************************)
EXTENDS Digest, TLC

MCSymmetry == Permutations(Instances) \cup Permutations(Members)
                  \cup Permutations(Posts) \cup Permutations(Savers)
=============================================================================
