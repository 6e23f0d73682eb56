---------------------------- MODULE MCProfiles -----------------------------
(* Profiles on a small instance.                                            *)
EXTENDS Profiles, TLC

CONSTANTS p1, p2, n1, n2, c1, c2

ProfileSymmetry == Permutations({p1, p2}) \cup Permutations({n1, n2}) \cup Permutations({c1, c2})
=============================================================================
