--------------------------- MODULE MCConfigStore ---------------------------
(* ConfigStore on a small instance: two clients, two bodies and two secrets. *)
EXTENDS ConfigStore, TLC

CONSTANTS c1, c2

ClientSymmetry == Permutations({c1, c2})
=============================================================================
