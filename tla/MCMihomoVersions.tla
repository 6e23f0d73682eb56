-------------------------- MODULE MCMihomoVersions --------------------------
EXTENDS MihomoVersions, TLC

CONSTANTS v1, v2, a1, a2

MCVersions == {v1, v2}
MCActors   == {a1, a2}

\* Neither versions nor actors are told apart but by what they do.
Symmetry == Permutations(MCVersions) \cup Permutations(MCActors)
=============================================================================
