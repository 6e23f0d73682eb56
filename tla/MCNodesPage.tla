----------------------------- MODULE MCNodesPage -----------------------------
EXTENDS NodesPage

MCKeys == {<<"g1", "n1">>}
=============================================================================
