--------------------------- MODULE MCCoreProcess ---------------------------
(* CoreProcess on a small instance, callers a and b.                        *)
EXTENDS CoreProcess, TLC

CONSTANTS a, b
=============================================================================
