-------------------------- MODULE MCManagerControl --------------------------
(* ManagerControl on a small instance: two ports, the failures of the cfg.   *)
EXTENDS ManagerControl, TLC
=============================================================================
