---------------------------- MODULE MCTunRouting ----------------------------
(* TunRouting with one exempting and one marking rule, named in the cfg.     *)
EXTENDS TunRouting, TLC
=============================================================================
