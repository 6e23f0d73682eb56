--------------------------- MODULE MCLogRecorder ---------------------------
(* LogRecorder on a small instance.                                         *)
EXTENDS LogRecorder
=============================================================================
