---------------------------- MODULE MCReconciler ----------------------------
EXTENDS Reconciler
=============================================================================
