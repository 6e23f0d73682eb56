----------------------------- MODULE LatestWins -----------------------------
(***************************************************************************)
(* What applying committed configurations promises, whoever does it and    *)
(* however: each application moves the core forward, to a configuration    *)
(* that is committed, and whoever is told that his change is applied can   *)
(* rely on it for ever: an older configuration never comes back.           *)
(***************************************************************************)
EXTENDS Naturals

VARIABLES
  committed,  \* the newest version
  running,    \* the version the core runs, or would run if it were started
  answered    \* the newest version whose committer was told that it is applied

vars == <<committed, running, answered>>

Init == committed = 0 /\ running = 0 /\ answered = 0

Commit ==
  /\ committed' = committed + 1
  /\ UNCHANGED <<running, answered>>

Apply ==
  /\ running' \in running .. committed
  /\ UNCHANGED <<committed, answered>>

Answer ==
  /\ answered' \in answered .. running
  /\ UNCHANGED <<committed, running>>

Next == Commit \/ Apply \/ Answer

Spec == Init /\ [][Next]_vars
=============================================================================
