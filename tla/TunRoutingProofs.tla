-------------------------- MODULE TunRoutingProofs --------------------------
(* Proofs about TunRouting, for any set of policy rules.                     *)
EXTENDS TunRouting, TLAPS

\* The call in flight, its step and the last result.
Control ==
  /\ call = "none" <=> pc = "idle"
  /\ result # "none" => pc = "idle"

\* As long as the firewall tools stay, they are those of the state file, and
\* chains of an old version are seen by them.
SameTools ==
  ~switched => /\ Owns => avail = file.backend
               /\ oldChains => avail = "nft"

\* What a cleanup without errors has removed when it arrives at each step.
CleanupProgress ==
  loaded /\ clean =>
    /\ pc = "del_rules" => policy \subseteq {"route"} \cup todo
    /\ pc \in {"del_firewall", "del_old_chains", "del_chains", "forget"} => policy = {}
    /\ pc \in {"del_old_chains", "del_chains", "forget"} /\ ~switched => marks = {}
    /\ pc \in {"del_old_chains", "forget"} /\ ~switched => legacy = {}
    /\ pc \in {"del_chains", "forget"} /\ ~switched => ~oldChains

\* What each branch of the firewall steps relies on.
ToolsOfStep ==
  /\ pc \notin {"idle", "preflight", "restore"} => avail # "none"
  /\ pc = "del_old_chains" => avail = "nft"
  /\ pc \in {"del_chains", "add_jumps", "add_chain_rules"} => avail = "iptables-legacy"

FirewallComplete ==
  IF file.backend = "nft" THEN file.inst \in marks ELSE legacy = LegacyParts

Adding == {"add_route", "add_rules", "add_firewall", "add_jumps", "add_chain_rules", "verify"}

\* What a setup has made sure of when it arrives at each step.
SetupProgress ==
  /\ pc = "validate" => ~Owns
  /\ pc = "prepare" => ~Owns
  /\ pc \in Adding => Owns /\ file.backend = avail
  /\ pc = "add_rules" => Policy \ todo \subseteq policy
  /\ pc \in Adding \ {"add_route", "add_rules"} => policy = Policy
  /\ pc \in {"add_jumps", "add_chain_rules"} => "chains" \in legacy
  /\ pc = "add_chain_rules" => "jumps" \in legacy
  /\ pc = "verify" => FirewallComplete

\* The inductive invariant, apart from the types.
Safe ==
  /\ Control
  /\ ClaimedByFile
  /\ Reclaimable
  /\ SameTools
  /\ CleanupProgress
  /\ ToolsOfStep
  /\ SetupProgress
  /\ SetupOkMeansComplete
  /\ RestoreOkMeansClean

IInv == TypeOK /\ Safe

-----------------------------------------------------------------------------
\* The initial states satisfy the inductive invariant.
LEMMA InitIInv == Init => IInv
  <1> SUFFICES ASSUME Init PROVE IInv
    OBVIOUS
  <1> USE TunConstantsOK DEF Init, NoFile, Owns
  <1>1. TypeOK
    <2>1. policy \subseteq Policy /\ legacy \subseteq LegacyParts /\ marks \subseteq Nat
      BY DEF Policy
    <2>2. file \in StateFile
      BY DEF StateFile, Backends
    <2> QED
      BY <2>1, <2>2 DEF TypeOK, Backends, PCs
  <1>2. Control /\ ClaimedByFile /\ Reclaimable /\ SameTools
    BY DEF Control, ClaimedByFile, Reclaimable, SameTools
  <1>3. CleanupProgress /\ ToolsOfStep /\ SetupProgress
    BY DEF CleanupProgress, ToolsOfStep, SetupProgress, Adding
  <1>4. SetupOkMeansComplete /\ RestoreOkMeansClean
    BY DEF SetupOkMeansComplete, RestoreOkMeansClean
  <1> QED
    BY <1>1, <1>2, <1>3, <1>4 DEF IInv, Safe

\* Every step preserves the types.
LEMMA NextTypeOK == TypeOK /\ [Next]_vars => TypeOK'
  <1> SUFFICES ASSUME TypeOK, [Next]_vars PROVE TypeOK'
    OBVIOUS
  <1> USE TunConstantsOK DEF TypeOK, StateFile, Backends, PCs, LegacyParts, Policy, Owns,
         kernel, disk, ctl, env, Finish, Goto, CleanupGoto, StartCleanup, rollbackTUNSetup
  <1>1. ASSUME NEW ok \in BOOLEAN, LoadState(ok)
       PROVE TypeOK'
    <2>1. CASE ok
      BY <1>1, <2>1 DEF LoadState
    <2>2. CASE ~ok
      BY <1>1, <2>2 DEF LoadState
    <2> QED
      BY <2>1, <2>2
  <1>2. ASSUME NEW ok \in BOOLEAN, NEW r \in PolicyRules, DeleteRule(r, ok)
       PROVE TypeOK'
    <2>1. policy' \subseteq Policy /\ todo' \subseteq PolicyRules
      BY <1>2 DEF DeleteRule
    <2>2. legacy' \subseteq LegacyParts /\ marks' \subseteq Nat
      BY <1>2 DEF DeleteRule
    <2>3. /\ pc' \in PCs /\ call' \in {"none", "setup", "restore"}
          /\ then' \in {"validate", "fail", "done"}
          /\ result' \in {"none", "error", "setup_ok", "restore_ok"}
          /\ loaded' \in BOOLEAN /\ clean' \in BOOLEAN
      BY <1>2 DEF DeleteRule
    <2> QED
      BY <1>2, <2>1, <2>2, <2>3 DEF DeleteRule
  <1>3. ASSUME NEW ok \in BOOLEAN, DeleteRoute(ok)
       PROVE TypeOK'
    BY <1>3 DEF DeleteRoute
  <1>4. ASSUME NEW ok \in BOOLEAN, NoPolicyCommands
       PROVE TypeOK'
    BY <1>4 DEF NoPolicyCommands
  <1>5. ASSUME NEW ok \in BOOLEAN, cleanupTUNNFTFirewall(ok)
       PROVE TypeOK'
    BY <1>5 DEF cleanupTUNNFTFirewall, isOwnedCurrentNFTTable, MarkerMatches
  <1>6. ASSUME NEW ok \in BOOLEAN, SkipForeignTable
       PROVE TypeOK'
    BY <1>6 DEF SkipForeignTable, isOwnedCurrentNFTTable
  <1>7. ASSUME NEW ok \in BOOLEAN, cleanupLegacyTUNArtifactsWithNFT(ok)
       PROVE TypeOK'
    BY <1>7 DEF cleanupLegacyTUNArtifactsWithNFT
  <1>8. ASSUME NEW ok \in BOOLEAN, DeleteJumps(ok)
       PROVE TypeOK'
    BY <1>8 DEF DeleteJumps
  <1>9. ASSUME NEW ok \in BOOLEAN, NEW flushed \in BOOLEAN, DeleteChains(flushed, ok)
       PROVE TypeOK'
    BY <1>9 DEF DeleteChains
  <1>10. ASSUME NEW ok \in BOOLEAN, Forget(ok)
       PROVE TypeOK'
    BY <1>10 DEF Forget, AfterCleanup, NoFile
  <1>11. ASSUME NEW ok \in BOOLEAN, Preflight(ok)
       PROVE TypeOK'
    BY <1>11 DEF Preflight
  <1>12. ASSUME NEW ok \in BOOLEAN, validateTUNRouteSlotsAreFree(ok)
       PROVE TypeOK'
    BY <1>12 DEF validateTUNRouteSlotsAreFree
  <1>13. ASSUME NEW ok \in BOOLEAN, SavePreparing(ok)
       PROVE TypeOK'
    BY <1>13 DEF SavePreparing, newTUNRoutingState
  <1>14. ASSUME NEW ok \in BOOLEAN, ensureTUNDefaultRoute(ok)
       PROVE TypeOK'
    <2>1. policy' \subseteq Policy /\ todo' \subseteq PolicyRules
      BY <1>14 DEF ensureTUNDefaultRoute
    <2>2. legacy' \subseteq LegacyParts /\ marks' \subseteq Nat
      BY <1>14 DEF ensureTUNDefaultRoute
    <2>3. /\ pc' \in PCs /\ call' \in {"none", "setup", "restore"}
          /\ then' \in {"validate", "fail", "done"}
          /\ result' \in {"none", "error", "setup_ok", "restore_ok"}
          /\ loaded' \in BOOLEAN /\ clean' \in BOOLEAN
      BY <1>14 DEF ensureTUNDefaultRoute
    <2> QED
      BY <1>14, <2>1, <2>2, <2>3 DEF ensureTUNDefaultRoute
  <1>15. ASSUME NEW ok \in BOOLEAN, NEW r \in PolicyRules, AddRule(r, ok)
       PROVE TypeOK'
    <2>1. policy' \subseteq Policy /\ todo' \subseteq PolicyRules
      BY <1>15 DEF AddRule
    <2>2. legacy' \subseteq LegacyParts /\ marks' \subseteq Nat
      BY <1>15 DEF AddRule
    <2>3. /\ pc' \in PCs /\ call' \in {"none", "setup", "restore"}
          /\ then' \in {"validate", "fail", "done"}
          /\ result' \in {"none", "error", "setup_ok", "restore_ok"}
          /\ loaded' \in BOOLEAN /\ clean' \in BOOLEAN
      BY <1>15 DEF AddRule
    <2> QED
      BY <1>15, <2>1, <2>2, <2>3 DEF AddRule
  <1>16. ASSUME NEW ok \in BOOLEAN, RulesAdded
       PROVE TypeOK'
    BY <1>16 DEF RulesAdded
  <1>17. ASSUME NEW ok \in BOOLEAN, setupTUNNFTFirewall(ok)
       PROVE TypeOK'
    <2>1. policy' \subseteq Policy /\ todo' \subseteq PolicyRules
      BY <1>17 DEF setupTUNNFTFirewall
    <2>2. legacy' \subseteq LegacyParts /\ marks' \subseteq Nat
      BY <1>17 DEF setupTUNNFTFirewall
    <2>3. /\ pc' \in PCs /\ call' \in {"none", "setup", "restore"}
          /\ then' \in {"validate", "fail", "done"}
          /\ result' \in {"none", "error", "setup_ok", "restore_ok"}
          /\ loaded' \in BOOLEAN /\ clean' \in BOOLEAN
      BY <1>17 DEF setupTUNNFTFirewall
    <2> QED
      BY <1>17, <2>1, <2>2, <2>3 DEF setupTUNNFTFirewall
  <1>18. ASSUME NEW ok \in BOOLEAN, setupLegacyTUNIPTables(ok)
       PROVE TypeOK'
    <2>1. policy' \subseteq Policy /\ todo' \subseteq PolicyRules
      BY <1>18 DEF setupLegacyTUNIPTables, LegacyStep
    <2>2. legacy' \subseteq LegacyParts /\ marks' \subseteq Nat
      BY <1>18 DEF setupLegacyTUNIPTables, LegacyStep
    <2>3. /\ pc' \in PCs /\ call' \in {"none", "setup", "restore"}
          /\ then' \in {"validate", "fail", "done"}
          /\ result' \in {"none", "error", "setup_ok", "restore_ok"}
          /\ loaded' \in BOOLEAN /\ clean' \in BOOLEAN
      BY <1>18 DEF setupLegacyTUNIPTables, LegacyStep
    <2> QED
      BY <1>18, <2>1, <2>2, <2>3 DEF setupLegacyTUNIPTables, LegacyStep
  <1>19. ASSUME NEW ok \in BOOLEAN, Activate(ok)
       PROVE TypeOK'
    <2>1. CASE ok
      BY <1>19, <2>1 DEF Activate
    <2>2. CASE ~ok
      BY <1>19, <2>2 DEF Activate
    <2> QED
      BY <2>1, <2>2
  <1>20. ASSUME NEW ok \in BOOLEAN, cleanupTUNRoutingLocked(ok)
       PROVE TypeOK'
    BY <1>20 DEF cleanupTUNRoutingLocked
  <1>21. ASSUME SetupTUNRouting
       PROVE TypeOK'
    BY <1>21 DEF SetupTUNRouting
  <1>22. ASSUME RestoreTUNRouting
       PROVE TypeOK'
    BY <1>22 DEF RestoreTUNRouting
  <1>23. ASSUME Crash
       PROVE TypeOK'
    BY <1>23 DEF Crash
  <1>24. ASSUME Reboot
       PROVE TypeOK'
    BY <1>24 DEF Reboot
  <1>25. ASSUME SwitchBackend
       PROVE TypeOK'
    BY <1>25 DEF SwitchBackend
  <1>26. ASSUME ForeignTable
       PROVE TypeOK'
    BY <1>26 DEF ForeignTable
  <1>27. ASSUME CalmDown
       PROVE TypeOK'
    BY <1>27 DEF CalmDown
  <1>28. ASSUME UNCHANGED vars
       PROVE TypeOK'
    BY <1>28 DEF vars
  <1>29. Outcomes \subseteq BOOLEAN
    BY DEF Outcomes
  <1> HIDE DEF TypeOK, StateFile, Backends, PCs, LegacyParts, Policy, Owns,
         kernel, disk, ctl, env, Finish, Goto, CleanupGoto, StartCleanup, rollbackTUNSetup
  <1> QED
    BY <1>1, <1>2, <1>3, <1>4, <1>5, <1>6, <1>7, <1>8, <1>9, <1>10, <1>11, <1>12, <1>13, <1>14,
       <1>15, <1>16, <1>17, <1>18, <1>19, <1>20, <1>21, <1>22, <1>23, <1>24, <1>25, <1>26, <1>27, <1>28, <1>29
       DEF Next, Step, Environment, Cleanup, Setup

\* Every step preserves the rest of the inductive invariant.
LEMMA NextSafe == TypeOK /\ Safe /\ [Next]_vars => Safe'
  <1> SUFFICES ASSUME TypeOK /\ Safe, [Next]_vars PROVE Safe'
    OBVIOUS
  <1> USE TunConstantsOK DEF Safe, TypeOK, StateFile, Backends, LegacyParts, Policy, Owns, FirewallComplete, Adding,
         Control, ClaimedByFile, Reclaimable, SameTools, CleanupProgress, ToolsOfStep,
         SetupProgress, SetupOkMeansComplete, RestoreOkMeansClean, NoFile,
         kernel, disk, ctl, env, Finish, Goto, CleanupGoto, StartCleanup, rollbackTUNSetup
  <1>1. ASSUME NEW ok \in BOOLEAN, LoadState(ok)
       PROVE Safe'
    <2>1. CASE ok
      BY <1>1, <2>1 DEF LoadState
    <2>2. CASE ~ok
      BY <1>1, <2>2 DEF LoadState
    <2> QED
      BY <2>1, <2>2
  <1>2. ASSUME NEW ok \in BOOLEAN, NEW r \in PolicyRules, DeleteRule(r, ok)
       PROVE Safe'
    <2>1. CASE ok
      BY <1>2, <2>1 DEF DeleteRule
    <2>2. CASE ~ok
      BY <1>2, <2>2 DEF DeleteRule
    <2> QED
      BY <2>1, <2>2
  <1>3. ASSUME NEW ok \in BOOLEAN, DeleteRoute(ok)
       PROVE Safe'
    <2>1. CASE ok
      BY <1>3, <2>1 DEF DeleteRoute
    <2>2. CASE ~ok
      BY <1>3, <2>2 DEF DeleteRoute
    <2> QED
      BY <2>1, <2>2
  <1>4. ASSUME NEW ok \in BOOLEAN, NoPolicyCommands
       PROVE Safe'
    BY <1>4 DEF NoPolicyCommands
  <1>5. ASSUME NEW ok \in BOOLEAN, cleanupTUNNFTFirewall(ok)
       PROVE Safe'
    BY <1>5 DEF cleanupTUNNFTFirewall, isOwnedCurrentNFTTable, MarkerMatches
  <1>6. ASSUME NEW ok \in BOOLEAN, SkipForeignTable
       PROVE Safe'
    BY <1>6 DEF SkipForeignTable, isOwnedCurrentNFTTable
  <1>7. ASSUME NEW ok \in BOOLEAN, cleanupLegacyTUNArtifactsWithNFT(ok)
       PROVE Safe'
    BY <1>7 DEF cleanupLegacyTUNArtifactsWithNFT
  <1>8. ASSUME NEW ok \in BOOLEAN, DeleteJumps(ok)
       PROVE Safe'
    BY <1>8 DEF DeleteJumps
  <1>9. ASSUME NEW ok \in BOOLEAN, NEW flushed \in BOOLEAN, DeleteChains(flushed, ok)
       PROVE Safe'
    BY <1>9 DEF DeleteChains
  <1>10. ASSUME NEW ok \in BOOLEAN, Forget(ok)
       PROVE Safe'
    BY <1>10 DEF Forget, AfterCleanup, NoFile
  <1>11. ASSUME NEW ok \in BOOLEAN, Preflight(ok)
       PROVE Safe'
    BY <1>11 DEF Preflight
  <1>12. ASSUME NEW ok \in BOOLEAN, validateTUNRouteSlotsAreFree(ok)
       PROVE Safe'
    BY <1>12 DEF validateTUNRouteSlotsAreFree
  <1>13. ASSUME NEW ok \in BOOLEAN, SavePreparing(ok)
       PROVE Safe'
    <2>1. CASE ok
      <3>1. /\ file' = [phase |-> "preparing", backend |-> avail, inst |-> insts + 1]
            /\ pc = "prepare" /\ pc' = "add_route"
            /\ UNCHANGED <<call, todo, loaded, clean, then, result, kernel, env>>
        BY <1>13, <2>1 DEF SavePreparing, newTUNRoutingState
      <3> QED
        BY <3>1
    <2>2. CASE ~ok
      BY <1>13, <2>2 DEF SavePreparing, newTUNRoutingState
    <2> QED
      BY <2>1, <2>2
  <1>14. ASSUME NEW ok \in BOOLEAN, ensureTUNDefaultRoute(ok)
       PROVE Safe'
    <2>1. CASE ok
      BY <1>14, <2>1 DEF ensureTUNDefaultRoute
    <2>2. CASE ~ok
      BY <1>14, <2>2 DEF ensureTUNDefaultRoute
    <2> QED
      BY <2>1, <2>2
  <1>15. ASSUME NEW ok \in BOOLEAN, NEW r \in PolicyRules, AddRule(r, ok)
       PROVE Safe'
    <2>1. CASE ok
      BY <1>15, <2>1 DEF AddRule
    <2>2. CASE ~ok
      BY <1>15, <2>2 DEF AddRule
    <2> QED
      BY <2>1, <2>2
  <1>16. ASSUME NEW ok \in BOOLEAN, RulesAdded
       PROVE Safe'
    BY <1>16 DEF RulesAdded
  <1>17. ASSUME NEW ok \in BOOLEAN, setupTUNNFTFirewall(ok)
       PROVE Safe'
    <2>1. CASE ok
      BY <1>17, <2>1 DEF setupTUNNFTFirewall
    <2>2. CASE ~ok
      BY <1>17, <2>2 DEF setupTUNNFTFirewall
    <2> QED
      BY <2>1, <2>2
  <1>18. ASSUME NEW ok \in BOOLEAN, setupLegacyTUNIPTables(ok)
       PROVE Safe'
    <2>1. CASE ok
      <3>1. CASE pc = "add_firewall"
        BY <1>18, <2>1, <3>1 DEF setupLegacyTUNIPTables, LegacyStep
      <3>2. CASE pc = "add_jumps"
        BY <1>18, <2>1, <3>2 DEF setupLegacyTUNIPTables, LegacyStep
      <3>3. CASE pc = "add_chain_rules"
        <4>1. legacy' = legacy \cup {"chain_rules"} /\ pc' = "verify"
          BY <1>18, <2>1, <3>3 DEF setupLegacyTUNIPTables, LegacyStep
        <4>2. {"chains", "jumps"} \subseteq legacy /\ legacy \subseteq LegacyParts
          BY <3>3
        <4>3. legacy' = LegacyParts
          BY <4>1, <4>2
        <4> QED
          BY <1>18, <2>1, <3>3, <4>3 DEF setupLegacyTUNIPTables, LegacyStep
      <3> QED
        BY <1>18, <3>1, <3>2, <3>3 DEF setupLegacyTUNIPTables, LegacyStep
    <2>2. CASE ~ok
      BY <1>18, <2>2 DEF setupLegacyTUNIPTables, LegacyStep
    <2> QED
      BY <2>1, <2>2
  <1>19. ASSUME NEW ok \in BOOLEAN, Activate(ok)
       PROVE Safe'
    <2>1. CASE ok
      BY <1>19, <2>1 DEF Activate
    <2>2. CASE ~ok
      BY <1>19, <2>2 DEF Activate
    <2> QED
      BY <2>1, <2>2
  <1>20. ASSUME NEW ok \in BOOLEAN, cleanupTUNRoutingLocked(ok)
       PROVE Safe'
    BY <1>20 DEF cleanupTUNRoutingLocked
  <1>21. ASSUME SetupTUNRouting
       PROVE Safe'
    BY <1>21 DEF SetupTUNRouting
  <1>22. ASSUME RestoreTUNRouting
       PROVE Safe'
    BY <1>22 DEF RestoreTUNRouting
  <1>23. ASSUME Crash
       PROVE Safe'
    BY <1>23 DEF Crash
  <1>24. ASSUME Reboot
       PROVE Safe'
    BY <1>24 DEF Reboot
  <1>25. ASSUME SwitchBackend
       PROVE Safe'
    BY <1>25 DEF SwitchBackend
  <1>26. ASSUME ForeignTable
       PROVE Safe'
    BY <1>26 DEF ForeignTable
  <1>27. ASSUME CalmDown
       PROVE Safe'
    BY <1>27 DEF CalmDown
  <1>28. ASSUME UNCHANGED vars
       PROVE Safe'
    BY <1>28 DEF vars
  <1>29. Outcomes \subseteq BOOLEAN
    BY DEF Outcomes
  <1> HIDE DEF Safe, TypeOK, StateFile, Backends, LegacyParts, Policy, Owns, FirewallComplete, Adding,
         Control, ClaimedByFile, Reclaimable, SameTools, CleanupProgress, ToolsOfStep,
         SetupProgress, SetupOkMeansComplete, RestoreOkMeansClean, NoFile,
         kernel, disk, ctl, env, Finish, Goto, CleanupGoto, StartCleanup, rollbackTUNSetup
  <1> QED
    BY <1>1, <1>2, <1>3, <1>4, <1>5, <1>6, <1>7, <1>8, <1>9, <1>10, <1>11, <1>12, <1>13, <1>14,
       <1>15, <1>16, <1>17, <1>18, <1>19, <1>20, <1>21, <1>22, <1>23, <1>24, <1>25, <1>26, <1>27, <1>28, <1>29
       DEF Next, Step, Environment, Cleanup, Setup

-----------------------------------------------------------------------------
\* IInv is inductive.
LEMMA Inductive == Spec => []IInv
  <1>1. Init => IInv
    BY InitIInv
  <1>2. IInv /\ [Next]_vars => IInv'
    BY NextTypeOK, NextSafe DEF IInv
  <1> QED
    BY <1>1, <1>2, PTL DEF Spec

\* Every variable keeps its type, for any set of rules and any bound.
THEOREM TypeCorrect == Spec => []TypeOK
  <1>1. IInv => TypeOK
    BY DEF IInv
  <1> QED
    BY <1>1, Inductive, PTL

\* No object of the program is in the kernel without the state file by which a
\* later call finds it, whichever commands fail and wherever a process dies.
THEOREM ClaimedByFileHolds == Spec => []ClaimedByFile
  <1>1. IInv => ClaimedByFile
    BY DEF IInv, Safe
  <1> QED
    BY <1>1, Inductive, PTL

\* The recorded identifier is the one in the nft table, so the ownership check
\* never refuses the program its own table.
THEOREM ReclaimableHolds == Spec => []Reclaimable
  <1>1. IInv => Reclaimable
    BY DEF IInv, Safe
  <1> QED
    BY <1>1, Inductive, PTL

\* A setup that reports success has installed every object: the promise the
\* core relies on before it enters TUN mode.
THEOREM SetupOkMeansCompleteHolds == Spec => []SetupOkMeansComplete
  <1>1. IInv => SetupOkMeansComplete
    BY DEF IInv, Safe
  <1> QED
    BY <1>1, Inductive, PTL

\* A restore that reports success has removed every object and the file.
THEOREM RestoreOkMeansCleanHolds == Spec => []RestoreOkMeansClean
  <1>1. IInv => RestoreOkMeansClean
    BY DEF IInv, Safe
  <1> QED
    BY <1>1, Inductive, PTL

=============================================================================
