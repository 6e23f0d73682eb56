----------------------------- MODULE TunRouting -----------------------------
(***************************************************************************)
(* The TUN return-path installer (mihomotui/tun_routing_linux.go).         *)
(*                                                                         *)
(* SetupTUNRouting adds one default route, policy rules and firewall       *)
(* objects to the kernel; RestoreTUNRouting takes them away again.  What   *)
(* belongs to the program is recorded in a state file: written before the  *)
(* first object is added, removed after the last one is gone.  Each        *)
(* command may fail and the process may die between any two of them; a     *)
(* reboot clears the kernel but not the file.  An exclusive file lock      *)
(* makes calls mutually exclusive across processes and dies with its       *)
(* holder, so one call is in flight at a time.                             *)
(*                                                                         *)
(* The firewall is nftables, one table created by one atomic script and    *)
(* carrying the identifier of its installation in a comment, or, where nft *)
(* is missing, chains of legacy iptables built command by command.         *)
(***************************************************************************)
EXTENDS Naturals

CONSTANTS
  PolicyRules,  \* the ip rules of tunPolicyRuleCommands
  MaxInst       \* bound: no setup starts after this many installations

ASSUME TunConstantsOK ==
  /\ "route" \notin PolicyRules
  /\ MaxInst \in Nat

Policy      == {"route"} \cup PolicyRules
LegacyParts == {"chains", "jumps", "chain_rules"}
Backends    == {"nft", "iptables-legacy"}

\* tunRoutingState.  inst 0 is a file written before InstanceID existed.
StateFile == [phase : {"none", "preparing", "active"},
              backend : Backends \cup {"none"}, inst : Nat]
NoFile    == [phase |-> "none", backend |-> "none", inst |-> 0]

VARIABLES
  policy,     \* the route and rules of the program in the kernel
  legacy,     \* its legacy iptables objects
  marks,      \* the installations whose rules are in the nft table
  foreign,    \* somebody else's rules are in a table of the same name
  oldChains,  \* chains an old version left in nftables (iptables-nft)
  file,       \* tun-routing-state.json
  insts,      \* identifiers given out
  avail,      \* what detectTUNFirewallBackend finds
  call,       \* the call holding the lock
  pc,         \* its next step
  todo,       \* the rule commands it has still to issue
  loaded,     \* its cleanup could read the state file
  clean,      \* its cleanup has met no error so far
  then,       \* what follows its cleanup
  result,     \* how the last call ended, if nothing has happened since
  switched,   \* history: the firewall tools changed under an installation
  calm        \* history: no more faults, and only restores from now on

kernel == <<policy, legacy, marks, foreign, oldChains>>
disk   == <<file, insts>>
ctl    == <<call, pc, todo, loaded, clean, then, result>>
env    == <<avail, switched, calm>>
vars   == <<kernel, disk, ctl, env>>

PCs == {"idle", "preflight", "restore", "load", "del_rules", "del_firewall",
        "del_old_chains", "del_chains", "forget", "validate",
        "prepare", "add_route", "add_rules", "add_firewall", "add_jumps",
        "add_chain_rules", "verify"}

TypeOK ==
  /\ policy \subseteq Policy
  /\ legacy \subseteq LegacyParts
  /\ marks \subseteq Nat
  /\ foreign \in BOOLEAN /\ oldChains \in BOOLEAN
  /\ file \in StateFile
  /\ insts \in Nat
  /\ avail \in Backends \cup {"none"}
  /\ call \in {"none", "setup", "restore"}
  /\ pc \in PCs
  /\ todo \subseteq PolicyRules
  /\ loaded \in BOOLEAN /\ clean \in BOOLEAN
  /\ then \in {"validate", "fail", "done"}
  /\ result \in {"none", "error", "setup_ok", "restore_ok"}
  /\ switched \in BOOLEAN /\ calm \in BOOLEAN

\* A system without an installation, possibly with what old versions left: an
\* nft table without identifier, or chains made through iptables-nft.
Init ==
  /\ \/ policy = {} /\ marks = {} /\ file = NoFile
     \/ policy = Policy /\ marks = {0}
        /\ file = [phase |-> "active", backend |-> "nft", inst |-> 0]
  /\ avail \in Backends \cup {"none"}
  /\ oldChains \in BOOLEAN
  /\ oldChains \/ file.phase # "none" => avail = "nft"
  /\ legacy = {} /\ foreign = FALSE
  /\ insts = 0
  /\ call = "none" /\ pc = "idle" /\ todo = {}
  /\ loaded = FALSE /\ clean = FALSE /\ then = "done"
  /\ result = "none"
  /\ switched = FALSE /\ calm = FALSE

Outcomes == IF calm THEN {TRUE} ELSE BOOLEAN

Owns == file.phase # "none"

-----------------------------------------------------------------------------
(* Moving between steps *)

Finish(res) ==
  /\ call' = "none" /\ pc' = "idle" /\ todo' = {} /\ result' = res
  /\ UNCHANGED <<loaded, clean, then>>

Goto(p) ==
  /\ pc' = p
  /\ UNCHANGED <<call, todo, loaded, clean, then, result>>

\* Mutant: only the last command's error counts.
CleanupGotoForgetsErrors(p, ok) ==
  /\ pc' = p
  /\ clean' = ok
  /\ UNCHANGED <<call, todo, loaded, then, result>>

\* A cleanup step that went well, or not: the cleanup goes on either way.
CleanupGoto(p, ok) ==
  /\ pc' = p
  /\ clean' = (clean /\ ok)
  /\ UNCHANGED <<call, todo, loaded, then, result>>

\* cleanupTUNRoutingWithBackend(avail), followed by t.
StartCleanup(t) ==
  /\ pc' = "load" /\ then' = t
  /\ UNCHANGED <<call, todo, loaded, clean, result>>

\* rollbackTUNSetup: the call fails, whatever its cleanup achieves.
rollbackTUNSetup == StartCleanup("fail")

-----------------------------------------------------------------------------
(* Cleaning up: every command is tried, whatever happened to the one before *)

LoadState(ok) ==
  /\ pc = "load"
  /\ loaded' = ok /\ clean' = ok
  /\ todo' = IF ok /\ Owns THEN PolicyRules ELSE {}
  /\ pc' = "del_rules"
  /\ UNCHANGED <<call, then, result, kernel, disk, env>>

DeleteRule(r, ok) ==
  /\ pc = "del_rules" /\ r \in todo
  /\ todo' = todo \ {r}
  /\ policy' = IF ok THEN policy \ {r} ELSE policy
  /\ clean' = (clean /\ ok)
  /\ UNCHANGED <<call, pc, loaded, then, result, legacy, marks, foreign,
                 oldChains, disk, env>>

\* The route comes last.  Without a file there is nothing to delete.
DeleteRoute(ok) ==
  /\ pc = "del_rules" /\ todo = {}
  /\ loaded /\ Owns
  /\ policy' = IF ok THEN policy \ {"route"} ELSE policy
  /\ CleanupGoto("del_firewall", ok)
  /\ UNCHANGED <<legacy, marks, foreign, oldChains, disk, env>>

NoPolicyCommands ==
  /\ pc = "del_rules" /\ todo = {}
  /\ ~(loaded /\ Owns)
  /\ Goto("del_firewall")
  /\ UNCHANGED <<kernel, disk, env>>

\* isOwnedCurrentNFTTable.
isOwnedCurrentNFTTable == loaded /\ Owns /\ file.backend = "nft"

\* Mutant: a table that is not there fails the ownership check.
MarkerMustBePresent == file.inst = 0 \/ file.inst \in marks

\* A table without the identifier of the recorded installation is not deleted,
\* unless the file is of a version that had no identifiers.
MarkerMatches ==
  \/ file.inst = 0
  \/ file.inst \in marks
  \/ marks = {} /\ ~foreign

cleanupTUNNFTFirewall(ok) ==
  /\ pc = "del_firewall" /\ avail = "nft"
  /\ isOwnedCurrentNFTTable
  /\ IF ok /\ MarkerMatches
       THEN marks' = {} /\ foreign' = FALSE
       ELSE UNCHANGED <<marks, foreign>>
  /\ CleanupGoto("del_old_chains", ok /\ MarkerMatches)
  /\ UNCHANGED <<policy, legacy, oldChains, disk, env>>

SkipForeignTable ==
  /\ pc = "del_firewall" /\ avail = "nft"
  /\ ~isOwnedCurrentNFTTable
  /\ Goto("del_old_chains")
  /\ UNCHANGED <<kernel, disk, env>>

\* cleanupLegacyTUNArtifactsWithNFT: it looks again after deleting.
cleanupLegacyTUNArtifactsWithNFT(ok) ==
  /\ pc = "del_old_chains"
  /\ oldChains' = (oldChains /\ ~ok)
  /\ CleanupGoto("forget", ok)
  /\ UNCHANGED <<policy, legacy, marks, foreign, disk, env>>

\* cleanupLegacyTUNIPTables: the jumps, then the chains.
DeleteJumps(ok) ==
  /\ pc = "del_firewall" /\ avail = "iptables-legacy"
  /\ legacy' = IF ok THEN legacy \ {"jumps"} ELSE legacy
  /\ CleanupGoto("del_chains", ok)
  /\ UNCHANGED <<policy, marks, foreign, oldChains, disk, env>>

\* Flush, then delete; a chain something still jumps to cannot be deleted.
DeleteChains(flushed, ok) ==
  /\ pc = "del_chains"
  /\ LET deleted == flushed /\ ok /\ "jumps" \notin legacy
     IN  /\ legacy' = legacy \ ((IF flushed THEN {"chain_rules"} ELSE {})
                               \cup (IF deleted THEN {"chains"} ELSE {}))
         /\ CleanupGoto("forget", deleted)
  /\ UNCHANGED <<policy, marks, foreign, oldChains, disk, env>>

\* Mutant: a setup goes on over a failed cleanup.
AfterCleanupIgnored(success) ==
  CASE then = "validate"         -> Goto("validate")
    [] then = "done" /\ success -> Finish("restore_ok")
    [] OTHER                    -> Finish("error")

\* The file goes only after a cleanup without any error.
AfterCleanup(success) ==
  CASE then = "validate" /\ success -> Goto("validate")
    [] then = "done" /\ success     -> Finish("restore_ok")
    [] OTHER                        -> Finish("error")

\* Mutant: the file goes although a command failed.
ForgetAlways(ok) ==
  /\ pc = "forget"
  /\ file' = IF ok THEN NoFile ELSE file
  /\ AfterCleanup(loaded /\ clean /\ ok)
  /\ UNCHANGED <<kernel, insts, env>>

Forget(ok) ==
  /\ pc = "forget"
  /\ LET success == loaded /\ clean /\ ok
     IN  /\ file' = IF success THEN NoFile ELSE file
         /\ AfterCleanup(success)
  /\ UNCHANGED <<kernel, insts, env>>

-----------------------------------------------------------------------------
(* RestoreTUNRouting *)

RestoreTUNRouting ==
  /\ call = "none"
  /\ call' = "restore" /\ pc' = "restore" /\ result' = "none"
  /\ UNCHANGED <<todo, loaded, clean, then, kernel, disk, env>>

\* cleanupTUNRoutingLocked: what nft created is not given up without nft.
cleanupTUNRoutingLocked(ok) ==
  /\ pc = "restore"
  /\ IF ok /\ avail # "none" /\ (file.backend = "nft" => avail = "nft")
       THEN StartCleanup("done")
       ELSE Finish("error")
  /\ UNCHANGED <<kernel, disk, env>>

-----------------------------------------------------------------------------
(* SetupTUNRouting *)

SetupTUNRouting ==
  /\ call = "none" /\ ~calm /\ insts < MaxInst
  /\ call' = "setup" /\ pc' = "preflight" /\ result' = "none"
  /\ UNCHANGED <<todo, loaded, clean, then, kernel, disk, env>>

\* Refused when not root, without a default route, or when a TUN interface is
\* active; a refused setup has changed nothing.
Preflight(ok) ==
  /\ pc = "preflight"
  /\ IF ok /\ avail # "none"
       THEN StartCleanup("validate")
       ELSE Finish("error")
  /\ UNCHANGED <<kernel, disk, env>>

\* Rules of the program itself occupy the slots as much as foreign ones.
validateTUNRouteSlotsAreFree(ok) ==
  /\ pc = "validate"
  /\ IF ok /\ policy = {} THEN Goto("prepare") ELSE Finish("error")
  /\ UNCHANGED <<kernel, disk, env>>

newTUNRoutingState ==
  [phase |-> "preparing", backend |-> avail, inst |-> insts + 1]

\* The only failure that is not rolled back: nothing has been added yet.
SavePreparing(ok) ==
  /\ pc = "prepare"
  /\ insts' = insts + 1
  /\ IF ok
       THEN file' = newTUNRoutingState /\ Goto("add_route")
       ELSE file' = file /\ Finish("error")
  /\ UNCHANGED <<kernel, env>>

ensureTUNDefaultRoute(ok) ==
  /\ pc = "add_route"
  /\ IF ok
       THEN /\ policy' = policy \cup {"route"}
            /\ pc' = "add_rules" /\ todo' = PolicyRules
            /\ UNCHANGED <<call, loaded, clean, then, result>>
       ELSE policy' = policy /\ rollbackTUNSetup
  /\ UNCHANGED <<legacy, marks, foreign, oldChains, disk, env>>

AddRule(r, ok) ==
  /\ pc = "add_rules" /\ r \in todo
  /\ IF ok
       THEN /\ policy' = policy \cup {r}
            /\ todo' = todo \ {r}
            /\ UNCHANGED <<call, pc, loaded, clean, then, result>>
       ELSE policy' = policy /\ rollbackTUNSetup
  /\ UNCHANGED <<legacy, marks, foreign, oldChains, disk, env>>

\* Mutant: the firewall is set up before the last rule.
RulesAddedEarly ==
  /\ pc = "add_rules"
  /\ pc' = "add_firewall" /\ todo' = {}
  /\ UNCHANGED <<call, loaded, clean, then, result>>
  /\ UNCHANGED <<kernel, disk, env>>

RulesAdded ==
  /\ pc = "add_rules" /\ todo = {}
  /\ Goto("add_firewall")
  /\ UNCHANGED <<kernel, disk, env>>

\* nft adds to a table that is there already.
setupTUNNFTFirewall(ok) ==
  /\ pc = "add_firewall" /\ avail = "nft"
  /\ IF ok
       THEN marks' = marks \cup {file.inst} /\ Goto("verify")
       ELSE marks' = marks /\ rollbackTUNSetup
  /\ UNCHANGED <<policy, legacy, foreign, oldChains, disk, env>>

\* setupLegacyTUNIPTables: chains, jumps to them, rules in them; several
\* commands each, the first of which may have worked when one fails.
LegacyStep(from, part, to, ok) ==
  /\ pc = from
  /\ IF ok
       THEN legacy' = legacy \cup {part} /\ Goto(to)
       ELSE legacy' \in {legacy, legacy \cup {part}} /\ rollbackTUNSetup
  /\ UNCHANGED <<policy, marks, foreign, oldChains, disk, env>>

setupLegacyTUNIPTables(ok) ==
  \/ avail = "iptables-legacy" /\ LegacyStep("add_firewall", "chains", "add_jumps", ok)
  \/ LegacyStep("add_jumps", "jumps", "add_chain_rules", ok)
  \/ LegacyStep("add_chain_rules", "chain_rules", "verify", ok)

\* verifyTUNRouting, and the state file of a complete installation.
Activate(ok) ==
  /\ pc = "verify"
  /\ IF ok
       THEN file' = [file EXCEPT !.phase = "active"] /\ Finish("setup_ok")
       ELSE file' = file /\ rollbackTUNSetup
  /\ UNCHANGED <<kernel, insts, env>>

-----------------------------------------------------------------------------
(* The environment *)

Crash ==
  /\ call # "none" /\ ~calm
  /\ Finish("none")
  /\ UNCHANGED <<kernel, disk, env>>

Reboot ==
  /\ ~calm
  /\ policy' = {} /\ legacy' = {} /\ marks' = {} /\ foreign' = FALSE
  /\ oldChains' = FALSE
  /\ Finish("none")
  /\ UNCHANGED <<disk, env>>

\* nft or iptables is installed or removed while no call runs.
SwitchBackend ==
  /\ call = "none" /\ ~calm
  /\ avail' \in (Backends \cup {"none"}) \ {avail}
  /\ switched' = (switched \/ Owns \/ oldChains)
  /\ UNCHANGED <<kernel, disk, ctl, calm>>

ForeignTable ==
  /\ call = "none" /\ ~calm /\ ~foreign
  /\ foreign' = TRUE
  /\ UNCHANGED <<policy, legacy, marks, oldChains, disk, ctl, env>>

CalmDown ==
  /\ ~calm /\ calm' = TRUE
  /\ UNCHANGED <<kernel, disk, ctl, avail, switched>>

-----------------------------------------------------------------------------
Cleanup(ok) ==
  \/ LoadState(ok)
  \/ \E r \in PolicyRules : DeleteRule(r, ok)
  \/ DeleteRoute(ok) \/ NoPolicyCommands
  \/ cleanupTUNNFTFirewall(ok) \/ SkipForeignTable
  \/ cleanupLegacyTUNArtifactsWithNFT(ok)
  \/ DeleteJumps(ok)
  \/ \E flushed \in Outcomes : DeleteChains(flushed, ok)
  \/ Forget(ok)

Setup(ok) ==
  \/ Preflight(ok) \/ validateTUNRouteSlotsAreFree(ok) \/ SavePreparing(ok)
  \/ ensureTUNDefaultRoute(ok)
  \/ \E r \in PolicyRules : AddRule(r, ok)
  \/ RulesAdded
  \/ setupTUNNFTFirewall(ok) \/ setupLegacyTUNIPTables(ok)
  \/ Activate(ok)

Step == \E ok \in Outcomes : Cleanup(ok) \/ Setup(ok) \/ cleanupTUNRoutingLocked(ok)

Environment == Crash \/ Reboot \/ SwitchBackend \/ ForeignTable \/ CalmDown

Next == SetupTUNRouting \/ RestoreTUNRouting \/ Step \/ Environment

\* A call that has begun runs on unless its process dies.
Spec == Init /\ [][Next]_vars /\ WF_vars(Step)

-----------------------------------------------------------------------------
(* Properties *)

\* Nothing of the program is ever in the kernel without the state file that
\* lets a later call find it: whatever command fails and wherever the process
\* dies.  For the firewall, as long as the tools that built it stay.
\* ("preparing must be persisted first", setupTUNRoutingLocked; the file is
\* removed last, cleanupTUNRoutingWithBackend.)
ClaimedByFile ==
  ~Owns => /\ policy = {}
           /\ ~switched => legacy = {} /\ marks = {}

\* The file does not only exist, it names what is there: its identifier is the
\* one in the nft table, so that the ownership check of cleanupTUNNFTFirewall
\* never refuses to remove the program's own table.
Reclaimable ==
  ~switched =>
    /\ marks # {} => file.backend = "nft" /\ file.inst \in marks
    /\ legacy # {} => file.backend = "iptables-legacy"

\* A setup that reported success has left every object it is made of, and the
\* file says so: the core may enter TUN mode (SetupTUNRouting's contract).
SetupOkMeansComplete ==
  result = "setup_ok" =>
    /\ policy = Policy
    /\ IF file.backend = "nft" THEN file.inst \in marks ELSE legacy = LegacyParts
    /\ file.phase = "active"

\* A restore that reported success has left nothing of the program behind.
RestoreOkMeansClean ==
  result = "restore_ok" =>
    /\ policy = {} /\ file = NoFile
    /\ ~switched => legacy = {} /\ marks = {} /\ ~oldChains

\* No sequence of failures, crashes and reboots wedges the installer: once the
\* commands work again, repeated restores remove everything.  Excepted are the
\* changes the code declines to handle: other firewall tools, a foreign table.
RestoreEventuallyCleans ==
  []<><<RestoreTUNRouting>>_vars =>
    (calm ~> (policy = {} /\ legacy = {} /\ marks = {} /\ ~oldChains /\ ~Owns)
             \/ switched \/ foreign \/ avail = "none")

=============================================================================
