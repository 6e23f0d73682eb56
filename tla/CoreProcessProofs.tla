-------------------------- MODULE CoreProcessProofs --------------------------
(***************************************************************************)
(* No process is lost and the rules follow the processes, for any number   *)
(* of goroutines that start, stop and restart the core.                    *)
(***************************************************************************)
EXTENDS CoreProcess, TLAPS

\* A Start holds the mutex from its check to the spawn, and while it does so nothing runs.
StartHoldsMutex ==
  /\ \A c \in Callers : pc[c] \in {"setup", "spawn"} <=> mu = c
  /\ mu # "none" => ~running /\ cur < MaxGen
  /\ \A c \in Callers : pc[c] = "setup" => tun[c]

\* A goroutine waits for its process until it has reaped it, and until it has cleared
\* `running' its process is the current one.
WaiterKeepsProcess ==
  \A g \in Gens :
    /\ g > cur => waiter[g] = "none"
    /\ proc[g] \in {"alive", "killed", "zombie"} <=> waiter[g] = "wait"
    /\ waiter[g] \in {"wait", "clear"} => running /\ cur = g

\* Somebody relies on the rules: a TUN core that lives or is about to be spawned.
RulesNeeded ==
  \/ \E g \in Gens : Alive(g) /\ tunOf[g]
  \/ \E c \in Callers : pc[c] = "spawn" /\ tun[c]

NeededRulesStay == ~overlap /\ RulesNeeded => rules /\ ~RemovalPending

\* Somebody is going to remove the rules.
RulesOwned ==
  \/ \E g \in Gens : tunOf[g] /\ waiter[g] \in {"wait", "clear", "restore"}
  \/ \E c \in Callers : pc[c] \in {"spawn", "undo"} /\ tun[c]

RulesAreOwned == rules /\ ~leaked => RulesOwned

IInv ==
  TypeOK /\ StartHoldsMutex /\ WaiterKeepsProcess /\ NeededRulesStay /\ RulesAreOwned

-----------------------------------------------------------------------------
(* Types *)

LEMMA InitType == Init => TypeOK
  <1>1. 0 \in 0 .. MaxGen /\ "idle" \in PCs
    BY CoreConstantsOK DEF PCs
  <1>2. Init => /\ proc \in [Gens -> {"none", "alive", "killed", "zombie", "reaped"}]
                /\ waiter \in [Gens -> {"none", "wait", "clear", "restore", "notify", "done"}]
                /\ pc \in [Callers -> PCs] /\ target \in [Callers -> 0 .. MaxGen]
    BY <1>1 DEF Init
  <1>3. Init => /\ tunOf \in [Gens -> BOOLEAN] /\ exited \in [Gens -> BOOLEAN]
                /\ restart \in [Callers -> BOOLEAN] /\ tun \in [Callers -> BOOLEAN]
    BY DEF Init
  <1> QED
    BY <1>1, <1>2, <1>3 DEF Init, TypeOK

LEMMA StepType == TypeOK /\ StartHoldsMutex /\ [Next]_vars => TypeOK'
  <1> SUFFICES ASSUME TypeOK, StartHoldsMutex, [Next]_vars PROVE TypeOK'
    OBVIOUS
  <1> USE DEF TypeOK, shared, hist, Goto, Return
  <1>0. /\ 0 \in 0 .. MaxGen
        /\ \A p \in {"idle", "start", "setup", "spawn", "undo", "settle", "stop", "term",
                     "wait_term", "kill", "wait_kill"} : p \in PCs
    BY CoreConstantsOK DEF PCs
  <1>1. ASSUME NEW c \in Callers, Call(c) PROVE TypeOK'
    BY <1>0, <1>1 DEF Call, CallStart, CallStop
  <1>2. ASSUME NEW c \in Callers, StartRefused(c) \/ SettleTimer(c) PROVE TypeOK'
    <2>1. Return(c) /\ UNCHANGED <<shared, hist>>
      BY <1>2 DEF StartRefused, SettleTimer
    <2> QED
      BY <1>0, <2>1
  <1>3. ASSUME NEW c \in Callers, NEW t \in BOOLEAN, StartChecked(c, t) PROVE TypeOK'
    BY <1>0, <1>3 DEF StartChecked
  <1>4. ASSUME NEW c \in Callers, StopChecked(c) \/ KillTimeout(c) PROVE TypeOK'
    BY <1>0, <1>4 DEF StopChecked, KillTimeout, AfterStop
  <1>5. ASSUME NEW c \in Callers, SetupOk(c) PROVE TypeOK'
    BY <1>0, <1>5 DEF SetupOk
  <1>6. ASSUME NEW c \in Callers, SetupFails(c) PROVE TypeOK'
    BY <1>0, <1>6 DEF SetupFails
  <1>7. ASSUME NEW c \in Callers, SpawnFails(c) PROVE TypeOK'
    BY <1>0, <1>7 DEF SpawnFails
  <1>8. ASSUME NEW c \in Callers, Spawn(c) PROVE TypeOK'
    <2>1. cur + 1 \in Gens /\ cur + 1 \in 0 .. MaxGen
      BY <1>8, CoreConstantsOK DEF Spawn, StartHoldsMutex, Gens
    <2> QED
      BY <1>0, <1>8, <2>1 DEF Spawn
  <1>9. ASSUME NEW c \in Callers, NEW ok \in BOOLEAN, UndoSetup(c, ok) PROVE TypeOK'
    BY <1>0, <1>9 DEF UndoSetup, RestoreTUNRouting
  <1>10. ASSUME NEW c \in Callers, SettleExit(c) \/ StopNotified(c) PROVE TypeOK'
    <2>1. exited' \in [Gens -> BOOLEAN]
      BY <1>10 DEF SettleExit, StopNotified, Receive
    <2>2. CASE SettleExit(c)
      BY <1>0, <2>1, <2>2 DEF SettleExit
    <2>3. CASE StopNotified(c)
      <3>1. /\ pc' \in [Callers -> PCs] /\ target' \in [Callers -> 0 .. MaxGen]
            /\ restart' \in [Callers -> BOOLEAN] /\ tun' \in [Callers -> BOOLEAN]
        BY <1>0, <2>3 DEF StopNotified, AfterStop
      <3> QED
        BY <2>1, <2>3, <3>1 DEF StopNotified
    <2> QED
      BY <1>10, <2>2, <2>3
  <1>11. ASSUME NEW c \in Callers, Term(c) \/ TermTimeout(c) PROVE TypeOK'
    BY <1>0, <1>11 DEF Term, TermTimeout
  <1>12. ASSUME NEW c \in Callers, Kill(c) PROVE TypeOK'
    <2>1. proc' \in [Gens -> {"none", "alive", "killed", "zombie", "reaped"}]
      BY <1>12 DEF Kill
    <2> QED
      BY <1>0, <1>12, <2>1 DEF Kill
  <1>13. ASSUME NEW g \in Gens, Exit(g) \/ Wait(g) \/ ClearRunning(g) PROVE TypeOK'
    <2>1. CASE Exit(g)
      BY <2>1 DEF Exit, local
    <2>5. CASE Reap(g)
      BY <2>5 DEF Reap, local
    <2>2. CASE \E ok \in BOOLEAN : CleanRules(g, ok)
      <3> PICK ok \in BOOLEAN : CleanRules(g, ok)
        BY <2>2
      <3>1. rules' \in BOOLEAN /\ leaked' \in BOOLEAN
        BY DEF CleanRules, RestoreTUNRouting
      <3>2. waiter' \in [Gens -> {"none", "wait", "clear", "restore", "notify", "done"}]
        BY DEF CleanRules
      <3> QED
        BY <3>1, <3>2 DEF CleanRules, local
    <2>3. CASE Notify(g)
      BY <2>3 DEF Notify, local
    <2>4. CASE ClearRunning(g)
      BY <2>4 DEF ClearRunning, local
    <2> QED
      BY <1>13, <2>1, <2>2, <2>3, <2>4, <2>5 DEF Wait
  <1>14. CASE UNCHANGED vars
    BY <1>14 DEF vars, local
  <1> QED
    BY <1>1, <1>2, <1>3, <1>4, <1>5, <1>6, <1>7, <1>8, <1>9, <1>10, <1>11, <1>12, <1>13, <1>14
       DEF Next, Lock, Run

-----------------------------------------------------------------------------
(* The steps of a caller that holds no mutex and spawns nothing *)

\* They move the caller outside Start's protected part and touch neither the mutex
\* nor the processes' fields, but for the exit taken from a channel and SIGKILL.
LEMMA OutsideMutex ==
  ASSUME TypeOK, NEW c \in Callers,
         \/ Call(c) \/ StartRefused(c) \/ StopChecked(c) \/ SettleExit(c) \/ SettleTimer(c)
         \/ Term(c) \/ TermTimeout(c) \/ Kill(c) \/ StopNotified(c) \/ KillTimeout(c)
  PROVE  /\ UNCHANGED <<mu, running, cur, tunOf, waiter, rules, overlap, leaked>>
         /\ \A g \in Gens : proc'[g] = proc[g] \/ (proc[g] = "alive" /\ proc'[g] = "killed")
         /\ pc[c] \notin {"setup", "spawn", "undo"} /\ pc'[c] \notin {"setup", "spawn", "undo"}
         /\ \A d \in Callers : d # c => pc'[d] = pc[d] /\ tun'[d] = tun[d]
  <1> USE DEF TypeOK, shared, hist, Goto, Return
  <1>1. CASE Call(c)
    BY <1>1 DEF Call, CallStart, CallStop
  <1>2. CASE StartRefused(c) \/ SettleTimer(c) \/ Term(c) \/ TermTimeout(c)
    BY <1>2 DEF StartRefused, SettleTimer, Term, TermTimeout
  <1>3. CASE StopChecked(c) \/ KillTimeout(c)
    BY <1>3 DEF StopChecked, KillTimeout, AfterStop
  <1>4. CASE SettleExit(c) \/ StopNotified(c)
    BY <1>4 DEF SettleExit, StopNotified, Receive, AfterStop
  <1>5. CASE Kill(c)
    <2>1. pc[c] = "kill" /\ pc'[c] \in {"idle", "wait_kill"}
      BY <1>5 DEF Kill
    <2>2. proc' = proc \/ proc' = [proc EXCEPT ![target[c]] = IF @ = "alive" THEN "killed" ELSE @]
      BY <1>5 DEF Kill
    <2> QED
      BY <1>5, <2>1, <2>2 DEF Kill
  <1> QED
    BY <1>1, <1>2, <1>3, <1>4, <1>5

-----------------------------------------------------------------------------
(* The inductive invariant *)

LEMMA StepMutex == TypeOK /\ StartHoldsMutex /\ [Next]_vars => StartHoldsMutex'
  <1> SUFFICES ASSUME TypeOK, StartHoldsMutex, [Next]_vars PROVE StartHoldsMutex'
    OBVIOUS
  <1> USE CoreConstantsOK DEF StartHoldsMutex, TypeOK, Goto, Return
  <1>1. CASE \E c \in Callers : \/ Call(c) \/ StartRefused(c) \/ StopChecked(c) \/ SettleExit(c)
                               \/ SettleTimer(c) \/ Term(c) \/ TermTimeout(c) \/ Kill(c)
                               \/ StopNotified(c) \/ KillTimeout(c)
    BY <1>1, OutsideMutex
  <1>2. CASE \E c \in Callers, t \in BOOLEAN : StartChecked(c, t)
    BY <1>2 DEF StartChecked
  <1>3. CASE \E c \in Callers : SetupOk(c) \/ SetupFails(c) \/ SpawnFails(c)
    <2> PICK c \in Callers : SetupOk(c) \/ SetupFails(c) \/ SpawnFails(c)
      BY <1>3
    <2>1. CASE SetupOk(c)
      BY <2>1 DEF SetupOk
    <2>2. CASE SetupFails(c)
      BY <2>2 DEF SetupFails
    <2>3. CASE SpawnFails(c)
      BY <2>3 DEF SpawnFails
    <2> QED
      BY <2>1, <2>2, <2>3
  <1>4. CASE \E c \in Callers : Spawn(c)
    BY <1>4 DEF Spawn
  <1>5. CASE \E c \in Callers, ok \in BOOLEAN : UndoSetup(c, ok)
    BY <1>5 DEF UndoSetup
  <1>6. CASE \/ \E g \in Gens : Exit(g) \/ Wait(g) \/ ClearRunning(g)
             \/ UNCHANGED vars
    BY <1>6 DEF Exit, Wait, Reap, CleanRules, Notify, ClearRunning, vars, shared, local
  <1> QED
    BY <1>1, <1>2, <1>3, <1>4, <1>5, <1>6 DEF Next, Lock, Run

LEMMA StepWaiter ==
  TypeOK /\ StartHoldsMutex /\ WaiterKeepsProcess /\ [Next]_vars => WaiterKeepsProcess'
  <1> SUFFICES ASSUME TypeOK, StartHoldsMutex, WaiterKeepsProcess, [Next]_vars PROVE WaiterKeepsProcess'
    OBVIOUS
  <1> USE DEF WaiterKeepsProcess, TypeOK
  <1>1. CASE \E c \in Callers : \/ Call(c) \/ StartRefused(c) \/ StopChecked(c) \/ SettleExit(c)
                               \/ SettleTimer(c) \/ Term(c) \/ TermTimeout(c) \/ Kill(c)
                               \/ StopNotified(c) \/ KillTimeout(c)
    BY <1>1, OutsideMutex
  <1>2. CASE \/ \E c \in Callers, t \in BOOLEAN : StartChecked(c, t)
             \/ \E c \in Callers : SetupOk(c) \/ SetupFails(c) \/ SpawnFails(c)
             \/ \E c \in Callers, ok \in BOOLEAN : UndoSetup(c, ok)
             \/ UNCHANGED vars
    BY <1>2 DEF StartChecked, SetupOk, SetupFails, SpawnFails, UndoSetup, vars, shared
  <1>3. CASE \E c \in Callers : Spawn(c)
    <2> PICK c \in Callers : Spawn(c)
      BY <1>3
    <2>1. ~running /\ cur' = cur + 1 /\ cur + 1 \in Gens /\ running'
      BY CoreConstantsOK DEF Spawn, StartHoldsMutex, Gens
    <2>2. \A g \in Gens : g # cur + 1 => proc'[g] = proc[g] /\ waiter'[g] = waiter[g]
      BY DEF Spawn
    <2>3. proc'[cur + 1] = "alive" /\ waiter'[cur + 1] = "wait"
      BY <2>1 DEF Spawn
    <2>4. \A g \in Gens : g # cur + 1 => waiter[g] \notin {"wait", "clear"} /\ g \in Nat
      BY <2>1 DEF Gens
    <2> QED
      BY <2>1, <2>2, <2>3, <2>4
  <1>4. CASE \E g \in Gens : Exit(g) \/ Wait(g)
    BY <1>4 DEF Exit, Wait, Reap, CleanRules, Notify
  <1>5. CASE \E g \in Gens : ClearRunning(g)
    BY <1>5 DEF ClearRunning
  <1> QED
    BY <1>1, <1>2, <1>3, <1>4, <1>5 DEF Next, Lock, Run

LEMMA NoOrphanFollows == TypeOK /\ WaiterKeepsProcess => NoOrphan
  BY DEF WaiterKeepsProcess, NoOrphan, Alive

LEMMA StepNeeded ==
  TypeOK /\ StartHoldsMutex /\ WaiterKeepsProcess /\ NeededRulesStay /\ [Next]_vars => NeededRulesStay'
  <1> SUFFICES ASSUME TypeOK, TypeOK', StartHoldsMutex, StartHoldsMutex', WaiterKeepsProcess,
                      WaiterKeepsProcess', NeededRulesStay, [Next]_vars, ~overlap', RulesNeeded'
               PROVE  rules' /\ ~RemovalPending'
    BY StepType, StepMutex, StepWaiter DEF NeededRulesStay
  <1>0. NoOrphan /\ NoOrphan'
    BY DEF TypeOK, WaiterKeepsProcess, NoOrphan, Alive
  <1> USE DEF NeededRulesStay, RulesNeeded, RemovalPending, Alive, Goto, Return
  <1>1. CASE \E c \in Callers : \/ Call(c) \/ StartRefused(c) \/ StopChecked(c) \/ SettleExit(c)
                               \/ SettleTimer(c) \/ Term(c) \/ TermTimeout(c) \/ Kill(c)
                               \/ StopNotified(c) \/ KillTimeout(c)
    <2> PICK c \in Callers :    \/ Call(c) \/ StartRefused(c) \/ StopChecked(c) \/ SettleExit(c)
                               \/ SettleTimer(c) \/ Term(c) \/ TermTimeout(c) \/ Kill(c)
                               \/ StopNotified(c) \/ KillTimeout(c)
      BY <1>1
    <2> QED
      BY OutsideMutex
  <1>2. CASE \E c \in Callers, t \in BOOLEAN : StartChecked(c, t)
    BY <1>2 DEF StartChecked, TypeOK, hist
  <1>3. CASE \E c \in Callers : SetupOk(c)
    BY <1>3 DEF SetupOk, TypeOK
  <1>4. CASE \E c \in Callers : SetupFails(c) \/ SpawnFails(c)
    <2>1. PICK c \in Callers : SetupFails(c) \/ SpawnFails(c)
      BY <1>4
    <2>2. pc[c] \in {"setup", "spawn"} /\ mu' = "none" /\ running' = running
      BY <2>1 DEF SetupFails, SpawnFails
    <2>3. ~running'
      BY <2>2, CoreConstantsOK DEF StartHoldsMutex
    <2> QED
      BY <1>0, <2>2, <2>3, CoreConstantsOK DEF NoOrphan, StartHoldsMutex
  <1>5. CASE \E c \in Callers : Spawn(c)
    <2> PICK c \in Callers : Spawn(c)
      BY <1>5
    <2>1. ~running /\ mu = c /\ cur + 1 \in Gens /\ waiter' = [waiter EXCEPT ![cur + 1] = "wait"]
      BY DEF Spawn, StartHoldsMutex, Gens, TypeOK
    <2>2. tun[c]
      BY <1>0, <2>1 DEF Spawn, NoOrphan, StartHoldsMutex, TypeOK
    <2> QED
      BY <2>1, <2>2 DEF Spawn, TypeOK, hist
  <1>6. CASE \E c \in Callers, ok \in BOOLEAN : UndoSetup(c, ok)
    <2>1. RulesNeeded /\ ~overlap
      BY <1>6 DEF UndoSetup, TypeOK
    <2> QED
      BY <1>6, <2>1 DEF UndoSetup
  <1>7. CASE \E g \in Gens : Exit(g) \/ Reap(g)
    BY <1>7 DEF Exit, Reap, TypeOK, local, hist
  <1>8. CASE \E g \in Gens, ok \in BOOLEAN : CleanRules(g, ok)
    <2>1. RulesNeeded /\ ~overlap
      BY <1>8 DEF CleanRules, TypeOK, local
    <2> QED
      BY <1>8, <2>1 DEF CleanRules
  <1>9. CASE \E g \in Gens : Notify(g)
    BY <1>9 DEF Notify, TypeOK, local, hist
  <1>10. CASE \E g \in Gens : ClearRunning(g)
    <2>1. ~running' /\ mu' = "none"
      BY <1>10 DEF ClearRunning
    <2> QED
      BY <1>0, <2>1, CoreConstantsOK DEF NoOrphan, StartHoldsMutex
  <1>11. CASE UNCHANGED vars
    BY <1>11 DEF vars, shared, local, hist
  <1> QED
    BY <1>1, <1>2, <1>3, <1>4, <1>5, <1>6, <1>7, <1>8, <1>9, <1>10, <1>11 DEF Next, Lock, Run, Wait

LEMMA StepOwned ==
  TypeOK /\ StartHoldsMutex /\ WaiterKeepsProcess /\ RulesAreOwned /\ [Next]_vars => RulesAreOwned'
  <1> SUFFICES ASSUME TypeOK, TypeOK', StartHoldsMutex, WaiterKeepsProcess, RulesAreOwned, [Next]_vars,
                      rules', ~leaked'
               PROVE  RulesOwned'
    BY StepType DEF RulesAreOwned
  <1> USE DEF RulesAreOwned, RulesOwned, Goto, Return
  <1>1. CASE \E c \in Callers : \/ Call(c) \/ StartRefused(c) \/ StopChecked(c) \/ SettleExit(c)
                               \/ SettleTimer(c) \/ Term(c) \/ TermTimeout(c) \/ Kill(c)
                               \/ StopNotified(c) \/ KillTimeout(c)
    <2> PICK c \in Callers :    \/ Call(c) \/ StartRefused(c) \/ StopChecked(c) \/ SettleExit(c)
                               \/ SettleTimer(c) \/ Term(c) \/ TermTimeout(c) \/ Kill(c)
                               \/ StopNotified(c) \/ KillTimeout(c)
      BY <1>1
    <2> QED
      BY OutsideMutex
  <1>2. CASE \E c \in Callers, t \in BOOLEAN : StartChecked(c, t)
    BY <1>2 DEF StartChecked, TypeOK, hist
  <1>3. CASE \E c \in Callers : SetupOk(c)
    BY <1>3 DEF SetupOk, TypeOK, StartHoldsMutex
  <1>4. CASE \E c \in Callers : SetupFails(c) \/ SpawnFails(c)
    <2> PICK c \in Callers : SetupFails(c) \/ SpawnFails(c)
      BY <1>4
    <2>1. /\ RulesOwned /\ UNCHANGED <<tunOf, waiter>>
          /\ \A d \in Callers : d # c => pc'[d] = pc[d] /\ tun'[d] = tun[d]
      BY DEF SetupFails, SpawnFails, TypeOK, hist
    <2>2. pc[c] \in {"spawn", "undo"} /\ tun[c] => pc'[c] = "undo" /\ tun'[c]
      BY DEF SetupFails, SpawnFails, TypeOK
    <2> QED
      BY <2>1, <2>2
  <1>5. CASE \E c \in Callers : Spawn(c)
    <2> PICK c \in Callers : Spawn(c)
      BY <1>5
    <2>1. cur + 1 \in Gens /\ waiter[cur + 1] = "none"
      BY CoreConstantsOK DEF Spawn, StartHoldsMutex, WaiterKeepsProcess, Gens, TypeOK
    <2> QED
      BY <2>1 DEF Spawn, TypeOK, hist
  <1>6. CASE \E c \in Callers, ok \in BOOLEAN : UndoSetup(c, ok)
    BY <1>6 DEF UndoSetup, RestoreTUNRouting
  <1>7. CASE \E g \in Gens, ok \in BOOLEAN : CleanRules(g, ok)
    BY <1>7 DEF CleanRules, RestoreTUNRouting
  <1>8. CASE \E g \in Gens : Exit(g) \/ Reap(g) \/ ClearRunning(g) \/ Notify(g)
    <2> PICK g \in Gens : Exit(g) \/ Reap(g) \/ ClearRunning(g) \/ Notify(g)
      BY <1>8
    <2>1. /\ RulesOwned /\ UNCHANGED <<pc, tun>>
          /\ \A h \in Gens : h # g => waiter'[h] = waiter[h] /\ tunOf'[h] = tunOf[h]
      BY DEF Exit, Reap, ClearRunning, Notify, TypeOK, local, hist
    <2>2. tunOf[g] /\ waiter[g] \in {"wait", "clear", "restore"} =>
            tunOf'[g] /\ waiter'[g] \in {"wait", "clear", "restore"}
      BY DEF Exit, Reap, ClearRunning, Notify, TypeOK
    <2> QED
      BY <2>1, <2>2
  <1>9. CASE UNCHANGED vars
    BY <1>9 DEF vars, shared, local, hist
  <1> QED
    BY <1>1, <1>2, <1>3, <1>4, <1>5, <1>6, <1>7, <1>8, <1>9 DEF Next, Lock, Run, Wait

LEMMA InitIInv == Init => IInv
  BY InitType, CoreConstantsOK
     DEF Init, IInv, StartHoldsMutex, WaiterKeepsProcess, NeededRulesStay, RulesNeeded, RulesAreOwned,
         Alive, Gens

LEMMA StepIInv == IInv /\ [Next]_vars => IInv'
  BY StepType, StepMutex, StepWaiter, StepNeeded, StepOwned DEF IInv

\* Every reachable state is well typed.
THEOREM TypeCorrect == Spec => []TypeOK
  <1>1. IInv => TypeOK
    BY DEF IInv
  <1> QED
    BY <1>1, InitIInv, StepIInv, PTL DEF Spec

\* Whatever the calls and exits, a live process is the one that Stop would signal.
THEOREM NoOrphanHolds == Spec => []NoOrphan
  <1>1. IInv => NoOrphan
    BY NoOrphanFollows DEF IInv
  <1> QED
    BY <1>1, InitIInv, StepIInv, PTL DEF Spec

\* A TUN core has its rules unless they were installed with a removal still to run,
\* and no rules are left when all is over, unless a removal has failed.
THEOREM RulesFollowCoreHolds == Spec => []RulesFollowCore
  <1>1. IInv => RulesFollowCore
    BY DEF IInv, RulesFollowCore, NeededRulesStay, RulesNeeded, RulesAreOwned, RulesOwned
  <1> QED
    BY <1>1, InitIInv, StepIInv, PTL DEF Spec
=============================================================================
