---------------------------- MODULE CoreProcess ----------------------------
(***************************************************************************)
(* The manager of the core as a child process (mihomotui/mihomo_process.go *)
(* with signalProcessTree of process_attr_unix.go).                        *)
(*                                                                         *)
(* Start installs the TUN return-path rules, spawns a process and leaves a *)
(* goroutine behind that waits for it: when the process is gone it clears  *)
(* running, removes the rules and puts the exit on the channel `exited',   *)
(* where Start (during its settle window) or Stop may take it.  Start      *)
(* holds the mutex from its check of running to the spawn; Stop and the    *)
(* goroutine hold it only to read or clear the fields.                     *)
(*                                                                         *)
(* SetupTUNRouting and RestoreTUNRouting exclude each other by a file lock *)
(* and are one step each here (module TunRouting has their insides); rules *)
(* says whether the complete set is installed.  Each started process is a  *)
(* generation, and reads for itself whether the configuration has TUN on.  *)
(***************************************************************************)
EXTENDS Integers, FiniteSets

CONSTANTS
  Callers,  \* goroutines that call Start, Stop and Restart
  MaxGen    \* bound: processes started in one behaviour

ASSUME CoreConstantsOK == MaxGen \in Nat /\ "none" \notin Callers

Gens == 1 .. MaxGen

VARIABLES
  mu,       \* the holder of p.mu; only Start holds it over several steps
  running,  \* p.running
  cur,      \* the generation p.cmd and p.exited belong to
  proc,     \* the process of each generation
  tunOf,    \* tunRoutingInstalled of each generation, while it matters
  waiter,   \* the goroutine that waits for a generation
  exited,   \* the channel of a generation holds its exit
  rules,    \* the TUN rules are installed
  pc,       \* where each caller is
  target,   \* the generation a caller waits for
  restart,  \* the Stop a caller is in is the first half of Restart
  tun,      \* cfg.System.TUN as a Start has read it
  overlap,  \* history: rules were installed while a removal was still to run
  leaked    \* history: a removal of the rules failed

shared == <<mu, running, cur, proc, tunOf, waiter, exited, rules>>
local  == <<pc, target, restart, tun>>
hist   == <<overlap, leaked>>
vars   == <<shared, local, hist>>

PCs == {"idle", "start", "setup", "spawn", "undo", "settle", "stop", "term",
        "wait_term", "kill", "wait_kill"}

TypeOK ==
  /\ mu \in Callers \cup {"none"}
  /\ running \in BOOLEAN
  /\ cur \in 0 .. MaxGen
  /\ proc \in [Gens -> {"none", "alive", "killed", "zombie", "reaped"}]
  /\ tunOf \in [Gens -> BOOLEAN]
  /\ waiter \in [Gens -> {"none", "wait", "clear", "restore", "notify", "done"}]
  /\ exited \in [Gens -> BOOLEAN]
  /\ rules \in BOOLEAN
  /\ pc \in [Callers -> PCs]
  /\ target \in [Callers -> 0 .. MaxGen]
  /\ restart \in [Callers -> BOOLEAN]
  /\ tun \in [Callers -> BOOLEAN]
  /\ overlap \in BOOLEAN /\ leaked \in BOOLEAN

Init ==
  /\ mu = "none" /\ running = FALSE /\ cur = 0
  /\ proc = [g \in Gens |-> "none"]
  /\ tunOf = [g \in Gens |-> FALSE]
  /\ waiter = [g \in Gens |-> "none"]
  /\ exited = [g \in Gens |-> FALSE]
  /\ rules = FALSE
  /\ pc = [c \in Callers |-> "idle"]
  /\ target = [c \in Callers |-> 0]
  /\ restart = [c \in Callers |-> FALSE]
  /\ tun = [c \in Callers |-> FALSE]
  /\ overlap = FALSE /\ leaked = FALSE

Goto(c, p) == pc' = [pc EXCEPT ![c] = p]

\* The call of c returns; its local variables go with it.
Return(c) ==
  /\ Goto(c, "idle")
  /\ target' = [target EXCEPT ![c] = 0]
  /\ restart' = [restart EXCEPT ![c] = FALSE]
  /\ tun' = [tun EXCEPT ![c] = FALSE]

Alive(g) == proc[g] \in {"alive", "killed"}

\* RestoreTUNRouting: all gone, or an error and nothing promised.
RestoreTUNRouting(ok) ==
  /\ rules' = (rules /\ ~ok)
  /\ leaked' = (leaked \/ ~ok)

\* Somebody has decided to remove the rules and has not done it yet.
RemovalPending ==
  \/ \E g \in Gens : waiter[g] = "restore"
  \/ \E c \in Callers : pc[c] = "undo"

-----------------------------------------------------------------------------
(* Start *)

CallStart(c) ==
  /\ pc[c] = "idle"
  /\ Goto(c, "start")
  /\ UNCHANGED <<shared, target, restart, tun, hist>>

\* Already running, no binary, no configuration file: nothing is changed.
StartRefused(c) ==
  /\ pc[c] = "start" /\ mu = "none"
  /\ Return(c)
  /\ UNCHANGED <<shared, hist>>

\* Mutant: a second process is started beside a running one.
StartCheckedTwice(c, t) ==
  /\ pc[c] = "start" /\ mu = "none"
  /\ cur < MaxGen
  /\ mu' = c
  /\ tun' = [tun EXCEPT ![c] = t]
  /\ Goto(c, IF t THEN "setup" ELSE "spawn")
  /\ UNCHANGED <<running, cur, proc, tunOf, waiter, exited, rules, target, restart, hist>>

StartChecked(c, t) ==
  /\ pc[c] = "start" /\ mu = "none"
  /\ ~running /\ cur < MaxGen
  /\ mu' = c
  /\ tun' = [tun EXCEPT ![c] = t]
  /\ Goto(c, IF t THEN "setup" ELSE "spawn")
  /\ UNCHANGED <<running, cur, proc, tunOf, waiter, exited, rules, target, restart, hist>>

SetupOk(c) ==
  /\ pc[c] = "setup"
  /\ rules' = TRUE
  /\ overlap' = (overlap \/ RemovalPending)
  /\ Goto(c, "spawn")
  /\ UNCHANGED <<mu, running, cur, proc, tunOf, waiter, exited, target, restart, tun, leaked>>

\* Mutant: a failed setup does not keep the core from starting.
SetupFailsIgnored(c) ==
  /\ pc[c] = "setup"
  /\ rules' \in {rules, FALSE}
  /\ Goto(c, "spawn")
  /\ UNCHANGED <<mu, running, cur, proc, tunOf, waiter, exited, target, restart, tun, hist>>

\* A failed setup has touched nothing, or rolled back, or, when it failed late and
\* its rollback failed too, left rules behind.
SetupFails(c) ==
  /\ pc[c] = "setup"
  /\ \/ rules' \in {rules, FALSE} /\ UNCHANGED leaked
     \/ rules' = TRUE /\ leaked' = TRUE
  /\ mu' = "none"
  /\ Return(c)
  /\ UNCHANGED <<running, cur, proc, tunOf, waiter, exited, overlap>>

Spawn(c) ==
  /\ pc[c] = "spawn"
  /\ cur' = cur + 1
  /\ running' = TRUE
  /\ proc' = [proc EXCEPT ![cur + 1] = "alive"]
  /\ tunOf' = [tunOf EXCEPT ![cur + 1] = tun[c]]
  /\ waiter' = [waiter EXCEPT ![cur + 1] = "wait"]
  /\ target' = [target EXCEPT ![c] = cur + 1]
  /\ mu' = "none"
  /\ Goto(c, "settle")
  /\ UNCHANGED <<exited, rules, restart, tun, hist>>

SpawnFails(c) ==
  /\ pc[c] = "spawn"
  /\ mu' = "none"
  /\ IF tun[c]
       THEN Goto(c, "undo") /\ UNCHANGED <<target, restart, tun>>
       ELSE Return(c)
  /\ UNCHANGED <<running, cur, proc, tunOf, waiter, exited, rules, hist>>

\* The rules go after the mutex is released.
UndoSetup(c, ok) ==
  /\ pc[c] = "undo"
  /\ RestoreTUNRouting(ok)
  /\ Return(c)
  /\ UNCHANGED <<mu, running, cur, proc, tunOf, waiter, exited, overlap>>

-----------------------------------------------------------------------------
(* Receiving from `exited', in Start's settle window and in Stop *)

Receive(c, from) ==
  /\ pc[c] \in from
  /\ exited[target[c]]
  /\ exited' = [exited EXCEPT ![target[c]] = FALSE]

\* The process is gone within the settle window: Start fails.
SettleExit(c) ==
  /\ Receive(c, {"settle"})
  /\ Return(c)
  /\ UNCHANGED <<mu, running, cur, proc, tunOf, waiter, rules, hist>>

\* The window is over: Start succeeds.
SettleTimer(c) ==
  /\ pc[c] = "settle"
  /\ Return(c)
  /\ UNCHANGED <<shared, hist>>

-----------------------------------------------------------------------------
(* Stop, and Restart as Stop followed by Start *)

CallStop(c, r) ==
  /\ pc[c] = "idle"
  /\ restart' = [restart EXCEPT ![c] = r]
  /\ Goto(c, "stop")
  /\ UNCHANGED <<shared, target, tun, hist>>

\* Stop has returned without error, or with ErrMihomoNotRunning; after any
\* other error Restart gives up.
AfterStop(c) ==
  IF restart[c]
  THEN /\ Goto(c, "start")
       /\ target' = [target EXCEPT ![c] = 0]
       /\ restart' = [restart EXCEPT ![c] = FALSE]
       /\ tun' = tun
  ELSE Return(c)

StopChecked(c) ==
  /\ pc[c] = "stop" /\ mu = "none"
  /\ IF running
       THEN /\ target' = [target EXCEPT ![c] = cur]
            /\ Goto(c, "term")
            /\ UNCHANGED <<restart, tun>>
       ELSE AfterStop(c)
  /\ UNCHANGED <<shared, hist>>

\* signalProcessTree fails once Wait has reaped the process.
Term(c) ==
  /\ pc[c] = "term"
  /\ IF proc[target[c]] = "reaped"
       THEN Return(c)
       ELSE Goto(c, "wait_term") /\ UNCHANGED <<target, restart, tun>>
  /\ UNCHANGED <<shared, hist>>

TermTimeout(c) ==
  /\ pc[c] = "wait_term"
  /\ Goto(c, "kill")
  /\ UNCHANGED <<shared, target, restart, tun, hist>>

Kill(c) ==
  /\ pc[c] = "kill"
  /\ IF proc[target[c]] = "reaped"
       THEN Return(c) /\ proc' = proc
       ELSE /\ proc' = [proc EXCEPT ![target[c]] = IF @ = "alive" THEN "killed" ELSE @]
            /\ Goto(c, "wait_kill")
            /\ UNCHANGED <<target, restart, tun>>
  /\ UNCHANGED <<mu, running, cur, tunOf, waiter, exited, rules, hist>>

StopNotified(c) ==
  /\ Receive(c, {"wait_term", "wait_kill"})
  /\ AfterStop(c)
  /\ UNCHANGED <<mu, running, cur, proc, tunOf, waiter, rules, hist>>

\* Mutant: Stop waits for the exit as long as it takes.
KillTimeoutNever(c) ==
  /\ pc[c] = "wait_kill"
  /\ exited[target[c]]
  /\ AfterStop(c)
  /\ UNCHANGED <<shared, hist>>

\* "The exit state will be synchronised asynchronously": Stop succeeds.
KillTimeout(c) ==
  /\ pc[c] = "wait_kill"
  /\ AfterStop(c)
  /\ UNCHANGED <<shared, hist>>

-----------------------------------------------------------------------------
(* The processes and the goroutines that wait for them *)

\* A process may end at any time, of itself or by a signal.
Exit(g) ==
  /\ proc[g] \in {"alive", "killed"}
  /\ proc' = [proc EXCEPT ![g] = "zombie"]
  /\ UNCHANGED <<mu, running, cur, tunOf, waiter, exited, rules, local, hist>>

Reap(g) ==
  /\ waiter[g] = "wait" /\ proc[g] = "zombie"
  /\ proc' = [proc EXCEPT ![g] = "reaped"]
  /\ waiter' = [waiter EXCEPT ![g] = "clear"]
  /\ UNCHANGED <<mu, running, cur, tunOf, exited, rules, local, hist>>

ClearRunning(g) ==
  /\ waiter[g] = "clear" /\ mu = "none"
  /\ running' = FALSE
  /\ waiter' = [waiter EXCEPT ![g] = IF tunOf[g] THEN "restore" ELSE "notify"]
  /\ UNCHANGED <<mu, cur, proc, tunOf, exited, rules, local, hist>>

CleanRules(g, ok) ==
  /\ waiter[g] = "restore"
  /\ RestoreTUNRouting(ok)
  /\ waiter' = [waiter EXCEPT ![g] = "notify"]
  /\ UNCHANGED <<mu, running, cur, proc, tunOf, exited, local, overlap>>

\* The channel has room for one, and this is its only sender.
Notify(g) ==
  /\ waiter[g] = "notify"
  /\ exited' = [exited EXCEPT ![g] = TRUE]
  /\ waiter' = [waiter EXCEPT ![g] = "done"]
  /\ tunOf' = [tunOf EXCEPT ![g] = FALSE]
  /\ UNCHANGED <<mu, running, cur, proc, rules, local, hist>>

-----------------------------------------------------------------------------
Lock(c) == StartRefused(c) \/ (\E t \in BOOLEAN : StartChecked(c, t)) \/ StopChecked(c)

Run(c) ==
  \/ SetupOk(c) \/ SetupFails(c) \/ Spawn(c) \/ SpawnFails(c)
  \/ \E ok \in BOOLEAN : UndoSetup(c, ok)
  \/ SettleExit(c) \/ SettleTimer(c)
  \/ Term(c) \/ TermTimeout(c) \/ Kill(c) \/ StopNotified(c) \/ KillTimeout(c)

Call(c) == CallStart(c) \/ \E r \in BOOLEAN : CallStop(c, r)

Wait(g) ==
  Reap(g) \/ (\E ok \in BOOLEAN : CleanRules(g, ok)) \/ Notify(g)

Next ==
  \/ \E c \in Callers : Call(c) \/ Lock(c) \/ Run(c)
  \/ \E g \in Gens : Exit(g) \/ Wait(g) \/ ClearRunning(g)

\* Goroutines run, timers fire, SIGKILL ends a process, and a Go mutex is
\* handed to every waiter in the end.  (A goroutine that waits takes three
\* steps at most, so fairness to all of them together is enough.)
Fairness ==
  /\ \A c \in Callers : WF_vars(Run(c)) /\ SF_vars(Lock(c))
  /\ WF_vars(\E g \in Gens : Wait(g) \/ (proc[g] = "killed" /\ Exit(g)))
  /\ SF_vars(\E g \in Gens : ClearRunning(g))

Spec == Init /\ [][Next]_vars /\ Fairness

-----------------------------------------------------------------------------
(* Properties *)

\* A live process is always the one Stop would signal: no sequence of Start,
\* Stop, Restart and exits loses track of one, or leaves two running.
NoOrphan ==
  \A g \in Gens : Alive(g) => running /\ cur = g

\* A process started with TUN has its rules as long as it lives, provided no
\* removal of an earlier life was still to run when they were installed; and when
\* all is over no rules are left, unless a removal failed.
RulesFollowCore ==
  /\ ~overlap => \A g \in Gens : Alive(g) /\ tunOf[g] => rules
  /\ (/\ \A c \in Callers : pc[c] = "idle"
      /\ \A g \in Gens : waiter[g] \in {"none", "done"})
       => (rules => leaked)

\* Every call returns, whoever took the exit from the channel first.
CallsReturn == \A c \in Callers : pc[c] # "idle" ~> pc[c] = "idle"

\* What the comments of Start claim: the core is not in TUN mode without its
\* rules, and cleaning before notifying keeps the cleanup from interfering.
TunProcessProtected ==
  \A g \in Gens : Alive(g) /\ tunOf[g] => rules

=============================================================================
