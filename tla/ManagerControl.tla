--------------------------- MODULE ManagerControl ---------------------------
(***************************************************************************)
(* The manager's handlers that start and stop the core, switch TUN and     *)
(* change the proxy port (mihomotui/manager_api.go, core_controller.go),   *)
(* with the core as a systemd unit (core_controller_linux.go and the unit  *)
(* of cmd/service_unit.go).                                                *)
(*                                                                         *)
(* A setting exists three times: in the committed configuration, in the    *)
(* file generated for the core and in the running core.  The handlers hold *)
(* actionMu from beginning to end, so one is in flight; each takes them    *)
(* from one value to another in several steps, any of which may fail or    *)
(* time out, and tries to go back when one does.  Meanwhile the core may   *)
(* crash, and systemd (Restart=on-failure) starts it again a little later  *)
(* from the generated file, without asking the manager.                    *)
(*                                                                         *)
(* A core in TUN mode takes over the default route; without the complete   *)
(* return-path rules (module TunRouting, here their state only) the host   *)
(* loses its inbound connections.                                          *)
(***************************************************************************)
EXTENDS Naturals

CONSTANTS
  Ports,     \* values of the proxy port
  Faults,    \* kinds of failure that may happen
  MaxFaults  \* bound on the failures in one behaviour

FaultKinds == {"query", "unhealthy", "generate", "commit", "setup", "restore",
               "start", "stop", "reload", "apply", "readback", "crash"}

ASSUME ManagerConstantsOK == Faults \subseteq FaultKinds /\ MaxFaults \in Nat

Settings == [tun : BOOLEAN, port : Ports]

VARIABLES
  cfg,     \* the committed configuration
  gen,     \* the configuration generated for the core
  run,     \* what the core runs with, while it is active
  core,    \* the unit: inactive, active, or crashed and about to be restarted
  rules,   \* the TUN rules, with their state file: none, part or full
  kind,    \* the request being handled, or handled last
  before,  \* the configuration when it arrived
  want,    \* the configuration it asks for
  up,      \* the core was seen running by the handler
  pc,      \* the handler's next step
  reply,   \* its answer
  seen,    \* history: the kinds of failure so far
  nf,      \* history: their number
  blind    \* history: a handler took a core that is up, or that systemd is
           \* about to restart, for one that is stopped

settings == <<cfg, gen, run>>
handler  == <<kind, before, want, up, reply>>
hist     == <<seen, nf, blind>>
vars     == <<settings, core, rules, handler, pc, hist>>

PCs == {"idle",
        "start_generate", "start_setup", "start_core", "start_undo",
        "start_wait", "start_stop",
        "stop_look", "stop_core", "stop_restore", "stop_wait",
        "look", "commit", "generate", "look_again", "setup", "reload",
        "restore", "readback", "report",
        "back_commit", "back_generate", "back_reload", "back_rules"}

TypeOK ==
  /\ {cfg, gen, run, before, want} \subseteq Settings
  /\ core \in {"inactive", "active", "restarting"}
  /\ rules \in {"none", "part", "full"}
  /\ kind \in {"none", "start", "stop", "tun", "port"}
  /\ up \in BOOLEAN
  /\ pc \in PCs
  /\ reply \in {"none", "ok", "same", "error"}
  /\ seen \subseteq Faults
  /\ nf \in 0 .. MaxFaults
  /\ blind \in BOOLEAN

Init ==
  /\ cfg \in Settings /\ gen = cfg /\ run = cfg
  /\ core = "inactive" /\ rules = "none"
  /\ kind = "none" /\ before = cfg /\ want = cfg /\ up = FALSE
  /\ pc = "idle" /\ reply = "none"
  /\ seen = {} /\ nf = 0 /\ blind = FALSE

-----------------------------------------------------------------------------
(* Failures and observations *)

CountFault(k) ==
  /\ k \in Faults /\ nf < MaxFaults
  /\ seen' = seen \cup {k}
  /\ nf' = nf + 1

Fault(k) == CountFault(k) /\ UNCHANGED blind

NoFault == UNCHANGED hist

Try(k, ok) == IF ok THEN NoFault ELSE Fault(k)

TunActive == core = "active" /\ run.tun

\* managerStatus asks systemd for the unit and, when it is active, the core's
\* controller.  Either question may fail; a failed one is answered with "not
\* active" or "not healthy".
Observations == {"true", "query", "unhealthy"}

Observe(o) ==
  CASE o = "true"      -> UNCHANGED <<seen, nf>> /\ blind' = (blind \/ core = "restarting")
    [] o = "query"     -> CountFault("query") /\ blind' = (blind \/ core # "inactive")
    [] o = "unhealthy" -> core = "active" /\ CountFault("unhealthy") /\ blind' = TRUE

ServiceActive(o) == core = "active" /\ o # "query"
Running(o)       == core = "active" /\ o = "true"

\* A file, an interface or the configuration speaks of TUN.
tunCleanupNeeded == cfg.tun \/ TunActive \/ rules # "none"

Goto(p) == pc' = p /\ UNCHANGED handler

Answer(r) == pc' = "idle" /\ reply' = r /\ UNCHANGED <<kind, before, want, up>>

\* SetupTUNRouting refuses while a TUN interface has the default route, the
\* core's own included; otherwise a failure may leave part of the rules.
SetupTUNRouting(ok) ==
  /\ Try("setup", ok)
  /\ rules' \in IF TunActive THEN {rules} ELSE IF ok THEN {"full"} ELSE {rules, "none", "part"}

SetupWorks(ok) == ok /\ ~TunActive

RestoreTUNRouting(ok) ==
  /\ Try("restore", ok)
  /\ rules' \in IF ok THEN {"none"} ELSE IF rules = "none" THEN {"none"} ELSE {rules, "part"}

\* A failure may come after the new file is in place.
GenerateMihomoConfig(ok) ==
  /\ Try("generate", ok)
  /\ gen' \in IF ok THEN {cfg} ELSE {gen, cfg}

\* ReloadConfigs: fails when the core is not there; may report a failure (a
\* timeout) although the core has taken the file, and success although the
\* core could not do what it says (open the TUN device, listen on the port).
ReloadConfigs(ok) ==
  \/ ok /\ core = "active" /\ NoFault /\ run' = gen
  \/ ok /\ core = "active" /\ Fault("apply") /\ run' = run
  \/ ~ok /\ core = "active" /\ Fault("reload") /\ run' \in {run, gen}
  \/ ~ok /\ core # "active" /\ NoFault /\ run' = run

-----------------------------------------------------------------------------
(* The core as a systemd unit *)

Crash ==
  /\ core = "active"
  /\ Fault("crash")
  /\ core' \in {"restarting", "inactive"}
  /\ UNCHANGED <<settings, rules, handler, pc>>

AutoRestart ==
  /\ core = "restarting"
  /\ core' = "active"
  /\ run' = gen
  /\ UNCHANGED <<cfg, gen, rules, handler, pc, hist>>

-----------------------------------------------------------------------------
(* Requests *)

Request(k, new) ==
  /\ pc = "idle"
  /\ kind' = k /\ before' = cfg /\ want' = new /\ up' = FALSE /\ reply' = "none"
  /\ UNCHANGED <<settings, core, rules, hist>>

RequestStart == Request("start", cfg) /\ pc' = "start_generate"
RequestStop  == Request("stop", cfg) /\ pc' = "stop_look"

RequestTUN(on) ==
  /\ on # cfg.tun
  /\ Request("tun", [cfg EXCEPT !.tun = on])
  /\ pc' = "look"

\* The port must be free to listen on.
RequestPort(p) ==
  /\ p # cfg.port
  /\ core = "active" => p # run.port
  /\ Request("port", [cfg EXCEPT !.port = p])
  /\ pc' = "look"

\* A request for the committed value is answered at once; a port that cannot
\* be used, or unreadable input, is refused as soon.
RequestAnswered(r) ==
  /\ pc = "idle"
  /\ kind' \in {"tun", "port"} /\ before' = cfg /\ want' = cfg /\ up' = FALSE
  /\ reply' = r
  /\ UNCHANGED <<settings, core, rules, pc, hist>>

-----------------------------------------------------------------------------
(* handleManagerCoreStart *)

\* Generate, then have the core binary validate the file.
StartGenerate(ok) ==
  /\ pc = "start_generate"
  /\ GenerateMihomoConfig(ok)
  /\ IF ok
       THEN Goto(IF cfg.tun THEN "start_setup" ELSE "start_core")
       ELSE Answer("error")
  /\ UNCHANGED <<cfg, run, core, rules>>

StartSetup(ok) ==
  /\ pc = "start_setup"
  /\ SetupTUNRouting(ok)
  /\ IF SetupWorks(ok) THEN Goto("start_core") ELSE Answer("error")
  /\ UNCHANGED <<settings, core>>

\* Starting an active unit does nothing; a start that timed out may still
\* have started it.
StartCore(ok) ==
  /\ pc = "start_core"
  /\ Try("start", ok)
  /\ \/ core' = "active" /\ run' = IF core = "active" THEN run ELSE gen
     \/ ~ok /\ UNCHANGED <<core, run>>
  /\ IF ok THEN Goto("start_wait")
     ELSE IF cfg.tun THEN Goto("start_undo") ELSE Answer("error")
  /\ UNCHANGED <<cfg, gen, rules>>

\* The result of the removal is not looked at.
StartUndo(ok) ==
  /\ pc = "start_undo"
  /\ RestoreTUNRouting(ok)
  /\ Answer("error")
  /\ UNCHANGED <<settings, core>>

\* waitForCore(true): until the unit is active and the controller answers.
StartSeen ==
  /\ pc = "start_wait" /\ core = "active"
  /\ NoFault
  /\ Answer("ok")
  /\ UNCHANGED <<settings, core, rules>>

StartTimeout ==
  /\ pc = "start_wait"
  /\ IF core = "active" THEN Fault("unhealthy") ELSE NoFault
  /\ Goto("start_stop")
  /\ UNCHANGED <<settings, core, rules>>

StartStop(ok) ==
  /\ pc = "start_stop"
  /\ Try("stop", ok)
  /\ core' = IF ok THEN "inactive" ELSE core
  /\ IF cfg.tun THEN Goto("start_undo") ELSE Answer("error")
  /\ UNCHANGED <<settings, rules>>

-----------------------------------------------------------------------------
(* handleManagerCoreStop *)

\* The unit is stopped only if it is seen to be active.
StopLook(o) ==
  /\ pc = "stop_look"
  /\ Observe(o)
  /\ IF ServiceActive(o) THEN Goto("stop_core")
     ELSE Goto(IF tunCleanupNeeded THEN "stop_restore" ELSE "stop_wait")
  /\ UNCHANGED <<settings, core, rules>>

StopCore(ok) ==
  /\ pc = "stop_core"
  /\ Try("stop", ok)
  /\ core' = IF ok THEN "inactive" ELSE core
  /\ IF ok
       THEN Goto(IF tunCleanupNeeded THEN "stop_restore" ELSE "stop_wait")
       ELSE Answer("error")
  /\ UNCHANGED <<settings, rules>>

StopRestore(ok) ==
  /\ pc = "stop_restore"
  /\ RestoreTUNRouting(ok)
  /\ IF ok THEN Goto("stop_wait") ELSE Answer("error")
  /\ UNCHANGED <<settings, core>>

\* waitForCore(false): until the status says not running, which an unhealthy
\* controller says as well.
StopSeen(o) ==
  /\ pc = "stop_wait" /\ o # "query"
  /\ Observe(o)
  /\ ~Running(o)
  /\ Answer("ok")
  /\ UNCHANGED <<settings, core, rules>>

StopTimeout ==
  /\ pc = "stop_wait"
  /\ IF core = "active" THEN NoFault ELSE Fault("query")
  /\ Answer("error")
  /\ UNCHANGED <<settings, core, rules>>

-----------------------------------------------------------------------------
(* handleManagerTUN and handleManagerProxyPort *)

Rollback == Goto("back_commit")

\* Active but not healthy: refused.
Look(o) ==
  /\ pc = "look"
  /\ Observe(o)
  /\ IF ServiceActive(o) /\ ~Running(o)
       THEN Answer("error")
       ELSE /\ up' = Running(o)
            /\ pc' = "commit"
            /\ UNCHANGED <<kind, before, want, reply>>
  /\ UNCHANGED <<settings, core, rules>>

Commit(ok) ==
  /\ pc = "commit"
  /\ Try("commit", ok)
  /\ cfg' = IF ok THEN want ELSE cfg
  /\ IF ok THEN Goto("generate") ELSE Answer("error")
  /\ UNCHANGED <<gen, run, core, rules>>

\* Mutant: a failure to generate is answered without going back.
GenerateNoRollback(ok) ==
  /\ pc = "generate"
  /\ GenerateMihomoConfig(ok)
  /\ IF ~ok THEN Answer("error")
     ELSE IF kind = "tun" THEN Goto("look_again")
     ELSE Goto(IF up THEN "reload" ELSE "report")
  /\ UNCHANGED <<cfg, run, core, rules>>

Generate(ok) ==
  /\ pc = "generate"
  /\ GenerateMihomoConfig(ok)
  /\ IF ~ok THEN Rollback
     ELSE IF kind = "tun" THEN Goto("look_again")
     ELSE Goto(IF up THEN "reload" ELSE "report")
  /\ UNCHANGED <<cfg, run, core, rules>>

\* Mutant: TUN is switched on without rules.
LookAgainNoSetup(o) ==
  /\ pc = "look_again"
  /\ Observe(o)
  /\ up' = Running(o)
  /\ pc' = CASE Running(o) -> "reload"
             [] ~Running(o) /\ ~want.tun /\ tunCleanupNeeded -> "restore"
             [] OTHER -> "report"
  /\ UNCHANGED <<settings, core, rules, kind, before, want, reply>>

\* handleManagerTUN asks again and goes by the second answer.
LookAgain(o) ==
  /\ pc = "look_again"
  /\ Observe(o)
  /\ up' = Running(o)
  /\ pc' = CASE Running(o) -> IF want.tun THEN "setup" ELSE "reload"
             [] ~Running(o) /\ ~want.tun /\ tunCleanupNeeded -> "restore"
             [] OTHER -> "report"
  /\ UNCHANGED <<settings, core, rules, kind, before, want, reply>>

\* The rules come before the core enters TUN mode ...
Setup(ok) ==
  /\ pc = "setup"
  /\ SetupTUNRouting(ok)
  /\ IF SetupWorks(ok) THEN Goto("reload") ELSE Rollback
  /\ UNCHANGED <<settings, core>>

Reload(ok) ==
  /\ pc = "reload"
  /\ ReloadConfigs(ok)
  /\ IF ~ok THEN Rollback
     ELSE Goto(IF kind = "tun" /\ ~want.tun THEN "restore" ELSE "readback")
  /\ UNCHANGED <<cfg, gen, core, rules>>

\* ... and go after it has left it.
Restore(ok) ==
  /\ pc = "restore"
  /\ RestoreTUNRouting(ok)
  /\ IF ok THEN Goto(IF up THEN "readback" ELSE "report") ELSE Rollback
  /\ UNCHANGED <<settings, core>>

\* Mutant: the state read back is not compared.
MatchesAnything == core = "active"

\* The core runs with what was asked for.
Matches == core = "active" /\ (IF kind = "tun" THEN run.tun = want.tun ELSE run.port = want.port)

ReadbackOk ==
  /\ pc = "readback"
  /\ Matches \/ (kind = "tun" /\ ~want.tun /\ core # "active")
  /\ NoFault
  /\ Goto("report")
  /\ UNCHANGED <<settings, core, rules>>

\* The target state was not seen in 8 seconds.
ReadbackTimeout ==
  /\ pc = "readback"
  /\ IF Matches THEN Fault("readback") ELSE NoFault
  /\ Rollback
  /\ UNCHANGED <<settings, core, rules>>

\* A last status; handleManagerProxyPort compares its port, which is the
\* committed one when the core cannot be asked.
Report(o) ==
  /\ pc = "report"
  /\ Observe(o)
  /\ IF kind = "port" /\ Running(o) /\ run.port # want.port
       THEN Rollback
       ELSE Answer("ok")
  /\ UNCHANGED <<settings, core, rules>>

\* The steps back: no error is looked at.
BackCommit(ok) ==
  /\ pc = "back_commit"
  /\ Try("commit", ok)
  /\ cfg' = IF ok THEN before ELSE cfg
  /\ Goto("back_generate")
  /\ UNCHANGED <<gen, run, core, rules>>

BackGenerate(ok) ==
  /\ pc = "back_generate"
  /\ GenerateMihomoConfig(ok)
  /\ IF kind = "tun" \/ up THEN Goto("back_reload") ELSE Answer("error")
  /\ UNCHANGED <<cfg, run, core, rules>>

BackReload(ok) ==
  /\ pc = "back_reload"
  /\ ReloadConfigs(ok)
  /\ IF kind = "tun" THEN Goto("back_rules") ELSE Answer("error")
  /\ UNCHANGED <<cfg, gen, core, rules>>

BackRules(ok) ==
  /\ pc = "back_rules"
  /\ IF before.tun THEN SetupTUNRouting(ok) ELSE RestoreTUNRouting(ok)
  /\ Answer("error")
  /\ UNCHANGED <<settings, core>>

-----------------------------------------------------------------------------
StartSteps(ok) ==
  StartGenerate(ok) \/ StartSetup(ok) \/ StartCore(ok) \/ StartUndo(ok) \/ StartStop(ok)

StopSteps(ok) == StopCore(ok) \/ StopRestore(ok)

ChangeSteps(ok) ==
  \/ Commit(ok) \/ Generate(ok) \/ Setup(ok) \/ Reload(ok) \/ Restore(ok)
  \/ BackCommit(ok) \/ BackGenerate(ok) \/ BackReload(ok) \/ BackRules(ok)

Looks == \E o \in Observations : StopLook(o) \/ StopSeen(o) \/ Look(o) \/ LookAgain(o) \/ Report(o)

Step ==
  \/ \E ok \in BOOLEAN : StartSteps(ok) \/ StopSteps(ok) \/ ChangeSteps(ok)
  \/ Looks
  \/ StartSeen \/ StartTimeout \/ StopTimeout \/ ReadbackOk \/ ReadbackTimeout

Requests ==
  \/ RequestStart \/ RequestStop
  \/ \E on \in BOOLEAN : RequestTUN(on)
  \/ \E p \in Ports : RequestPort(p)
  \/ \E r \in {"same", "error"} : RequestAnswered(r)

Next == Requests \/ Step \/ Crash \/ AutoRestart

Spec == Init /\ [][Next]_vars
-----------------------------------------------------------------------------
(* Properties *)

\* An answer "200" tells the truth whatever has failed on the way: a changed
\* setting is the committed one, the generated one and, if the core is active,
\* the running one; a stopped core is stopped and its rules are gone.  Except
\* that a handler was misled about the core being up (which StateQueryOK would
\* have told it).
OkAnswerHolds ==
  pc = "idle" /\ reply = "ok" /\ ~blind =>
    /\ kind = "tun" =>
         cfg.tun = want.tun /\ gen.tun = want.tun /\ (core = "active" => run.tun = want.tun)
    /\ kind = "port" =>
         cfg.port = want.port /\ gen.port = want.port /\ (core = "active" => run.port = want.port)
    /\ kind = "stop" => core = "inactive" /\ rules = "none"

\* After a single failure, of whatever kind, the committed configuration and the
\* one generated from it agree when the answer is out: the rollbacks suffice.  The
\* core runs with it too, unless a handler was misled about the core, by a query
\* that failed, a controller that did not answer or a restart that systemd has
\* still to make: such a handler does not reload, and may say "200" all the same
\* (manager_api.go:321-322, 408, 436).
SingleFailureAgrees ==
  nf <= 1 /\ pc = "idle" => cfg = gen /\ (core = "active" /\ ~blind => run = gen)

\* A core in TUN mode has its rules.
TunCoreProtected == TunActive => rules = "full"

\* That holds over any single failure to generate, commit, install rules, stop
\* or reload, rollback included.  The other kinds do break it: a removal or a
\* readback that fails after TUN was switched off (the rollback reloads TUN
\* before it sets up rules), a reload without effect, a start that fails late,
\* a crash between generating and installing.
SingleFailureProtects ==
  (/\ nf <= 1 /\ ~blind
   /\ seen \cap {"restore", "readback", "apply", "start", "crash"} = {})
    => TunCoreProtected

=============================================================================
