------------------------ MODULE ManagerControlProofs ------------------------
(***************************************************************************)
(* What the answers of the manager's handlers mean, and what a single      *)
(* failure can do at most, for any set of ports, any kinds of failure and  *)
(* any number of them; and for the handler that switches the recorder of   *)
(* the core's logs, that the recorder follows its setting and keeps the    *)
(* newest lines, for any limits and any number of goroutines.              *)
(***************************************************************************)
EXTENDS ManagerControl, LogRecorder, FiniteSetTheorems, TLAPS

(* Where a handler is *)

Starting  == {"start_generate", "start_setup", "start_core", "start_undo",
                 "start_wait", "start_stop"}
Stopping   == {"stop_look", "stop_core", "stop_restore", "stop_wait"}
Decided      == {"commit", "generate", "look_again", "setup", "reload", "restore",
                 "readback", "report"}
Generated    == {"look_again", "setup", "reload", "restore", "readback", "report"}
GoingBack    == {"back_commit", "back_generate", "back_reload", "back_rules"}

\* Steps before any setting has changed, and after all of them agree again.
Settled      == {"idle", "look", "commit", "back_rules"} \cup Starting \cup Stopping

\* The handler of each step; TUN and port requests ask for another value of the
\* one setting they are about.
Whose ==
  /\ pc \in Starting => kind = "start"
  /\ pc \in Stopping => kind = "stop"
  /\ pc \in {"look"} \cup Decided \cup GoingBack =>
       \/ kind = "tun"  /\ want.tun # before.tun /\ want.port = before.port
       \/ kind = "port" /\ want.port # before.port /\ want.tun = before.tun
  /\ pc \in {"look_again", "setup", "restore", "back_rules"} => kind = "tun"
  /\ pc = "setup" => want.tun
  /\ pc \in {"setup", "reload", "readback"} => up
  /\ pc = "restore" => ~want.tun

\* A change is committed, then generated; a stop removes the rules before its last look.
Progress ==
  /\ pc \in {"generate"} \cup Generated => cfg = want
  /\ pc \in Generated => gen = want
  /\ pc = "stop_wait" => rules = "none"

RunsWanted == IF kind = "tun" THEN run.tun = want.tun ELSE run.port = want.port

\* Unless misled, a handler that does not reload the core has a reason: it is stopped;
\* and it reports a core that runs with what was asked for.
NotMisled ==
  ~blind =>
    /\ pc \in Decided \cup GoingBack /\ ~up => core = "inactive"
    /\ pc = "report" /\ core = "active" => RunsWanted

Answered == TypeOK /\ Whose /\ Progress /\ NotMisled /\ OkAnswerHolds

-----------------------------------------------------------------------------
(* A single failure *)

Single == nf <= 1 /\ ~blind

Agree == cfg = gen /\ (core = "active" => run = gen)

\* Without a failure the core stays as it was seen.
UndisturbedCore ==
  nf = 0 =>
    /\ seen = {}
    /\ core # "restarting"
    /\ pc = "start_wait" => core = "active"
    /\ pc \in Decided \ {"report"} /\ up => core = "active"

\* The three copies of the settings at each step.
CopiesInStep ==
  Single =>
    /\ pc \in Settled => Agree
    /\ pc \in {"look", "commit"} => cfg = before
    /\ pc = "generate" => gen = before
    /\ pc \in {"generate"} \cup Generated /\ core = "active" => run \in {before, want}

\* Without a failure a reload does what it should.
Undisturbed ==
  Single /\ nf = 0 /\ core = "active" =>
    /\ pc \in {"generate", "look_again", "setup", "reload"} => run = before
    /\ pc \in {"restore", "readback"} => run = want

\* It takes the failure to go back, and there is none left to disturb that.
BackOnce ==
  Single =>
    /\ pc \in GoingBack => nf = 1
    /\ pc \in {"back_generate", "back_reload"} => cfg = before
    /\ pc \in {"back_reload", "back_rules"} => gen = before

SingleInv == UndisturbedCore /\ CopiesInStep /\ Undisturbed /\ BackOnce

\* A handler can be misled only when something has failed.
MisledByFailure == blind \/ core = "restarting" => nf >= 1

\* Misled or not, a handler generates what it has committed.
GeneratedInStep ==
  nf <= 1 /\ pc \notin {"generate", "back_commit", "back_generate"} => cfg = gen

CommitInv == MisledByFailure /\ GeneratedInStep

-----------------------------------------------------------------------------
(* The rules after a single failure *)

Harmless == Single /\ seen \cap {"restore", "readback", "apply", "start", "crash"} = {}

\* The rules a handler is about to rely on.
RulesInStep ==
  Harmless =>
    /\ core # "restarting"
    /\ pc = "start_core" /\ cfg.tun => rules = "full"
    /\ pc = "start_wait" => core = "active"
    /\ pc = "start_stop" => nf = 1
    /\ pc \in {"start_undo", "stop_restore", "stop_wait"} => core = "inactive"
    /\ pc \in Decided /\ up => core = "active"
    /\ pc = "reload" /\ want.tun => rules = "full"
    /\ pc \in (Decided \ {"readback", "report"}) \cup GoingBack /\ core = "active" /\ before.tun
         => rules = "full"
    /\ pc \in {"restore", "readback"} /\ core = "active" => run = want
    /\ pc = "readback" => core = "active"

IInv == Answered /\ SingleInv /\ RulesInStep /\ SingleFailureProtects

-----------------------------------------------------------------------------
(* Types *)

LEMMA InitType == Init => TypeOK
  <1> SUFFICES ASSUME Init PROVE TypeOK
    OBVIOUS
  <1>1. cfg \in Settings /\ gen = cfg /\ run = cfg /\ before = cfg /\ want = cfg
    BY DEF Init
  <1>2. nf \in 0 .. MaxFaults
    BY ManagerConstantsOK DEF Init
  <1>3. pc \in PCs /\ up \in BOOLEAN /\ blind \in BOOLEAN
    BY DEF Init, PCs
  <1> QED
    BY <1>1, <1>2, <1>3 DEF Init, TypeOK

\* What a failure does to the history.
LEMMA HistoryType ==
  ASSUME TypeOK,
         NoFault \/ (\E k \in FaultKinds : Fault(k)) \/ (\E o \in Observations : Observe(o))
  PROVE  seen' \subseteq Faults /\ nf' \in 0 .. MaxFaults /\ blind' \in BOOLEAN
  <1> USE ManagerConstantsOK DEF TypeOK, NoFault, Fault, CountFault, hist
  <1>1. CASE NoFault \/ \E k \in FaultKinds : Fault(k)
    BY <1>1
  <1>2. CASE \E o \in Observations : Observe(o)
    <2> PICK o \in Observations : Observe(o)
      BY <1>2
    <2>1. o = "true" => UNCHANGED <<seen, nf>> /\ blind' = (blind \/ core = "restarting")
      BY DEF Observe
    <2>2. o = "query" => CountFault("query") /\ blind' = (blind \/ core # "inactive")
      BY DEF Observe
    <2>3. o = "unhealthy" => CountFault("unhealthy") /\ blind' = TRUE
      BY DEF Observe
    <2>4. blind' \in BOOLEAN
      BY <2>1, <2>2, <2>3, Zenon DEF Observations
    <2> QED
      BY <2>1, <2>2, <2>3, <2>4 DEF Observations
  <1> QED
    BY <1>1, <1>2

\* Every step takes note of a failure, or of nothing.
LEMMA StepHistory ==
  ASSUME [Next]_vars
  PROVE  NoFault \/ (\E k \in FaultKinds : Fault(k)) \/ (\E o \in Observations : Observe(o))
  <1> USE DEF Try, FaultKinds
  <1>1. CASE Requests
    BY <1>1 DEF Requests, RequestStart, RequestStop, Request, NoFault, hist, RequestTUN,
      RequestPort, RequestAnswered
  <1>2. CASE \E ok \in BOOLEAN : StartSteps(ok)
    BY <1>2 DEF StartSteps, StartGenerate, GenerateMihomoConfig, NoFault, hist, StartSetup,
      SetupTUNRouting, SetupWorks, StartCore, StartUndo, RestoreTUNRouting, StartStop
  <1>3. CASE \E ok \in BOOLEAN : StopSteps(ok)
    BY <1>3 DEF StopSteps, StopCore, NoFault, hist, StopRestore, RestoreTUNRouting
  <1>4. CASE \E ok \in BOOLEAN : ChangeSteps(ok)
    BY <1>4 DEF ChangeSteps, Commit, NoFault, hist, Generate, GenerateMihomoConfig, Setup,
      SetupTUNRouting, SetupWorks, Reload, ReloadConfigs, Restore, RestoreTUNRouting, BackCommit,
      BackGenerate, BackReload, BackRules
  <1>5. CASE Looks
    BY <1>5 DEF Looks, StopLook, NoFault, hist, StopSeen, Look, LookAgain, Report
  <1>6. CASE StartSeen \/ StartTimeout \/ StopTimeout \/ ReadbackOk \/ ReadbackTimeout
    BY <1>6 DEF StartSeen, StartTimeout, NoFault, hist, StopTimeout, ReadbackOk, ReadbackTimeout
  <1>7. CASE Crash \/ AutoRestart
    BY <1>7 DEF Crash, AutoRestart, NoFault, hist
  <1>8. CASE UNCHANGED vars
    BY <1>8 DEF vars, NoFault, hist
  <1> QED
    BY <1>1, <1>2, <1>3, <1>4, <1>5, <1>6, <1>7, <1>8 DEF Next, Step

\* A setting is only ever copied, or changed by a request.
LEMMA StepSettings ==
  ASSUME TypeOK, [Next]_vars PROVE {cfg, gen, run, before, want}' \subseteq Settings
  <1> SUFFICES {cfg', gen', run', before', want'} \subseteq Settings
    OBVIOUS
  <1> USE DEF TypeOK, settings, handler, Goto
  <1>1. CASE Requests
    <2>1. CASE RequestStart \/ RequestStop
      BY <2>1 DEF RequestStart, RequestStop, Request
    <2>2. CASE \E on \in BOOLEAN : RequestTUN(on)
      <3> PICK on \in BOOLEAN : RequestTUN(on)
        BY <2>2
      <3>1. [cfg EXCEPT !.tun = on] \in Settings
        BY DEF Settings
      <3> QED
        BY <3>1 DEF RequestTUN, Request
    <2>3. CASE \E p \in Ports : RequestPort(p)
      <3> PICK p \in Ports : RequestPort(p)
        BY <2>3
      <3>1. [cfg EXCEPT !.port = p] \in Settings
        BY DEF Settings
      <3> QED
        BY <3>1 DEF RequestPort, Request
    <2>4. CASE \E r \in {"same", "error"} : RequestAnswered(r)
      BY <2>4 DEF RequestAnswered
    <2> QED
      BY <1>1, <2>1, <2>2, <2>3, <2>4 DEF Requests
  <1>2. CASE \E ok \in BOOLEAN : StartSteps(ok)
    BY <1>2 DEF StartSteps, StartGenerate, GenerateMihomoConfig, Answer, StartSetup, StartCore,
      StartUndo, StartStop
  <1>3. CASE \E ok \in BOOLEAN : StopSteps(ok)
    BY <1>3 DEF StopSteps, StopCore, Answer, StopRestore
  <1>4. CASE \E ok \in BOOLEAN : ChangeSteps(ok)
    BY <1>4 DEF ChangeSteps, Commit, Answer, Generate, GenerateMihomoConfig, Rollback, Setup,
      Reload, ReloadConfigs, Restore, BackCommit, BackGenerate, BackReload, BackRules
  <1>5. CASE Looks
    BY <1>5 DEF Looks, StopLook, StopSeen, Answer, Look, LookAgain, Report, Rollback
  <1>6. CASE StartSeen \/ StartTimeout \/ StopTimeout \/ ReadbackOk \/ ReadbackTimeout
    BY <1>6 DEF StartSeen, StartTimeout, Answer, StopTimeout, ReadbackOk, ReadbackTimeout, Rollback
  <1>7. CASE Crash \/ AutoRestart
    BY <1>7 DEF Crash, AutoRestart
  <1>8. CASE UNCHANGED vars
    BY <1>8 DEF vars
  <1> QED
    BY <1>1, <1>2, <1>3, <1>4, <1>5, <1>6, <1>7, <1>8 DEF Next, Step

LEMMA StepPlace ==
  ASSUME TypeOK, [Next]_vars
  PROVE  pc' \in PCs /\ kind' \in {"none", "start", "stop", "tun", "port"}
  <1> USE DEF TypeOK, handler, PCs
  <1>1. CASE Requests
    BY <1>1 DEF Requests, RequestStart, RequestStop, Request, Goto, RequestTUN, RequestPort,
      RequestAnswered
  <1>2. CASE \E ok \in BOOLEAN : StartSteps(ok)
    BY <1>2 DEF StartSteps, StartGenerate, Answer, Goto, StartSetup, StartCore, StartUndo, StartStop
  <1>3. CASE \E ok \in BOOLEAN : StopSteps(ok)
    BY <1>3 DEF StopSteps, StopCore, Answer, Goto, StopRestore
  <1>4. CASE \E ok \in BOOLEAN : ChangeSteps(ok)
    BY <1>4 DEF ChangeSteps, Commit, Answer, Goto, Generate, Rollback, Setup, Reload, Restore,
      BackCommit, BackGenerate, BackReload, BackRules
  <1>5. CASE Looks
    BY <1>5 DEF Looks, StopLook, Goto, StopSeen, Answer, Look, LookAgain, Report, Rollback
  <1>6. CASE StartSeen \/ StartTimeout \/ StopTimeout \/ ReadbackOk \/ ReadbackTimeout
    BY <1>6 DEF StartSeen, StartTimeout, Answer, Goto, StopTimeout, ReadbackOk, ReadbackTimeout,
      Rollback
  <1>7. CASE Crash \/ AutoRestart
    BY <1>7 DEF Crash, AutoRestart, Goto
  <1>8. CASE UNCHANGED vars
    BY <1>8 DEF vars, Goto
  <1> QED
    BY <1>1, <1>2, <1>3, <1>4, <1>5, <1>6, <1>7, <1>8 DEF Next, Step

LEMMA StepUnit ==
  ASSUME TypeOK, [Next]_vars
  PROVE  /\ core' \in {"inactive", "active", "restarting"}
         /\ rules' \in {"none", "part", "full"}
         /\ reply' \in {"none", "ok", "same", "error"}
  <1> USE DEF TypeOK, handler
  <1>1. CASE Requests
    BY <1>1 DEF Requests, RequestStart, RequestStop, Request, Goto, RequestTUN, RequestPort,
      RequestAnswered
  <1>2. CASE \E ok \in BOOLEAN : StartSteps(ok)
    BY <1>2 DEF StartSteps, StartGenerate, Answer, Goto, StartSetup, SetupTUNRouting, StartCore,
      StartUndo, RestoreTUNRouting, StartStop
  <1>3. CASE \E ok \in BOOLEAN : StopSteps(ok)
    BY <1>3 DEF StopSteps, StopCore, Answer, Goto, StopRestore, RestoreTUNRouting
  <1>4. CASE \E ok \in BOOLEAN : ChangeSteps(ok)
    BY <1>4 DEF ChangeSteps, Commit, Answer, Goto, Generate, Rollback, Setup, SetupTUNRouting,
      Reload, Restore, RestoreTUNRouting, BackCommit, BackGenerate, BackReload, BackRules
  <1>5. CASE Looks
    BY <1>5 DEF Looks, StopLook, Goto, StopSeen, Answer, Look, LookAgain, Report, Rollback
  <1>6. CASE StartSeen \/ StartTimeout \/ StopTimeout \/ ReadbackOk \/ ReadbackTimeout
    BY <1>6 DEF StartSeen, StartTimeout, Answer, Goto, StopTimeout, ReadbackOk, ReadbackTimeout,
      Rollback
  <1>7. CASE Crash \/ AutoRestart
    BY <1>7 DEF Crash, AutoRestart, Goto
  <1>8. CASE UNCHANGED vars
    BY <1>8 DEF vars, Goto
  <1> QED
    BY <1>1, <1>2, <1>3, <1>4, <1>5, <1>6, <1>7, <1>8 DEF Next, Step

LEMMA StepUp == ASSUME TypeOK, [Next]_vars PROVE up' \in BOOLEAN
  <1> USE DEF TypeOK, handler
  <1>0. \A o \in Observations : Running(o) \in BOOLEAN
    BY DEF Running
  <1>1. CASE Requests
    BY <1>1 DEF Requests, RequestStart, RequestStop, Request, Goto, RequestTUN, RequestPort,
      RequestAnswered
  <1>2. CASE \E ok \in BOOLEAN : StartSteps(ok)
    BY <1>2 DEF StartSteps, StartGenerate, Answer, Goto, StartSetup, StartCore, StartUndo, StartStop
  <1>3. CASE \E ok \in BOOLEAN : StopSteps(ok)
    BY <1>3 DEF StopSteps, StopCore, Answer, Goto, StopRestore
  <1>4. CASE \E ok \in BOOLEAN : ChangeSteps(ok)
    BY <1>4 DEF ChangeSteps, Commit, Answer, Goto, Generate, Rollback, Setup, Reload, Restore,
      BackCommit, BackGenerate, BackReload, BackRules
  <1>5. CASE Looks
    <2>1. CASE \E o \in Observations : StopLook(o)
      BY <2>1 DEF StopLook, Goto
    <2>2. CASE \E o \in Observations : StopSeen(o)
      BY <2>2 DEF StopSeen, Answer, Goto
    <2>3. CASE \E o \in Observations : Look(o)
      <3> PICK o \in Observations : Look(o)
        BY <2>3
      <3>1. up' = up \/ up' = Running(o)
        BY DEF Look, Answer
      <3> QED
        BY <1>0, <3>1
    <2>4. CASE \E o \in Observations : LookAgain(o)
      BY <1>0, <2>4 DEF LookAgain
    <2>5. CASE \E o \in Observations : Report(o)
      BY <2>5 DEF Report, Rollback, Answer, Goto
    <2> QED
      BY <1>5, <2>1, <2>2, <2>3, <2>4, <2>5 DEF Looks
  <1>6. CASE StartSeen \/ StartTimeout \/ StopTimeout \/ ReadbackOk \/ ReadbackTimeout
    BY <1>6 DEF StartSeen, StartTimeout, Answer, Goto, StopTimeout, ReadbackOk, ReadbackTimeout,
      Rollback
  <1>7. CASE Crash \/ AutoRestart
    BY <1>7 DEF Crash, AutoRestart, Goto
  <1>8. CASE UNCHANGED vars
    BY <1>8 DEF vars, Goto
  <1> QED
    BY <1>1, <1>2, <1>3, <1>4, <1>5, <1>6, <1>7, <1>8 DEF Next, Step

LEMMA StepType == TypeOK /\ [Next]_vars => TypeOK'
  <1> SUFFICES ASSUME TypeOK, [Next]_vars PROVE TypeOK'
    OBVIOUS
  <1>1. seen' \subseteq Faults /\ nf' \in 0 .. MaxFaults /\ blind' \in BOOLEAN
    BY StepHistory, HistoryType
  <1> QED
    BY <1>1, StepSettings, StepPlace, StepUnit, StepUp DEF TypeOK

\* The variables hold what they should, whatever fails.
THEOREM TypeCorrect == Spec => []TypeOK
  BY InitType, StepType, PTL DEF Spec

-----------------------------------------------------------------------------
(* What an answer says *)

LEMMA StepWhose == TypeOK /\ Whose /\ [Next]_vars => Whose'
  <1> SUFFICES ASSUME TypeOK, Whose, [Next]_vars PROVE Whose'
    OBVIOUS
  <1> USE DEF Whose, Starting, Stopping, Decided, GoingBack, handler
  <1>1. CASE Requests
    <2>1. CASE RequestStart \/ RequestStop
      BY <2>1 DEF RequestStart, RequestStop, Request, Goto
    <2>2. CASE \E on \in BOOLEAN : RequestTUN(on)
      BY <2>2 DEF RequestTUN, Request, Goto
    <2>3. CASE \E p \in Ports : RequestPort(p)
      BY <2>3 DEF RequestPort, Request, Goto
    <2>4. CASE \E r \in {"same", "error"} : RequestAnswered(r)
      BY <2>4 DEF RequestAnswered, Goto
    <2> QED
      BY <1>1, <2>1, <2>2, <2>3, <2>4 DEF Requests
  <1>2. CASE \E ok \in BOOLEAN : StartSteps(ok)
    BY <1>2 DEF StartSteps, StartGenerate, Answer, Goto, StartSetup, StartCore, StartUndo, StartStop
  <1>3. CASE \E ok \in BOOLEAN : StopSteps(ok)
    BY <1>3 DEF StopSteps, StopCore, tunCleanupNeeded, Answer, Goto, StopRestore
  <1>4. CASE \E ok \in BOOLEAN : ChangeSteps(ok)
    <2>1. CASE \E ok \in BOOLEAN : Commit(ok)
      BY <2>1 DEF Commit, Answer, Goto
    <2>2. CASE \E ok \in BOOLEAN : Generate(ok)
      BY <2>2 DEF Generate, Rollback, Goto
    <2>3. CASE \E ok \in BOOLEAN : Setup(ok)
      BY <2>3 DEF Setup, Rollback, Goto
    <2>4. CASE \E ok \in BOOLEAN : Reload(ok)
      <3>1. /\ pc = "reload" /\ pc' \in {"back_commit", "restore", "readback"}
            /\ pc' = "restore" => kind = "tun" /\ ~want.tun
            /\ UNCHANGED handler
        BY <2>4 DEF Reload, Rollback, Goto
      <3> QED
        BY <3>1
    <2>5. CASE \E ok \in BOOLEAN : Restore(ok)
      BY <2>5 DEF Restore, Rollback, Goto
    <2>6. CASE \E ok \in BOOLEAN : BackCommit(ok)
      BY <2>6 DEF BackCommit, Goto
    <2>7. CASE \E ok \in BOOLEAN : BackGenerate(ok)
      BY <2>7 DEF BackGenerate, Answer, Goto
    <2>8. CASE \E ok \in BOOLEAN : BackReload(ok)
      BY <2>8 DEF BackReload, Answer, Goto
    <2>9. CASE \E ok \in BOOLEAN : BackRules(ok)
      BY <2>9 DEF BackRules, Answer, Goto
    <2> QED
      BY <1>4, <2>1, <2>2, <2>3, <2>4, <2>5, <2>6, <2>7, <2>8, <2>9 DEF ChangeSteps
  <1>5. CASE Looks
    BY <1>5 DEF Looks, StopLook, tunCleanupNeeded, Goto, StopSeen, Answer, Look, LookAgain, Report,
      Rollback
  <1>6. CASE StartSeen \/ StartTimeout \/ StopTimeout \/ ReadbackOk \/ ReadbackTimeout
    BY <1>6 DEF StartSeen, StartTimeout, Answer, Goto, StopTimeout, ReadbackOk, ReadbackTimeout,
      Matches, Rollback
  <1>7. CASE Crash \/ AutoRestart
    BY <1>7 DEF Crash, AutoRestart, Goto
  <1>8. CASE UNCHANGED vars
    BY <1>8 DEF vars, Goto
  <1> QED
    BY <1>1, <1>2, <1>3, <1>4, <1>5, <1>6, <1>7, <1>8 DEF Next, Step

LEMMA StepProgress == Progress /\ [Next]_vars => Progress'
  <1> SUFFICES ASSUME Progress, [Next]_vars PROVE Progress'
    OBVIOUS
  <1> USE DEF Progress, Generated, settings, handler
  <1>1. CASE Requests
    BY <1>1 DEF Requests, RequestStart, RequestStop, Request, Goto, RequestTUN, RequestPort,
      RequestAnswered
  <1>2. CASE \E ok \in BOOLEAN : StartSteps(ok)
    BY <1>2 DEF StartSteps, StartGenerate, GenerateMihomoConfig, Answer, Goto, StartSetup,
      SetupTUNRouting, SetupWorks, StartCore, StartUndo, RestoreTUNRouting, StartStop
  <1>3. CASE \E ok \in BOOLEAN : StopSteps(ok)
    BY <1>3 DEF StopSteps, StopCore, tunCleanupNeeded, Answer, Goto, StopRestore, RestoreTUNRouting
  <1>4. CASE \E ok \in BOOLEAN : ChangeSteps(ok)
    BY <1>4 DEF ChangeSteps, Commit, Answer, Goto, Generate, GenerateMihomoConfig, Rollback, Setup,
      SetupTUNRouting, SetupWorks, Reload, ReloadConfigs, Restore, RestoreTUNRouting, BackCommit,
      BackGenerate, BackReload, BackRules
  <1>5. CASE Looks
    BY <1>5 DEF Looks, StopLook, tunCleanupNeeded, Goto, StopSeen, Answer, Look, LookAgain, Report,
      Rollback
  <1>6. CASE StartSeen \/ StartTimeout \/ StopTimeout \/ ReadbackOk \/ ReadbackTimeout
    BY <1>6 DEF StartSeen, StartTimeout, Answer, Goto, StopTimeout, ReadbackOk, ReadbackTimeout,
      Matches, Rollback
  <1>7. CASE Crash \/ AutoRestart
    BY <1>7 DEF Crash, AutoRestart, Goto
  <1>8. CASE UNCHANGED vars
    BY <1>8 DEF vars, Goto
  <1> QED
    BY <1>1, <1>2, <1>3, <1>4, <1>5, <1>6, <1>7, <1>8 DEF Next, Step

\* An error stays noticed.
LEMMA BlindStays == ASSUME [Next]_vars, blind PROVE blind'
  <1>1. CASE NoFault \/ \E k \in FaultKinds : Fault(k)
    BY <1>1 DEF NoFault, hist, Fault
  <1>2. CASE \E o \in Observations : Observe(o)
    BY <1>2 DEF Observations, Observe
  <1> QED
    BY <1>1, <1>2, StepHistory

\* A handler that is not misled sees the core as it is.
LEMMA TrueSight ==
  ASSUME TypeOK, ~blind, ~blind', NEW o \in Observations, Observe(o)
  PROVE  /\ o # "unhealthy"
         /\ Running(o) <=> core = "active"
         /\ ~Running(o) => core = "inactive"
         /\ ServiceActive(o) <=> core = "active"
  BY DEF TypeOK, Observations, Observe, Running, ServiceActive

LEMMA StepNotMisled == Answered /\ [Next]_vars => NotMisled'
  <1> SUFFICES ASSUME TypeOK, Whose, Progress, NotMisled, [Next]_vars, ~blind, ~blind'
               PROVE  NotMisled'
    BY BlindStays DEF Answered, NotMisled
  <1> USE DEF TypeOK, Whose, Progress, NotMisled, RunsWanted, Decided, Generated, GoingBack, settings, handler
  <1>1. CASE Requests
    BY <1>1 DEF Requests, RequestStart, RequestStop, Request, Goto, RequestTUN, RequestPort,
      RequestAnswered
  <1>2. CASE \E ok \in BOOLEAN : StartSteps(ok)
    BY <1>2 DEF StartSteps, StartGenerate, GenerateMihomoConfig, Answer, Goto, StartSetup,
      StartCore, StartUndo, StartStop
  <1>3. CASE \E ok \in BOOLEAN : StopSteps(ok)
    BY <1>3 DEF StopSteps, StopCore, tunCleanupNeeded, Answer, Goto, StopRestore
  <1>4. CASE \E ok \in BOOLEAN : ChangeSteps(ok)
    BY <1>4 DEF ChangeSteps, Commit, Answer, Goto, Generate, GenerateMihomoConfig, Rollback, Setup,
      Reload, ReloadConfigs, Restore, BackCommit, BackGenerate, BackReload, BackRules
  <1>5. CASE Looks
    <2>1. CASE \E o \in Observations : StopLook(o)
      BY <2>1 DEF StopLook, tunCleanupNeeded, Goto
    <2>2. CASE \E o \in Observations : StopSeen(o)
      BY <2>2 DEF StopSeen, Answer, Goto
    <2>3. CASE \E o \in Observations : Look(o)
      <3> PICK o \in Observations : Look(o)
        BY <2>3
      <3>1. /\ Running(o) <=> core = "active"
            /\ ~Running(o) => core = "inactive"
        BY TrueSight DEF Look
      <3> QED
        BY <3>1 DEF Look, Answer, ServiceActive
    <2>4. CASE \E o \in Observations : LookAgain(o)
      <3> PICK o \in Observations : LookAgain(o)
        BY <2>4
      <3>1. /\ Running(o) <=> core = "active"
            /\ ~Running(o) => core = "inactive"
        BY TrueSight DEF LookAgain
      <3> QED
        BY <3>1 DEF LookAgain, tunCleanupNeeded
    <2>5. CASE \E o \in Observations : Report(o)
      BY <2>5 DEF Report, Rollback, Answer, Goto
    <2> QED
      BY <1>5, <2>1, <2>2, <2>3, <2>4, <2>5 DEF Looks
  <1>6. CASE StartSeen \/ StartTimeout \/ StopTimeout \/ ReadbackOk \/ ReadbackTimeout
    BY <1>6 DEF StartSeen, StartTimeout, Answer, Goto, StopTimeout, ReadbackOk, ReadbackTimeout,
      Matches, Rollback
  <1>7. CASE Crash \/ AutoRestart
    BY <1>7 DEF Crash, AutoRestart, Goto
  <1>8. CASE UNCHANGED vars
    BY <1>8 DEF vars, Goto
  <1> QED
    BY <1>1, <1>2, <1>3, <1>4, <1>5, <1>6, <1>7, <1>8 DEF Next, Step

LEMMA StepOkAnswer == Answered /\ [Next]_vars => OkAnswerHolds'
  <1> SUFFICES ASSUME Answered, [Next]_vars, ~blind, ~blind', pc' = "idle", reply' = "ok"
               PROVE  OkAnswerHolds'
    BY BlindStays DEF OkAnswerHolds
  <1> USE DEF Answered, TypeOK, Whose, Progress, NotMisled, OkAnswerHolds, RunsWanted, Decided, Generated,
              GoingBack, Starting, Stopping, settings, handler
  <1>1. CASE Requests
    BY <1>1 DEF Requests, RequestStart, RequestStop, Request, Goto, RequestTUN, RequestPort,
      RequestAnswered
  <1>2. CASE \E ok \in BOOLEAN : StartSteps(ok)
    BY <1>2 DEF StartSteps, StartGenerate, GenerateMihomoConfig, Answer, Goto, StartSetup,
      StartCore, StartUndo, StartStop
  <1>3. CASE \E ok \in BOOLEAN : StopSteps(ok)
    BY <1>3 DEF StopSteps, StopCore, tunCleanupNeeded, Answer, Goto, StopRestore
  <1>4. CASE \E ok \in BOOLEAN : ChangeSteps(ok)
    BY <1>4 DEF ChangeSteps, Commit, Answer, Goto, Generate, GenerateMihomoConfig, Rollback, Setup,
      Reload, ReloadConfigs, Restore, BackCommit, BackGenerate, BackReload, BackRules
  <1>5. CASE Looks
    <2>1. CASE \E o \in Observations : StopLook(o)
      BY <2>1 DEF StopLook, tunCleanupNeeded, Goto
    <2>2. CASE \E o \in Observations : StopSeen(o)
      <3> PICK o \in Observations : StopSeen(o)
        BY <2>2
      <3>1. core = "inactive"
        BY TrueSight DEF StopSeen
      <3> QED
        BY <3>1 DEF StopSeen, Answer
    <2>3. CASE \E o \in Observations : Look(o)
      BY <2>3 DEF Look, Answer, Goto
    <2>4. CASE \E o \in Observations : LookAgain(o)
      BY <2>4 DEF LookAgain, tunCleanupNeeded, Goto
    <2>5. CASE \E o \in Observations : Report(o)
      BY <2>5 DEF Report, Rollback, Answer, Goto
    <2> QED
      BY <1>5, <2>1, <2>2, <2>3, <2>4, <2>5 DEF Looks
  <1>6. CASE StartSeen \/ StartTimeout \/ StopTimeout \/ ReadbackOk \/ ReadbackTimeout
    BY <1>6 DEF StartSeen, StartTimeout, Answer, Goto, StopTimeout, ReadbackOk, ReadbackTimeout,
      Matches, Rollback
  <1>7. CASE Crash \/ AutoRestart
    BY <1>7 DEF Crash, AutoRestart, Goto
  <1>8. CASE UNCHANGED vars
    BY <1>8 DEF vars, Goto
  <1> QED
    BY <1>1, <1>2, <1>3, <1>4, <1>5, <1>6, <1>7, <1>8 DEF Next, Step

LEMMA InitAnswered == Init => Answered
  BY InitType
  DEF Init, Answered, Whose, Progress, NotMisled, OkAnswerHolds, Starting, Stopping, Decided,
      Generated, GoingBack

LEMMA StepAnswered == Answered /\ [Next]_vars => Answered'
  BY StepType, StepWhose, StepProgress, StepNotMisled, StepOkAnswer DEF Answered

\* An answer "200" tells the truth whatever has failed on the way, unless the handler
\* was misled about the core being up.
THEOREM OkAnswerIsTrue == Spec => []OkAnswerHolds
  <1>1. Answered => OkAnswerHolds
    BY DEF Answered
  <1> QED
    BY <1>1, InitAnswered, StepAnswered, PTL DEF Spec

-----------------------------------------------------------------------------
(* One failure at most *)

\* Failures are counted, and none is forgotten.
LEMMA FailuresCounted ==
  ASSUME TypeOK, [Next]_vars
  PROVE  /\ \/ nf' = nf /\ seen' = seen
            \/ nf' = nf + 1 /\ \E k \in FaultKinds : seen' = seen \cup {k}
         /\ ~blind' => ~blind
  <1> USE DEF TypeOK, NoFault, Fault, CountFault, hist, FaultKinds
  <1>0. nf \in Nat
    BY ManagerConstantsOK
  <1>B. ~blind' => ~blind
    BY BlindStays
  <1>1. CASE NoFault
    BY <1>1, <1>B
  <1>2. CASE \E k \in FaultKinds : Fault(k)
    BY <1>2, <1>B
  <1>3. CASE \E o \in Observations : Observe(o)
    <2> PICK o \in Observations : Observe(o)
      BY <1>3
    <2>1. UNCHANGED <<seen, nf>> \/ \E k \in FaultKinds : CountFault(k)
      BY DEF Observations, Observe
    <2> QED
      BY <2>1, <1>B
  <1> QED
    BY <1>1, <1>2, <1>3, StepHistory

\* A look that counts no failure is a true one.
LEMMA QuietLook ==
  ASSUME TypeOK, NEW o \in Observations, Observe(o), nf' = nf
  PROVE  o = "true" /\ seen' = seen
  <1> USE ManagerConstantsOK DEF TypeOK, Observations, Observe, CountFault
  <1>1. nf \in Nat /\ nf' # nf + 1
    OBVIOUS
  <1>2. o # "query" /\ o # "unhealthy"
    BY <1>1
  <1> QED
    BY <1>2

LEMMA SingleStays == ASSUME TypeOK, [Next]_vars, Single' PROVE Single
  BY FailuresCounted DEF Single, TypeOK

LEMMA StepUndisturbedCore == Answered /\ UndisturbedCore /\ [Next]_vars => UndisturbedCore'
  <1> SUFFICES ASSUME Answered, UndisturbedCore, [Next]_vars, nf' = 0, nf = 0
               PROVE  UndisturbedCore'
    BY FailuresCounted DEF UndisturbedCore, Answered, TypeOK
  <1> USE DEF UndisturbedCore, Answered, TypeOK, Whose, Decided, handler, NoFault, Fault, CountFault, hist
  <1>1. CASE Requests
    BY <1>1 DEF Requests, RequestStart, RequestStop, Request, Goto, RequestTUN, RequestPort,
      RequestAnswered
  <1>2. CASE \E ok \in BOOLEAN : StartSteps(ok)
    BY <1>2 DEF StartSteps, StartGenerate, GenerateMihomoConfig, Try, Answer, Goto, StartSetup,
      SetupTUNRouting, SetupWorks, StartCore, StartUndo, RestoreTUNRouting, StartStop
  <1>3. CASE \E ok \in BOOLEAN : StopSteps(ok)
    BY <1>3 DEF StopSteps, StopCore, tunCleanupNeeded, Try, Answer, Goto, StopRestore,
      RestoreTUNRouting
  <1>4. CASE \E ok \in BOOLEAN : ChangeSteps(ok)
    BY <1>4 DEF ChangeSteps, Commit, Try, Answer, Goto, Generate, GenerateMihomoConfig, Rollback,
      Setup, SetupTUNRouting, SetupWorks, Reload, ReloadConfigs, Restore, RestoreTUNRouting,
      BackCommit, BackGenerate, BackReload, BackRules
  <1>5. CASE Looks
    <2>1. CASE \E o \in Observations : StopLook(o)
      <3> PICK o \in Observations : StopLook(o)
        BY <2>1
      <3>1. o = "true" /\ seen' = seen
        BY QuietLook DEF StopLook
      <3> QED
        BY <3>1 DEF StopLook, tunCleanupNeeded, Running, ServiceActive, Goto
    <2>2. CASE \E o \in Observations : StopSeen(o)
      <3> PICK o \in Observations : StopSeen(o)
        BY <2>2
      <3>1. o = "true" /\ seen' = seen
        BY QuietLook DEF StopSeen
      <3> QED
        BY <3>1 DEF StopSeen, Answer, Running, ServiceActive, Goto
    <2>3. CASE \E o \in Observations : Look(o)
      <3> PICK o \in Observations : Look(o)
        BY <2>3
      <3>1. o = "true" /\ seen' = seen
        BY QuietLook DEF Look
      <3> QED
        BY <3>1 DEF Look, Answer, Running, ServiceActive, Goto
    <2>4. CASE \E o \in Observations : LookAgain(o)
      <3> PICK o \in Observations : LookAgain(o)
        BY <2>4
      <3>1. o = "true" /\ seen' = seen
        BY QuietLook DEF LookAgain
      <3> QED
        BY <3>1 DEF LookAgain, tunCleanupNeeded, Running, ServiceActive, Goto
    <2>5. CASE \E o \in Observations : Report(o)
      <3> PICK o \in Observations : Report(o)
        BY <2>5
      <3>1. o = "true" /\ seen' = seen
        BY QuietLook DEF Report
      <3> QED
        BY <3>1 DEF Report, Rollback, Answer, Running, ServiceActive, Goto
    <2> QED
      BY <1>5, <2>1, <2>2, <2>3, <2>4, <2>5 DEF Looks
  <1>6. CASE StartSeen \/ StartTimeout \/ StopTimeout \/ ReadbackOk \/ ReadbackTimeout
    BY <1>6 DEF StartSeen, StartTimeout, Answer, Goto, StopTimeout, ReadbackOk, ReadbackTimeout,
      Matches, Rollback
  <1>7. CASE Crash \/ AutoRestart
    BY <1>7 DEF Crash, AutoRestart, Goto
  <1>8. CASE UNCHANGED vars
    BY <1>8 DEF vars, Goto
  <1> QED
    BY <1>1, <1>2, <1>3, <1>4, <1>5, <1>6, <1>7, <1>8 DEF Next, Step

LEMMA StepCopies == Answered /\ SingleInv /\ [Next]_vars => CopiesInStep'
  <1> SUFFICES ASSUME Answered, SingleInv, [Next]_vars, Single, Single'
               PROVE  CopiesInStep'
    BY SingleStays DEF CopiesInStep, Answered
  <1>0. /\ nf \in {0, 1} /\ nf' \in {0, 1}
        /\ nf' = nf \/ nf' = 1
        /\ ~blind /\ ~blind'
    BY FailuresCounted DEF Single, Answered, TypeOK
  <1>F. \A k : Fault(k) => nf = 0 /\ nf' = 1
    BY <1>0 DEF Fault, CountFault
  <1> USE DEF SingleInv, CopiesInStep, Undisturbed, UndisturbedCore, BackOnce, Agree,
              Answered, Whose, Progress, NotMisled, RunsWanted, settings, handler,
              Settled, Starting, Stopping, Decided, Generated, GoingBack
  <1>1. CASE Requests
    BY <1>1, <1>0 DEF Requests, RequestStart, RequestStop, Request, Goto, RequestTUN, RequestPort,
      RequestAnswered
  <1>2. CASE \E ok \in BOOLEAN : StartSteps(ok)
    BY <1>2, <1>0 DEF StartSteps, StartGenerate, GenerateMihomoConfig, Try, Answer, Goto,
      StartSetup, SetupWorks, StartCore, StartUndo, StartStop
  <1>3. CASE \E ok \in BOOLEAN : StopSteps(ok)
    BY <1>3, <1>0 DEF StopSteps, StopCore, tunCleanupNeeded, Try, Answer, Goto, StopRestore
  <1>4. CASE \E ok \in BOOLEAN : ChangeSteps(ok)
    BY <1>4, <1>0, <1>F DEF ChangeSteps, Commit, Try, Answer, Goto, Generate, GenerateMihomoConfig,
      Rollback, Setup, SetupWorks, Reload, ReloadConfigs, Restore, BackCommit, BackGenerate,
      BackReload, BackRules
  <1>5. CASE Looks
    <2>1. CASE \E o \in Observations : StopLook(o)
      <3> PICK o \in Observations : StopLook(o)
        BY <2>1
      <3>1. /\ o = "true" \/ nf' = 1
            /\ Running(o) <=> core = "active"
            /\ ~Running(o) => core = "inactive"
        BY TrueSight, QuietLook, <1>0 DEF StopLook
      <3> QED
        BY <3>1, <1>0 DEF StopLook, tunCleanupNeeded, ServiceActive, Goto
    <2>2. CASE \E o \in Observations : StopSeen(o)
      <3> PICK o \in Observations : StopSeen(o)
        BY <2>2
      <3>1. /\ o = "true" \/ nf' = 1
            /\ Running(o) <=> core = "active"
            /\ ~Running(o) => core = "inactive"
        BY TrueSight, QuietLook, <1>0 DEF StopSeen
      <3> QED
        BY <3>1, <1>0 DEF StopSeen, Answer, ServiceActive, Goto
    <2>3. CASE \E o \in Observations : Look(o)
      <3> PICK o \in Observations : Look(o)
        BY <2>3
      <3>1. /\ o = "true" \/ nf' = 1
            /\ Running(o) <=> core = "active"
            /\ ~Running(o) => core = "inactive"
        BY TrueSight, QuietLook, <1>0 DEF Look
      <3> QED
        BY <3>1, <1>0 DEF Look, Answer, ServiceActive, Goto
    <2>4. CASE \E o \in Observations : LookAgain(o)
      <3> PICK o \in Observations : LookAgain(o)
        BY <2>4
      <3>1. /\ o = "true" \/ nf' = 1
            /\ Running(o) <=> core = "active"
            /\ ~Running(o) => core = "inactive"
        BY TrueSight, QuietLook, <1>0 DEF LookAgain
      <3> QED
        BY <3>1, <1>0 DEF LookAgain, tunCleanupNeeded, ServiceActive, Goto
    <2>5. CASE \E o \in Observations : Report(o)
      <3> PICK o \in Observations : Report(o)
        BY <2>5
      <3>1. /\ o = "true" \/ nf' = 1
            /\ Running(o) <=> core = "active"
            /\ ~Running(o) => core = "inactive"
        BY TrueSight, QuietLook, <1>0 DEF Report
      <3> QED
        BY <3>1, <1>0 DEF Report, Rollback, Answer, ServiceActive, Goto
    <2> QED
      BY <1>5, <2>1, <2>2, <2>3, <2>4, <2>5 DEF Looks
  <1>6. CASE StartSeen \/ StartTimeout \/ StopTimeout \/ ReadbackOk \/ ReadbackTimeout
    BY <1>6, <1>0 DEF StartSeen, StartTimeout, Answer, Goto, StopTimeout, ReadbackOk,
      ReadbackTimeout, Matches, Rollback
  <1>7. CASE Crash \/ AutoRestart
    BY <1>7, <1>0 DEF Crash, AutoRestart, Goto
  <1>8. CASE UNCHANGED vars
    BY <1>8, <1>0 DEF vars, Goto
  <1> QED
    BY <1>1, <1>2, <1>3, <1>4, <1>5, <1>6, <1>7, <1>8 DEF Next, Step

LEMMA StepUndisturbed == Answered /\ SingleInv /\ [Next]_vars => Undisturbed'
  <1> SUFFICES ASSUME Answered, SingleInv, [Next]_vars, Single, Single'
               PROVE  Undisturbed'
    BY SingleStays DEF Undisturbed, Answered
  <1>0. /\ nf \in {0, 1} /\ nf' \in {0, 1}
        /\ nf' = nf \/ nf' = 1
        /\ ~blind /\ ~blind'
    BY FailuresCounted DEF Single, Answered, TypeOK
  <1>F. \A k : Fault(k) => nf = 0 /\ nf' = 1
    BY <1>0 DEF Fault, CountFault
  <1> USE DEF SingleInv, CopiesInStep, Undisturbed, UndisturbedCore, BackOnce, Agree,
              Answered, Whose, Progress, NotMisled, RunsWanted, settings, handler,
              Settled, Starting, Stopping, Decided, Generated, GoingBack
  <1>1. CASE Requests
    BY <1>1, <1>0, <1>F DEF Requests, RequestStart, RequestStop, Request, Goto, RequestTUN,
      RequestPort, RequestAnswered
  <1>2. CASE \E ok \in BOOLEAN : StartSteps(ok)
    BY <1>2, <1>0, <1>F DEF StartSteps, StartGenerate, GenerateMihomoConfig, Try, Answer, Goto,
      StartSetup, SetupWorks, StartCore, StartUndo, StartStop
  <1>3. CASE \E ok \in BOOLEAN : StopSteps(ok)
    BY <1>3, <1>0, <1>F DEF StopSteps, StopCore, tunCleanupNeeded, Try, Answer, Goto, StopRestore
  <1>4. CASE \E ok \in BOOLEAN : ChangeSteps(ok)
    <2>1. CASE \E ok \in BOOLEAN : Commit(ok)
      BY <2>1, <1>0, <1>F DEF Commit, Try, Answer, Goto
    <2>2. CASE \E ok \in BOOLEAN : Generate(ok)
      BY <2>2, <1>0, <1>F DEF Generate, GenerateMihomoConfig, Try, Rollback, Goto
    <2>3. CASE \E ok \in BOOLEAN : Setup(ok)
      BY <2>3, <1>0, <1>F DEF Setup, SetupWorks, Try, Rollback, Goto
    <2>4. CASE \E ok \in BOOLEAN : Reload(ok)
      <3> PICK ok \in BOOLEAN : Reload(ok)
        BY <2>4
      <3>1. CASE nf' = 0
        <4>1. pc = "reload" /\ core = "active" /\ nf = 0
          BY <3>1, <1>0 DEF Reload
        <4>2. ok /\ run' = gen
          BY <3>1, <4>1, <1>F DEF Reload, ReloadConfigs
        <4>3. pc' \in {"restore", "readback"}
          BY <4>2 DEF Reload, Goto
        <4> QED
          BY <4>1, <4>2, <4>3 DEF Reload, Goto
      <3>2. CASE nf' = 1
        BY <3>2
      <3> QED
        BY <3>1, <3>2, <1>0
    <2>5. CASE \E ok \in BOOLEAN : Restore(ok)
      BY <2>5, <1>0, <1>F DEF Restore, Try, Rollback, Goto
    <2>6. CASE \E ok \in BOOLEAN : BackCommit(ok)
      BY <2>6, <1>0, <1>F DEF BackCommit, Try, Goto
    <2>7. CASE \E ok \in BOOLEAN : BackGenerate(ok)
      BY <2>7, <1>0, <1>F DEF BackGenerate, GenerateMihomoConfig, Try, Answer, Goto
    <2>8. CASE \E ok \in BOOLEAN : BackReload(ok)
      BY <2>8, <1>0, <1>F DEF BackReload, ReloadConfigs, Answer, Goto
    <2>9. CASE \E ok \in BOOLEAN : BackRules(ok)
      BY <2>9, <1>0, <1>F DEF BackRules, Try, Answer, Goto
    <2> QED
      BY <1>4, <2>1, <2>2, <2>3, <2>4, <2>5, <2>6, <2>7, <2>8, <2>9 DEF ChangeSteps
  <1>5. CASE Looks
    <2>1. CASE \E o \in Observations : StopLook(o)
      <3> PICK o \in Observations : StopLook(o)
        BY <2>1
      <3>1. /\ o = "true" \/ nf' = 1
            /\ Running(o) <=> core = "active"
            /\ ~Running(o) => core = "inactive"
        BY TrueSight, QuietLook, <1>0 DEF StopLook
      <3> QED
        BY <3>1, <1>0 DEF StopLook, tunCleanupNeeded, ServiceActive, Goto
    <2>2. CASE \E o \in Observations : StopSeen(o)
      <3> PICK o \in Observations : StopSeen(o)
        BY <2>2
      <3>1. /\ o = "true" \/ nf' = 1
            /\ Running(o) <=> core = "active"
            /\ ~Running(o) => core = "inactive"
        BY TrueSight, QuietLook, <1>0 DEF StopSeen
      <3> QED
        BY <3>1, <1>0 DEF StopSeen, Answer, ServiceActive, Goto
    <2>3. CASE \E o \in Observations : Look(o)
      <3> PICK o \in Observations : Look(o)
        BY <2>3
      <3>1. /\ o = "true" \/ nf' = 1
            /\ Running(o) <=> core = "active"
            /\ ~Running(o) => core = "inactive"
        BY TrueSight, QuietLook, <1>0 DEF Look
      <3> QED
        BY <3>1, <1>0 DEF Look, Answer, ServiceActive, Goto
    <2>4. CASE \E o \in Observations : LookAgain(o)
      <3> PICK o \in Observations : LookAgain(o)
        BY <2>4
      <3>1. /\ o = "true" \/ nf' = 1
            /\ Running(o) <=> core = "active"
            /\ ~Running(o) => core = "inactive"
        BY TrueSight, QuietLook, <1>0 DEF LookAgain
      <3> QED
        BY <3>1, <1>0 DEF LookAgain, tunCleanupNeeded, ServiceActive, Goto
    <2>5. CASE \E o \in Observations : Report(o)
      <3> PICK o \in Observations : Report(o)
        BY <2>5
      <3>1. /\ o = "true" \/ nf' = 1
            /\ Running(o) <=> core = "active"
            /\ ~Running(o) => core = "inactive"
        BY TrueSight, QuietLook, <1>0 DEF Report
      <3> QED
        BY <3>1, <1>0 DEF Report, Rollback, Answer, ServiceActive, Goto
    <2> QED
      BY <1>5, <2>1, <2>2, <2>3, <2>4, <2>5 DEF Looks
  <1>6. CASE StartSeen \/ StartTimeout \/ StopTimeout \/ ReadbackOk \/ ReadbackTimeout
    BY <1>6, <1>0, <1>F DEF StartSeen, StartTimeout, Answer, Goto, StopTimeout, ReadbackOk,
      ReadbackTimeout, Matches, Rollback
  <1>7. CASE Crash \/ AutoRestart
    BY <1>7, <1>0, <1>F DEF Crash, AutoRestart, Goto
  <1>8. CASE UNCHANGED vars
    BY <1>8, <1>0, <1>F DEF vars, Goto
  <1> QED
    BY <1>1, <1>2, <1>3, <1>4, <1>5, <1>6, <1>7, <1>8 DEF Next, Step

LEMMA StepBackOnce == Answered /\ SingleInv /\ [Next]_vars => BackOnce'
  <1> SUFFICES ASSUME Answered, SingleInv, [Next]_vars, Single, Single'
               PROVE  BackOnce'
    BY SingleStays DEF BackOnce, Answered
  <1>0. /\ nf \in {0, 1} /\ nf' \in {0, 1}
        /\ nf' = nf \/ nf' = 1
        /\ ~blind /\ ~blind'
    BY FailuresCounted DEF Single, Answered, TypeOK
  <1>F. \A k : Fault(k) => nf = 0 /\ nf' = 1
    BY <1>0 DEF Fault, CountFault
  <1> USE DEF SingleInv, CopiesInStep, Undisturbed, UndisturbedCore, BackOnce, Agree,
              Answered, Whose, Progress, NotMisled, RunsWanted, settings, handler,
              Settled, Starting, Stopping, Decided, Generated, GoingBack
  <1>W. kind = "tun" /\ pc = "setup" /\ nf = 0 => ~TunActive
    <2>1. want.tun \in BOOLEAN /\ before.tun \in BOOLEAN
      BY DEF TypeOK, Settings
    <2> QED
      BY <2>1, <1>0 DEF TunActive
  <1>1. CASE Requests
    BY <1>1, <1>0, <1>F DEF Requests, RequestStart, RequestStop, Request, Goto, RequestTUN,
      RequestPort, RequestAnswered
  <1>2. CASE \E ok \in BOOLEAN : StartSteps(ok)
    BY <1>2, <1>0, <1>F DEF StartSteps, StartGenerate, GenerateMihomoConfig, Try, Answer, Goto,
      StartSetup, SetupTUNRouting, SetupWorks, StartCore, StartUndo, RestoreTUNRouting, StartStop
  <1>3. CASE \E ok \in BOOLEAN : StopSteps(ok)
    BY <1>3, <1>0, <1>F DEF StopSteps, StopCore, tunCleanupNeeded, Try, Answer, Goto, StopRestore,
      RestoreTUNRouting
  <1>4. CASE \E ok \in BOOLEAN : ChangeSteps(ok)
    BY <1>4, <1>0, <1>F, <1>W DEF ChangeSteps, Commit, Try, Answer, Goto, Generate,
      GenerateMihomoConfig, Rollback, Setup, SetupTUNRouting, SetupWorks, Reload, ReloadConfigs,
      Restore, RestoreTUNRouting, BackCommit, BackGenerate, BackReload, BackRules
  <1>5. CASE Looks
    <2>1. CASE \E o \in Observations : StopLook(o)
      <3> PICK o \in Observations : StopLook(o)
        BY <2>1
      <3>1. /\ o = "true" \/ nf' = 1
            /\ Running(o) <=> core = "active"
            /\ ~Running(o) => core = "inactive"
        BY TrueSight, QuietLook, <1>0 DEF StopLook
      <3> QED
        BY <3>1, <1>0 DEF StopLook, tunCleanupNeeded, ServiceActive, Goto
    <2>2. CASE \E o \in Observations : StopSeen(o)
      <3> PICK o \in Observations : StopSeen(o)
        BY <2>2
      <3>1. /\ o = "true" \/ nf' = 1
            /\ Running(o) <=> core = "active"
            /\ ~Running(o) => core = "inactive"
        BY TrueSight, QuietLook, <1>0 DEF StopSeen
      <3> QED
        BY <3>1, <1>0 DEF StopSeen, Answer, ServiceActive, Goto
    <2>3. CASE \E o \in Observations : Look(o)
      <3> PICK o \in Observations : Look(o)
        BY <2>3
      <3>1. /\ o = "true" \/ nf' = 1
            /\ Running(o) <=> core = "active"
            /\ ~Running(o) => core = "inactive"
        BY TrueSight, QuietLook, <1>0 DEF Look
      <3> QED
        BY <3>1, <1>0 DEF Look, Answer, ServiceActive, Goto
    <2>4. CASE \E o \in Observations : LookAgain(o)
      <3> PICK o \in Observations : LookAgain(o)
        BY <2>4
      <3>1. /\ o = "true" \/ nf' = 1
            /\ Running(o) <=> core = "active"
            /\ ~Running(o) => core = "inactive"
        BY TrueSight, QuietLook, <1>0 DEF LookAgain
      <3> QED
        BY <3>1, <1>0 DEF LookAgain, tunCleanupNeeded, ServiceActive, Goto
    <2>5. CASE \E o \in Observations : Report(o)
      <3> PICK o \in Observations : Report(o)
        BY <2>5
      <3>1. /\ o = "true" \/ nf' = 1
            /\ Running(o) <=> core = "active"
            /\ ~Running(o) => core = "inactive"
        BY TrueSight, QuietLook, <1>0 DEF Report
      <3> QED
        BY <3>1, <1>0 DEF Report, Rollback, Answer, ServiceActive, Goto
    <2> QED
      BY <1>5, <2>1, <2>2, <2>3, <2>4, <2>5 DEF Looks
  <1>6. CASE StartSeen \/ StartTimeout \/ StopTimeout \/ ReadbackOk \/ ReadbackTimeout
    BY <1>6, <1>0, <1>F DEF StartSeen, StartTimeout, Answer, Goto, StopTimeout, ReadbackOk,
      ReadbackTimeout, Matches, Rollback
  <1>7. CASE Crash \/ AutoRestart
    BY <1>7, <1>0, <1>F DEF Crash, AutoRestart, Goto
  <1>8. CASE UNCHANGED vars
    BY <1>8, <1>0, <1>F DEF vars, Goto
  <1> QED
    BY <1>1, <1>2, <1>3, <1>4, <1>5, <1>6, <1>7, <1>8 DEF Next, Step

LEMMA InitSingle == Init => SingleInv
  BY DEF Init, SingleInv, UndisturbedCore, CopiesInStep, Undisturbed, BackOnce, Agree, Settled,
         Starting, Stopping, Decided, Generated, GoingBack

LEMMA StepSingle == Answered /\ SingleInv /\ [Next]_vars => SingleInv'
  BY StepUndisturbedCore, StepCopies, StepUndisturbed, StepBackOnce DEF SingleInv

\* Only a crash has systemd restart the core.
LEMMA OnlyCrashRestarts ==
  ASSUME [Next]_vars, ~Crash, core # "restarting"
  PROVE  core' # "restarting"
  <1>1. CASE Requests
    BY <1>1 DEF Requests, RequestStart, RequestStop, Request, RequestTUN, RequestPort, RequestAnswered
  <1>2. CASE \E ok \in BOOLEAN : StartSteps(ok) \/ StopSteps(ok) \/ ChangeSteps(ok)
    BY <1>2 DEF StartSteps, StartGenerate, StartSetup, StartCore, StartUndo, StartStop, StopSteps,
      StopCore, StopRestore, ChangeSteps, Commit, Generate, Setup, Reload, Restore, BackCommit,
      BackGenerate, BackReload, BackRules
  <1>3. CASE Looks
    BY <1>3 DEF Looks, StopLook, StopSeen, Look, LookAgain, Report
  <1>4. CASE StartSeen \/ StartTimeout \/ StopTimeout \/ ReadbackOk \/ ReadbackTimeout
    BY <1>4 DEF StartSeen, StartTimeout, StopTimeout, ReadbackOk, ReadbackTimeout, settings
  <1>5. CASE AutoRestart
    BY <1>5 DEF AutoRestart
  <1>6. CASE UNCHANGED vars
    BY <1>6 DEF vars
  <1> QED
    BY <1>1, <1>2, <1>3, <1>4, <1>5, <1>6 DEF Next, Step

\* The steps that commit nothing and generate nothing.
LEMMA OthersKeepGenerated ==
  ASSUME [Next]_vars, pc' \notin {"generate", "back_commit", "back_generate"}
  PROVE  \/ UNCHANGED <<cfg, gen>> /\ pc \notin {"generate", "back_commit", "back_generate"}
         \/ \E ok \in BOOLEAN : StartGenerate(ok) \/ Commit(ok) \/ Generate(ok)
                               \/ BackCommit(ok) \/ BackGenerate(ok)
  <1> USE DEF settings
  <1>1. CASE Requests
    BY <1>1 DEF Requests, RequestStart, RequestStop, Request, RequestTUN, RequestPort, RequestAnswered
  <1>2. ASSUME NEW ok \in BOOLEAN, StartSetup(ok) \/ StartCore(ok) \/ StartUndo(ok) \/ StartStop(ok)
        PROVE  UNCHANGED <<cfg, gen>> /\ pc \notin {"generate", "back_commit", "back_generate"}
    BY <1>2 DEF StartSetup, StartCore, StartUndo, StartStop
  <1>3. ASSUME NEW ok \in BOOLEAN, StopCore(ok) \/ StopRestore(ok)
        PROVE  UNCHANGED <<cfg, gen>> /\ pc \notin {"generate", "back_commit", "back_generate"}
    BY <1>3 DEF StopCore, StopRestore
  <1>4. ASSUME NEW ok \in BOOLEAN,
               Setup(ok) \/ Reload(ok) \/ Restore(ok) \/ BackReload(ok) \/ BackRules(ok)
        PROVE  UNCHANGED <<cfg, gen>> /\ pc \notin {"generate", "back_commit", "back_generate"}
    BY <1>4 DEF Setup, Reload, Restore, BackReload, BackRules
  <1>5. CASE Looks
    BY <1>5 DEF Looks, StopLook, StopSeen, Look, LookAgain, Report
  <1>6. CASE StartSeen \/ StartTimeout \/ StopTimeout \/ ReadbackOk \/ ReadbackTimeout
    BY <1>6 DEF StartSeen, StartTimeout, StopTimeout, ReadbackOk, ReadbackTimeout
  <1>7. CASE Crash \/ AutoRestart \/ UNCHANGED vars
    BY <1>7 DEF Crash, AutoRestart, vars
  <1> QED
    BY <1>1, <1>2, <1>3, <1>4, <1>5, <1>6, <1>7
       DEF Next, Step, StartSteps, StopSteps, ChangeSteps

LEMMA StepMisled == TypeOK /\ MisledByFailure /\ [Next]_vars => MisledByFailure'
  <1> SUFFICES ASSUME TypeOK, MisledByFailure, [Next]_vars, nf = 0, nf' = 0, ~blind,
                      core # "restarting"
               PROVE  ~blind' /\ core' # "restarting"
    BY FailuresCounted, ManagerConstantsOK DEF MisledByFailure, TypeOK
  <1>1. \A k : ~CountFault(k)
    BY DEF CountFault
  <1>2. ~blind'
    <2>1. CASE NoFault \/ \E k \in FaultKinds : Fault(k)
      BY <2>1, <1>1 DEF NoFault, hist, Fault
    <2>2. CASE \E o \in Observations : Observe(o)
      BY <2>2, <1>1 DEF Observations, Observe
    <2> QED
      BY <2>1, <2>2, StepHistory
  <1>3. core' # "restarting"
    <2>1. CASE Crash
      BY <2>1, <1>1 DEF Crash, Fault
    <2>2. CASE ~Crash
      BY <2>2, OnlyCrashRestarts
    <2> QED
      BY <2>1, <2>2
  <1> QED
    BY <1>2, <1>3

\* It takes a failure to go back.
LEMMA BackAfterFailure ==
  ASSUME TypeOK, SingleInv, MisledByFailure, pc \in GoingBack
  PROVE  nf >= 1
  BY ManagerConstantsOK DEF TypeOK, SingleInv, BackOnce, MisledByFailure, Single

LEMMA StepGenerated ==
  Answered /\ SingleInv /\ CommitInv /\ [Next]_vars => GeneratedInStep'
  <1> SUFFICES ASSUME Answered, SingleInv, CommitInv, [Next]_vars, nf' <= 1, nf <= 1,
                      pc' \notin {"generate", "back_commit", "back_generate"}
               PROVE  cfg' = gen'
    BY FailuresCounted, ManagerConstantsOK DEF GeneratedInStep, Answered, TypeOK
  <1>0. GeneratedInStep
    BY DEF CommitInv
  <1>1. CASE UNCHANGED <<cfg, gen>> /\ pc \notin {"generate", "back_commit", "back_generate"}
    BY <1>0, <1>1 DEF GeneratedInStep
  <1>2. ASSUME NEW ok \in BOOLEAN, StartGenerate(ok) PROVE cfg' = gen'
    BY <1>0, <1>2 DEF StartGenerate, GenerateMihomoConfig, GeneratedInStep
  <1>3. ASSUME NEW ok \in BOOLEAN, Commit(ok) PROVE cfg' = gen'
    BY <1>0, <1>3 DEF Commit, Goto, GeneratedInStep
  <1>4. ASSUME NEW ok \in BOOLEAN, Generate(ok) PROVE cfg' = gen'
    BY <1>4 DEF Generate, GenerateMihomoConfig, Rollback, Goto
  <1>5. ASSUME NEW ok \in BOOLEAN, BackCommit(ok) PROVE cfg' = gen'
    BY <1>5 DEF BackCommit, Goto
  <1>6. ASSUME NEW ok \in BOOLEAN, BackGenerate(ok) PROVE cfg' = gen'
    <2>1. nf >= 1 /\ nf \in Nat
      BY <1>6, BackAfterFailure, ManagerConstantsOK
         DEF BackGenerate, GoingBack, CommitInv, Answered, TypeOK
    <2>2. ok
      BY <2>1, <1>6 DEF BackGenerate, GenerateMihomoConfig, Try, Fault, CountFault
    <2> QED
      BY <2>2, <1>6 DEF BackGenerate, GenerateMihomoConfig
  <1> QED
    BY <1>1, <1>2, <1>3, <1>4, <1>5, <1>6, OthersKeepGenerated

\* After a single failure, of whatever kind, the configuration and the one generated from
\* it agree once the answer is out, and so does the core unless a handler was misled about
\* it: the rollbacks suffice.
THEOREM SingleFailureIsUndone == Spec => []SingleFailureAgrees
  <1>1. SingleInv /\ CommitInv => SingleFailureAgrees
    BY DEF SingleInv, CopiesInStep, Single, Settled, Agree, CommitInv, GeneratedInStep,
           SingleFailureAgrees
  <1>2. Init => Answered /\ SingleInv /\ CommitInv
    BY InitAnswered, InitSingle
       DEF Init, CommitInv, MisledByFailure, GeneratedInStep
  <1>3. Answered /\ SingleInv /\ CommitInv /\ [Next]_vars => (Answered /\ SingleInv /\ CommitInv)'
    BY StepAnswered, StepSingle, StepMisled, StepGenerated DEF CommitInv, Answered
  <1> QED
    BY <1>1, <1>2, <1>3, PTL DEF Spec

-----------------------------------------------------------------------------
(* The rules *)

LEMMA HarmlessStays == ASSUME TypeOK, [Next]_vars, Harmless' PROVE Harmless
  <1>1. Single
    BY SingleStays DEF Harmless
  <1>2. seen \subseteq seen'
    BY FailuresCounted
  <1> QED
    BY <1>1, <1>2 DEF Harmless

LEMMA StepRulesInStep == IInv /\ [Next]_vars => RulesInStep'
  <1> SUFFICES ASSUME IInv, [Next]_vars, Harmless, Harmless'
               PROVE  RulesInStep'
    BY HarmlessStays DEF IInv, Answered, RulesInStep
  <1>0. /\ nf \in {0, 1} /\ nf' \in {0, 1}
        /\ nf' = nf \/ nf' = 1
        /\ ~blind /\ ~blind'
    BY FailuresCounted DEF Harmless, Single, IInv, Answered, TypeOK
  <1>F. /\ \A k : Fault(k) => nf = 0 /\ nf' = 1
        /\ \A k \in {"restore", "readback", "apply", "start", "crash"} : ~Fault(k)
    BY <1>0 DEF Fault, CountFault, Harmless
  <1>W. \A c \in {cfg, gen, run, before, want} : c.tun \in BOOLEAN
    BY DEF IInv, Answered, TypeOK, Settings
  <1>P. TunActive => rules = "full"
    BY DEF IInv, SingleFailureProtects, TunCoreProtected, Harmless, Single
  <1> USE DEF IInv, RulesInStep, SingleFailureProtects, TunCoreProtected, TunActive,
              SingleInv, CopiesInStep, Undisturbed, UndisturbedCore, BackOnce, Agree,
              Answered, Whose, Progress, settings, handler,
              Settled, Starting, Stopping, Decided, Generated, GoingBack
  <1>1. CASE Requests
    BY <1>1, <1>0, <1>F, <1>W DEF Requests, RequestStart, RequestStop, Request, Goto, RequestTUN,
      RequestPort, RequestAnswered
  <1>2. CASE \E ok \in BOOLEAN : StartSteps(ok)
    BY <1>2, <1>0, <1>F, <1>W DEF StartSteps, StartGenerate, GenerateMihomoConfig, Try, Answer,
      Goto, StartSetup, SetupTUNRouting, SetupWorks, StartCore, StartUndo, RestoreTUNRouting,
      StartStop
  <1>3. CASE \E ok \in BOOLEAN : StopSteps(ok)
    BY <1>3, <1>0, <1>F, <1>W DEF StopSteps, StopCore, tunCleanupNeeded, Try, Answer, Goto,
      StopRestore, RestoreTUNRouting
  <1>4. CASE \E ok \in BOOLEAN : ChangeSteps(ok)
    BY <1>4, <1>0, <1>F, <1>W DEF ChangeSteps, Commit, Try, Answer, Goto, Generate,
      GenerateMihomoConfig, Rollback, Setup, SetupTUNRouting, SetupWorks, Reload, ReloadConfigs,
      Restore, RestoreTUNRouting, BackCommit, BackGenerate, BackReload, BackRules
  <1>5. CASE Looks
    <2>1. CASE \E o \in Observations : StopLook(o)
      <3> PICK o \in Observations : StopLook(o)
        BY <2>1
      <3>1. /\ o = "true" \/ nf' = 1
            /\ Running(o) <=> core = "active"
            /\ ~Running(o) => core = "inactive"
            /\ ServiceActive(o) <=> core = "active"
        BY TrueSight, QuietLook, <1>0 DEF StopLook
      <3> QED
        BY <3>1, <1>0, <1>W DEF StopLook, tunCleanupNeeded, Goto
    <2>2. CASE \E o \in Observations : StopSeen(o)
      <3> PICK o \in Observations : StopSeen(o)
        BY <2>2
      <3>1. /\ o = "true" \/ nf' = 1
            /\ Running(o) <=> core = "active"
            /\ ~Running(o) => core = "inactive"
            /\ ServiceActive(o) <=> core = "active"
        BY TrueSight, QuietLook, <1>0 DEF StopSeen
      <3> QED
        BY <3>1, <1>0, <1>W DEF StopSeen, Answer, Goto
    <2>3. CASE \E o \in Observations : Look(o)
      <3> PICK o \in Observations : Look(o)
        BY <2>3
      <3>1. Running(o) <=> core = "active"
        BY TrueSight, <1>0 DEF Look
      <3>2. core = "active" /\ before.tun => rules = "full"
        <4>1. core = "active" => run.tun = before.tun
          BY DEF Look, Harmless
        <4> QED
          BY <4>1, <1>P, <1>W DEF TunActive
      <3>3. UNCHANGED <<settings, core, rules, before, want>>
        BY DEF Look, Answer, Goto
      <3> HIDE DEF SingleFailureProtects, CopiesInStep, Undisturbed, UndisturbedCore, BackOnce
      <3> QED
        BY <3>1, <3>2, <3>3 DEF Look, Answer, Goto
    <2>4. CASE \E o \in Observations : LookAgain(o)
      <3> PICK o \in Observations : LookAgain(o)
        BY <2>4
      <3>1. /\ o = "true" \/ nf' = 1
            /\ Running(o) <=> core = "active"
            /\ ~Running(o) => core = "inactive"
            /\ ServiceActive(o) <=> core = "active"
        BY TrueSight, QuietLook, <1>0 DEF LookAgain
      <3> QED
        BY <3>1, <1>0, <1>W DEF LookAgain, tunCleanupNeeded, Goto
    <2>5. CASE \E o \in Observations : Report(o)
      <3> PICK o \in Observations : Report(o)
        BY <2>5
      <3>1. Running(o) <=> core = "active"
        BY TrueSight, <1>0 DEF Report
      <3>2. core = "active" /\ before.tun /\ kind = "port" => rules = "full"
        <4>1. core = "active" => run.tun = before.tun \/ kind # "port"
          BY DEF Report, Harmless
        <4> QED
          BY <4>1, <1>P, <1>W DEF TunActive
      <3>3. UNCHANGED <<settings, core, rules, before, want>>
        BY DEF Report, Rollback, Answer, Goto
      <3> HIDE DEF SingleFailureProtects, CopiesInStep, Undisturbed, UndisturbedCore, BackOnce
      <3> QED
        BY <3>1, <3>2, <3>3 DEF Report, Rollback, Answer, Goto
    <2> QED
      BY <1>5, <2>1, <2>2, <2>3, <2>4, <2>5 DEF Looks
  <1>6. CASE StartSeen \/ StartTimeout \/ StopTimeout \/ ReadbackOk \/ ReadbackTimeout
    BY <1>6, <1>0, <1>F, <1>W DEF StartSeen, StartTimeout, Answer, Goto, StopTimeout, ReadbackOk,
      ReadbackTimeout, Matches, Rollback
  <1>7. CASE Crash \/ AutoRestart
    BY <1>7, <1>0, <1>F, <1>W DEF Crash, AutoRestart, Goto
  <1>8. CASE UNCHANGED vars
    BY <1>8, <1>0, <1>F, <1>W DEF vars, Goto
  <1> QED
    BY <1>1, <1>2, <1>3, <1>4, <1>5, <1>6, <1>7, <1>8 DEF Next, Step

\* The rules, the core and what it runs with are the business of few steps.
LEMMA OthersLeaveTheCore ==
  ASSUME [Next]_vars
  PROVE  \/ UNCHANGED <<run, core, rules>>
         \/ \E ok \in BOOLEAN : StartSetup(ok) \/ StartCore(ok) \/ StartUndo(ok) \/ StartStop(ok)
         \/ \E ok \in BOOLEAN : StopCore(ok) \/ StopRestore(ok)
         \/ \E ok \in BOOLEAN : Setup(ok) \/ Reload(ok) \/ Restore(ok) \/ BackReload(ok) \/ BackRules(ok)
         \/ Crash \/ AutoRestart
  BY DEF Next, Requests, Request, RequestStart, RequestStop, RequestTUN, RequestPort, RequestAnswered,
         Step, StartSteps, StartGenerate, StartSeen, StartTimeout, StopSteps, StopTimeout,
         ChangeSteps, Commit, Generate, ReadbackOk, ReadbackTimeout, BackCommit, BackGenerate,
         Looks, StopLook, StopSeen, Look, LookAgain, Report, settings, vars

LEMMA StepProtected == IInv /\ [Next]_vars => SingleFailureProtects'
  <1> SUFFICES ASSUME IInv, [Next]_vars, Harmless, Harmless', TunActive'
               PROVE  rules' = "full"
    BY HarmlessStays DEF IInv, Answered, SingleFailureProtects, TunCoreProtected, Harmless, Single
  <1>0. /\ nf \in {0, 1} /\ nf' \in {0, 1}
        /\ nf' = nf \/ nf' = 1
        /\ ~blind /\ ~blind'
    BY FailuresCounted DEF Harmless, Single, IInv, Answered, TypeOK
  <1>F. /\ \A k : Fault(k) => nf = 0 /\ nf' = 1
        /\ \A k \in {"restore", "readback", "apply", "start", "crash"} : ~Fault(k)
    BY <1>0 DEF Fault, CountFault, Harmless
  <1>P. TunActive => rules = "full"
    BY DEF IInv, SingleFailureProtects, TunCoreProtected, Harmless, Single
  <1>C. /\ pc \in Settled => Agree
        /\ pc \in GoingBack => nf = 1
        /\ pc \in {"back_reload", "back_rules"} => gen = before
        /\ pc = "restore" => ~want.tun
        /\ pc \in Generated => gen = want
    BY DEF IInv, Answered, SingleInv, Whose, Progress, CopiesInStep, BackOnce, Harmless
  <1> USE DEF TunActive, Settled, Starting, Stopping, GoingBack, Generated, Agree, settings, Goto
  <1>R. /\ core # "restarting"
        /\ pc = "start_core" /\ cfg.tun => rules = "full"
        /\ pc \in {"start_undo", "stop_restore"} => core = "inactive"
        /\ pc = "start_stop" => nf = 1
        /\ pc = "reload" => core = "active" /\ (want.tun => rules = "full")
        /\ pc \in GoingBack /\ core = "active" /\ before.tun => rules = "full"
        /\ pc = "restore" /\ core = "active" => run = want
    BY DEF IInv, Answered, Whose, RulesInStep, Decided, Harmless
  <1>1. CASE UNCHANGED <<run, core, rules>>
    BY <1>1, <1>P
  <1>2. CASE \E ok \in BOOLEAN : StartSetup(ok)
    BY <1>2, <1>P DEF StartSetup, SetupTUNRouting, SetupWorks, Try, Answer
  <1>3. CASE \E ok \in BOOLEAN : StartCore(ok)
    BY <1>3, <1>C, <1>F, <1>R DEF StartCore, Try, Answer
  <1>4. CASE \E ok \in BOOLEAN : StartUndo(ok)
    BY <1>4, <1>R DEF StartUndo, RestoreTUNRouting, Try, Answer
  <1>5. CASE \E ok \in BOOLEAN : StartStop(ok)
    BY <1>5, <1>0, <1>F, <1>P, <1>R DEF StartStop, Try, Answer
  <1>6. CASE \E ok \in BOOLEAN : StopCore(ok)
    BY <1>6, <1>P DEF StopCore, tunCleanupNeeded, Try, Answer
  <1>7. CASE \E ok \in BOOLEAN : StopRestore(ok)
    BY <1>7, <1>R DEF StopRestore, RestoreTUNRouting, Try, Answer
  <1>8. CASE \E ok \in BOOLEAN : Setup(ok)
    BY <1>8, <1>P DEF Setup, SetupTUNRouting, SetupWorks, Try, Rollback
  <1>9. CASE \E ok \in BOOLEAN : Reload(ok)
    BY <1>9, <1>C, <1>P, <1>R DEF Reload, ReloadConfigs, Rollback
  <1>10. CASE \E ok \in BOOLEAN : Restore(ok)
    BY <1>10, <1>C, <1>F, <1>P, <1>R DEF Restore, RestoreTUNRouting, Try, Rollback
  <1>11. CASE \E ok \in BOOLEAN : BackReload(ok)
    BY <1>11, <1>C, <1>P, <1>R DEF BackReload, ReloadConfigs, Answer
  <1>12. CASE \E ok \in BOOLEAN : BackRules(ok)
    BY <1>12, <1>C, <1>P, <1>R DEF BackRules, SetupTUNRouting, RestoreTUNRouting, Try, Answer
  <1>13. CASE Crash \/ AutoRestart
    BY <1>13, <1>F, <1>R DEF Crash, AutoRestart
  <1> QED
    BY OthersLeaveTheCore, <1>1, <1>2, <1>3, <1>4, <1>5, <1>6, <1>7, <1>8, <1>9,
       <1>10, <1>11, <1>12, <1>13

LEMMA InitIInv == Init => IInv
  BY InitAnswered, InitSingle
  DEF Init, IInv, RulesInStep, SingleFailureProtects, TunCoreProtected, TunActive, Decided, GoingBack

LEMMA StepIInv == IInv /\ [Next]_vars => IInv'
  BY StepAnswered, StepSingle, StepRulesInStep, StepProtected DEF IInv

\* A core in TUN mode has its rules, over any single failure but of the five kinds that
\* the property names.
THEOREM SingleFailureLeavesRules == Spec => []SingleFailureProtects
  <1>1. IInv => SingleFailureProtects
    BY DEF IInv
  <1> QED
    BY <1>1, InitIInv, StepIInv, PTL DEF Spec

-----------------------------------------------------------------------------
(* The recorder of the logs *)

Stages == {"starting", "unset", "commit", "apply", "waiting", "undo", "reapply", "ready"}

SettingTyped ==
  /\ mem \in BOOLEAN /\ disk \in BOOLEAN /\ hidden \in BOOLEAN /\ enabled \in BOOLEAN
  /\ asked \in BOOLEAN /\ prev \in BOOLEAN /\ stage \in Stages

\* The recorder between the steps of a request or of a start: it follows the setting
\* before and after, and the way back is to a recorder that is off.
RecorderInStep ==
  /\ stage \in {"starting", "unset", "undo"} => ~enabled
  /\ stage \in {"starting", "unset"} => ~hidden
  /\ stage = "commit" => (prev <=> mem)
  /\ stage = "apply" => (mem <=> asked) /\ (~hidden => (enabled <=> prev))
  /\ stage = "undo" /\ ~hidden => ~prev
  /\ stage = "reapply" /\ ~hidden => ~enabled /\ ~prev /\ ~mem
  /\ stage \in {"ready", "waiting", "commit"} /\ ~hidden => (enabled <=> mem)

SettingInv == SettingTyped /\ RecorderInStep

\* Apply leaves the recorder as asked, or off as it was.
LEMMA Applies ==
  ASSUME SettingTyped, NEW e \in BOOLEAN, NEW p \in Stages, NEW good \in Stages, NEW bad \in Stages,
         Apply(p, e, good, bad)
  PROVE  /\ stage = p /\ UNCHANGED <<mem, disk>>
         /\ enabled' \in BOOLEAN /\ asked' \in BOOLEAN /\ prev' \in BOOLEAN
         /\ \/ stage' \in {good, "waiting"} /\ (enabled' <=> e)
            \/ stage' = bad /\ e /\ ~enabled /\ ~enabled'
         /\ stage' \notin {"ready"} => asked' = asked /\ prev' = prev
  <1> USE DEF SettingTyped, ToStage, Unmoved, recorder
  <1>0. UNCHANGED <<mem, disk>> /\ stage = p
    BY DEF Apply
  <1>1. ASSUME NEW q, ToStage(q)
        PROVE  /\ stage' = q /\ asked' \in BOOLEAN /\ prev' \in BOOLEAN
               /\ q # "ready" => asked' = asked /\ prev' = prev
    BY <1>1
  <1>2. CASE enabled = e /\ Unmoved /\ ToStage(good)
    BY <1>0, <1>1, <1>2
  <1>3. CASE enabled /\ ~e /\ disable /\ ToStage("waiting")
    BY <1>0, <1>1, <1>3 DEF disable
  <1>4. CASE ~enabled /\ e /\ (\E l \in Loops : enable(l)) /\ ToStage(good)
    BY <1>0, <1>1, <1>4 DEF enable
  <1>5. CASE ~enabled /\ e /\ Unmoved /\ ToStage(bad)
    BY <1>0, <1>1, <1>5
  <1> QED
    BY <1>2, <1>3, <1>4, <1>5 DEF Apply

LEMMA SettingInit == RecorderInit => SettingInv
  BY DEF RecorderInit, SettingInv, SettingTyped, RecorderInStep, Stages

\* The goroutines touch neither the setting nor the switch.
LEMMA GoroutinesLeaveSetting ==
  ASSUME NEW l \in Loops,
         \/ Subscribe(l) \/ Scan(l) \/ writeLine(l)
         \/ Failed(l) \/ Backoff(l)
  PROVE  UNCHANGED <<mem, disk, hidden, enabled, asked, prev, stage>>
  BY DEF Subscribe, Scan, writeLine, Failed, Backoff,
         setting, recorder, request

\* What a commit does to the setting.
LEMMA SettingCommitted ==
  ASSUME SettingTyped, NEW e \in BOOLEAN, NEW result \in Outcomes,
         UpdateGlobalConfig(e, result)
  PROVE  /\ mem' \in BOOLEAN /\ disk' \in BOOLEAN /\ enabled' = enabled
         /\ mem' = IF result = "works" THEN e ELSE mem
  BY DEF SettingTyped, UpdateGlobalConfig, recorder

LEMMA RecorderStep == SettingInv /\ [RecorderNext]_recorderVars => SettingInv'
  <1> SUFFICES ASSUME SettingTyped, RecorderInStep, [RecorderNext]_recorderVars
               PROVE  SettingTyped' /\ RecorderInStep'
    BY DEF SettingInv
  <1> USE DEF SettingTyped, RecorderInStep, Stages
  <1>1. CASE UNCHANGED <<mem, disk, hidden, enabled, asked, prev, stage>>
    BY <1>1
  <1>2. CASE \E l \in Loops :
               \/ Subscribe(l) \/ Scan(l) \/ writeLine(l)
               \/ Failed(l) \/ Backoff(l)
    BY <1>1, <1>2, GoroutinesLeaveSetting
  <1>3. CASE \E e \in BOOLEAN : handleManagerLogging(e)
    BY <1>3 DEF handleManagerLogging, setting, recorder
  <1>4. ASSUME NEW result \in Outcomes, CommitSetting(result)
        PROVE  SettingTyped' /\ RecorderInStep'
    BY <1>4, SettingCommitted DEF CommitSetting, ToStage
  <1>5. ASSUME NEW result \in Outcomes, Undo(result)
        PROVE  SettingTyped' /\ RecorderInStep'
    BY <1>5, SettingCommitted DEF Undo, ToStage
  <1>6. ASSUME NEW result \in Outcomes, StartUnset(result)
        PROVE  SettingTyped' /\ RecorderInStep'
    BY <1>6, SettingCommitted DEF StartUnset, ToStage
  <1>7. CASE ApplySetting
    <2>1. hidden' = (hidden /\ stage' = "undo")
      BY <1>7 DEF ApplySetting
    <2> QED
      BY <1>7, <2>1, Applies DEF ApplySetting
  <1>8. CASE Reapply
    BY <1>8, Applies DEF Reapply
  <1>9. CASE Start
    BY <1>9, Applies DEF Start
  <1>10. CASE Wait
    BY <1>10 DEF Wait, ToStage, setting, recorder
  <1>11. CASE Restart
    BY <1>11 DEF Restart
  <1>12. CASE CalmDown \/ UNCHANGED recorderVars
    BY <1>1, <1>12 DEF CalmDown, recorderVars, setting, recorder,
                       request
  <1> QED
    BY <1>2, <1>3, <1>4, <1>5, <1>6, <1>7, <1>8, <1>9, <1>10, <1>11, <1>12 DEF RecorderNext

\* When the manager is ready for the next request the recorder does what the
\* configuration says, whatever failed before, unless the way back failed too: for
\* any number of goroutines and any limits of the files.
THEOREM SettingFollowedHolds == RecorderSpec => []SettingFollowed
  <1>1. SettingInv => SettingFollowed
    BY DEF SettingInv, SettingTyped, RecorderInStep, SettingFollowed
  <1> QED
    BY <1>1, SettingInit, RecorderStep, PTL DEF RecorderSpec

-----------------------------------------------------------------------------
(* The recorder's files and goroutines *)

Bounded(fs) ==
  /\ fs \in [Slots -> Seq(Numbers)]
  /\ \A i \in Slots : Len(fs[i]) <= MaxBytes

\* No file outgrows its bound, though its size is counted in memory: an open file has
\* the size that is counted.
FilesTyped ==
  /\ Bounded(files)
  /\ size \in 0 .. MaxBytes
  /\ open \in BOOLEAN /\ (open => size = Len(files[0]))
  /\ last \in Numbers /\ recent \in 0 .. Room

\* One goroutine at most has not been told to end, and the recorder knows it.
LoopsTyped ==
  /\ reader \in Loops \cup {"none"} /\ awaiting \in Loops \cup {"none"}
  /\ loop \in [Loops -> {"none", "subscribe", "reading", "write", "failed", "backoff"}]
  /\ cancelled \in [Loops -> BOOLEAN]
  /\ enabled <=> reader # "none"
  /\ \A l \in Loops : loop[l] # "none" /\ ~cancelled[l] => l = reader

RecorderInv == SettingInv /\ FilesTyped /\ LoopsTyped /\ calm \in BOOLEAN

LEMMA RoomIsNat ==
  /\ MaxBytes \in Nat \ {0} /\ MaxBackups \in Nat \ {0} /\ "none" \notin Loops
  /\ Room \in Nat /\ 0 \in Slots /\ MaxBackups \in Slots
  /\ \A k \in Numbers : Succ(k) \in Numbers
  /\ 0 \in Numbers
  <1>1. MaxBytes \in Nat \ {0} /\ MaxBackups \in Nat \ {0} /\ "none" \notin Loops
    BY RecorderConstantsOK
  <1>2. Room \in Nat
    BY <1>1 DEF Room
  <1>3. \A k \in Numbers : Succ(k) \in Numbers
    <2> TAKE k \in Numbers
    <2> DEFINE m == Room + MaxBytes + 1
    <2>1. m \in Nat \ {0} /\ k + 1 \in Nat
      BY <1>1, <1>2 DEF Numbers
    <2>2. (k + 1) % m \in 0 .. m - 1
      <3> HIDE DEF m
      <3> QED
        BY <2>1
    <2>3. 0 .. m - 1 = Numbers
      BY <1>1, <1>2 DEF Numbers
    <2> QED
      BY <2>2, <2>3 DEF Succ
  <1> QED
    BY <1>1, <1>2, <1>3 DEF Slots, Numbers

\* A rotation moves files as they are.
LEMMA ShiftedBounded ==
  ASSUME Bounded(files),
         NEW n \in Slots, NEW removed \in BOOLEAN
  PROVE  /\ Bounded(Shifted(n, removed))
         /\ n = MaxBackups => Shifted(n, removed)[0] = <<>>
  <1> DEFINE fs == Shifted(n, removed)
  <1>1. /\ DOMAIN fs = Slots /\ fs = [i \in Slots |-> fs[i]]
        /\ \A i \in Slots :
             \/ fs[i] = <<>>
             \/ fs[i] = files[i]
             \/ i > 0 /\ fs[i] = files[i - 1]
    BY RoomIsNat DEF Shifted, Slots
  <1>2. n = MaxBackups => fs[0] = <<>>
    BY RoomIsNat DEF Shifted, Slots
  <1>3. \A i \in Slots : i > 0 => i - 1 \in Slots
    BY RoomIsNat DEF Slots
  <1>4. <<>> \in Seq(Numbers) /\ Len(<<>>) <= MaxBytes
    BY RoomIsNat
  <1> HIDE DEF fs
  <1>5. Bounded(fs)
    BY <1>1, <1>3, <1>4 DEF Bounded
  <1> QED
    BY <1>2, <1>5 DEF fs

\* A line goes to a file that has room for it.
LEMMA WriteBounded ==
  ASSUME FilesTyped,
         NEW fs, Bounded(fs), NEW sz \in 0 .. MaxBytes, sz = Len(fs[0]), sz + 1 <= MaxBytes,
         NEW result, WriteTo(fs, sz, result)
  PROVE  FilesTyped'
  <1>1. CASE files' = fs /\ size' = sz /\ UNCHANGED <<last, recent, open>>
    BY <1>1 DEF FilesTyped, Bounded
  <1>2. CASE /\ files' = [fs EXCEPT ![0] = Append(@, Succ(last))]
             /\ size' = sz + 1 /\ last' = Succ(last)
             /\ recent' = IF recent < Room THEN recent + 1 ELSE recent
             /\ open' = open
    <2> DEFINE new == Append(fs[0], Succ(last))
    <2>1. 0 \in Slots /\ Succ(last) \in Numbers
      BY RoomIsNat DEF FilesTyped
    <2>2. new \in Seq(Numbers) /\ Len(new) = sz + 1
      BY <2>1 DEF Bounded
    <2>3. files' = [fs EXCEPT ![0] = new] /\ files'[0] = new
      BY <1>2, <2>1 DEF Bounded
    <2> HIDE DEF new
    <2>4. Bounded(files')
      BY <2>1, <2>2, <2>3 DEF Bounded
    <2>5. recent' \in 0 .. Room
      BY <1>2, RoomIsNat DEF FilesTyped
    <2>6. size' \in 0 .. MaxBytes
      BY <1>2
    <2> QED
      BY <1>2, <2>1, <2>2, <2>3, <2>4, <2>5, <2>6 DEF FilesTyped, Bounded
  <1> QED
    BY <1>1, <1>2 DEF WriteTo

LEMMA LineBounded ==
  ASSUME FilesTyped, NEW l \in Loops, writeLine(l)
  PROVE  FilesTyped'
  <1>1. CASE UNCHANGED <<open, size, files, written>>
    BY <1>1 DEF FilesTyped, Bounded, written
  <1>2. ASSUME open, size > 0, size + 1 > MaxBytes, NEW result, NEW removed \in BOOLEAN,
               WriteTo(Shifted(MaxBackups, removed),
                                OpenedSize(Shifted(MaxBackups, removed)), result)
        PROVE  FilesTyped'
    <2> DEFINE fs == Shifted(MaxBackups, removed)
    <2>1. Bounded(fs) /\ fs[0] = <<>> /\ MaxBytes \in Nat \ {0}
      BY ShiftedBounded, RoomIsNat DEF FilesTyped
    <2>2. WriteTo(fs, OpenedSize(fs), result)
      BY <1>2
    <2> HIDE DEF fs
    <2>3. OpenedSize(fs) = 0 /\ Len(fs[0]) = 0
      BY <2>1 DEF OpenedSize
    <2> QED
      BY <2>1, <2>2, <2>3, WriteBounded
  <1>3. ASSUME open, ~(size > 0 /\ size + 1 > MaxBytes), NEW result,
               WriteTo(files, size, result)
        PROVE  FilesTyped'
    <2>1. size + 1 <= MaxBytes /\ size \in 0 .. MaxBytes /\ size = Len(files[0]) /\ Bounded(files)
      BY <1>3, RoomIsNat DEF FilesTyped
    <2> QED
      BY <1>3, <2>1, WriteBounded
  <1>4. CASE RotateFails
    <2>1. PICK n \in Slots, removed \in BOOLEAN :
            files' = Shifted(n, removed) /\ size' \in {0, size}
      BY <1>4 DEF RotateFails
    <2>2. Bounded(files')
      BY <2>1, ShiftedBounded DEF FilesTyped
    <2>3. open' = FALSE /\ recent' = 0 /\ last' = last
      BY <1>4 DEF RotateFails
    <2>4. recent' \in 0 .. Room /\ size' \in 0 .. MaxBytes
      BY <2>1, <2>3, RoomIsNat DEF FilesTyped
    <2> QED
      BY <2>2, <2>3, <2>4 DEF FilesTyped, Bounded
  <1> QED
    BY <1>1, <1>2, <1>3, <1>4 DEF writeLine

\* Switching opens a file with its size, or leaves none open; the goroutine of before
\* is told to end.
LEMMA SwitchTyped ==
  ASSUME FilesTyped, LoopsTyped, NEW p, NEW e, NEW good, NEW bad,
         Apply(p, e, good, bad)
  PROVE  FilesTyped' /\ LoopsTyped' /\ calm' = calm
  <1>1. UNCHANGED <<files, last, recent, calm>>
    BY DEF Apply, written
  <1>2. CASE Unmoved
    BY <1>1, <1>2 DEF Unmoved, recorder, FilesTyped, Bounded, LoopsTyped
  <1>3. CASE enabled /\ disable
    <2>1. reader \in Loops
      BY <1>3 DEF LoopsTyped
    <2>2. FilesTyped'
      BY <1>1, <1>3 DEF disable, FilesTyped, Bounded
    <2>3. LoopsTyped'
      BY <1>3, <2>1 DEF disable, LoopsTyped
    <2> QED
      BY <1>1, <2>2, <2>3
  <1>4. ASSUME ~enabled, NEW l \in Loops, enable(l), UNCHANGED awaiting
        PROVE  FilesTyped' /\ LoopsTyped'
    <2>1. size' = Len(files[0]) /\ open' = TRUE
      BY <1>4 DEF enable, OpenedSize
    <2>2. Len(files[0]) \in 0 .. MaxBytes
      BY RoomIsNat DEF FilesTyped, Bounded
    <2>3. FilesTyped'
      BY <1>1, <2>1, <2>2 DEF FilesTyped, Bounded
    <2>4. LoopsTyped'
      BY <1>4, RoomIsNat DEF enable, LoopsTyped
    <2> QED
      BY <2>3, <2>4
  <1> QED
    BY <1>1, <1>2, <1>3, <1>4 DEF Apply

\* Each step of a goroutine moves that goroutine, and the line it writes is bounded.
LEMMA GoroutineTyped ==
  ASSUME FilesTyped, LoopsTyped, NEW l \in Loops,
         \/ Subscribe(l) \/ Scan(l) \/ writeLine(l)
         \/ Failed(l) \/ Backoff(l)
  PROVE  FilesTyped' /\ LoopsTyped' /\ calm' = calm
  <1>1. ASSUME NEW p \in {"none", "reading", "failed", "write", "backoff", "subscribe"},
               loop[l] # "none", Move(l, p), UNCHANGED <<enabled, reader, cancelled, awaiting>>
        PROVE  LoopsTyped'
    BY <1>1 DEF Move, LoopsTyped
  <1>2. CASE writeLine(l)
    <2>1. calm' = calm /\ UNCHANGED <<enabled, reader, cancelled, awaiting>> /\ loop[l] # "none"
      BY <1>2 DEF writeLine, request
    <2>2. \E p \in {"reading", "failed"} : Move(l, p)
      BY <1>2 DEF writeLine
    <2> QED
      BY <1>1, <1>2, <2>1, <2>2, LineBounded
  <1>3. CASE \/ Subscribe(l) \/ Scan(l)
             \/ Failed(l) \/ Backoff(l)
    <2> USE DEF Subscribe, Scan, Failed, Backoff
    <2>1. UNCHANGED <<enabled, reader, cancelled, awaiting, calm, files, size, open, last, recent>>
      BY <1>3 DEF recorder, request, written
    <2>2. /\ loop[l] # "none"
          /\ \E p \in {"none", "reading", "failed", "write", "backoff", "subscribe"} :
               Move(l, p)
      BY <1>3
    <2>3. FilesTyped'
      BY <2>1 DEF FilesTyped, Bounded
    <2> QED
      BY <1>1, <2>1, <2>2, <2>3
  <1> QED
    BY <1>2, <1>3

LEMMA RecorderInvStep ==
  RecorderInv /\ [RecorderNext]_recorderVars => RecorderInv'
  <1> SUFFICES ASSUME SettingInv, FilesTyped, LoopsTyped, calm \in BOOLEAN,
                      [RecorderNext]_recorderVars
               PROVE  FilesTyped' /\ LoopsTyped' /\ (calm \in BOOLEAN)'
    BY RecorderStep DEF RecorderInv
  <1>1. CASE \E l \in Loops :
               \/ Subscribe(l) \/ Scan(l) \/ writeLine(l)
               \/ Failed(l) \/ Backoff(l)
    BY <1>1, GoroutineTyped
  <1>2. CASE ApplySetting \/ Reapply \/ Start
    BY <1>2, SwitchTyped DEF ApplySetting, Reapply, Start
  <1>3. CASE UNCHANGED <<files, size, open, last, recent, enabled, reader, loop, cancelled>>
             /\ awaiting' \in {awaiting, "none"} /\ calm' \in {calm, TRUE}
    BY <1>3 DEF FilesTyped, Bounded, LoopsTyped
  <1>4. CASE \/ \E e \in BOOLEAN : handleManagerLogging(e)
             \/ \E result \in Outcomes :
                  CommitSetting(result) \/ Undo(result) \/ StartUnset(result)
             \/ Wait \/ CalmDown \/ UNCHANGED recorderVars
    BY <1>3, <1>4 DEF handleManagerLogging, CommitSetting, Undo,
                      StartUnset, Wait, CalmDown,
                      UpdateGlobalConfig, recorder, written,
                      request, recorderVars
  <1>5. CASE Restart
    <2>0. open' = FALSE /\ size' = 0 /\ UNCHANGED <<files, last, recent>>
      BY <1>5 DEF Restart, written
    <2>1. FilesTyped'
      <3>1. size' \in 0 .. MaxBytes
        BY <2>0, RoomIsNat
      <3>2. Bounded(files)' /\ last' \in Numbers /\ recent' \in 0 .. Room
        BY <2>0 DEF FilesTyped, Bounded
      <3> QED
        BY <2>0, <3>1, <3>2 DEF FilesTyped
    <2>2. LoopsTyped'
      BY <1>5, RoomIsNat DEF Restart, LoopsTyped
    <2> QED
      BY <1>5, <2>1, <2>2 DEF Restart
  <1> QED
    BY <1>1, <1>2, <1>4, <1>5 DEF RecorderNext

LEMMA RecorderInvInit == RecorderInit => RecorderInv
  <1> SUFFICES ASSUME RecorderInit PROVE RecorderInv
    OBVIOUS
  <1>1. files = [i \in Slots |-> <<>>] => Bounded(files)
    BY RoomIsNat DEF Bounded
  <1>2. FilesTyped
    BY <1>1, RoomIsNat DEF RecorderInit, FilesTyped
  <1>3. LoopsTyped
    BY RoomIsNat DEF RecorderInit, LoopsTyped
  <1> QED
    BY <1>2, <1>3, SettingInit DEF RecorderInv, RecorderInit

\* Every reachable state of the recorder is well typed: one goroutine at most goes on
\* reading, and the size counted in memory stays within the bound.
THEOREM RecorderTypeCorrect == RecorderSpec => []RecorderTypeOK
  <1>1. RecorderInv => RecorderTypeOK
    BY DEF RecorderInv, SettingInv, SettingTyped, Stages, FilesTyped, Bounded, LoopsTyped,
           RecorderTypeOK
  <1> QED
    BY <1>1, RecorderInvInit, RecorderInvStep, PTL DEF RecorderSpec

\* rotateLocked: no file outgrows its bound, though its size is counted in memory and
\* rotations may fail half way; for any limits.
THEOREM NoFileOutgrows ==
  RecorderSpec => [](\A i \in Slots : Len(files[i]) <= MaxBytes)
  <1>1. RecorderInv => \A i \in Slots : Len(files[i]) <= MaxBytes
    BY DEF RecorderInv, FilesTyped, Bounded
  <1> QED
    BY <1>1, RecorderInvInit, RecorderInvStep, PTL DEF RecorderSpec

-----------------------------------------------------------------------------
(* The lines kept *)

HoldingIn(fs) == {i \in Slots : fs[i] # <<>>}

\* From a file's line to the next, from a file to the next newer one, and to the last
\* line written, each line is followed by its successor.
Ordered(fs, l) ==
  /\ \A i \in HoldingIn(fs) : \A k \in 2 .. Len(fs[i]) : fs[i][k] = Succ(fs[i][k - 1])
  /\ \A i, j \in HoldingIn(fs) :
       i < j /\ (\A k \in HoldingIn(fs) : k <= i \/ j <= k) => fs[i][1] = Succ(fs[j][Len(fs[j])])
  /\ \A i \in HoldingIn(fs) : (\A k \in HoldingIn(fs) : i <= k) => fs[i][Len(fs[i])] = l

\* Only a full file is rotated.
FullOlder(fs) == \A i \in Slots \ {0} : Len(fs[i]) \in {0, MaxBytes}

\* The lines since the last rotation that failed are in files without a gap.
Enough(fs, r) ==
  \E c \in 0 .. MaxBackups :
    /\ \A i \in 1 .. c : fs[i] # <<>>
    /\ r <= Len(fs[0]) + MaxBytes * c

LinesInv == Ordered(files, last) /\ FullOlder(files) /\ Enough(files, recent)

\* Files that are moved and dropped without changing their order stay in order, when
\* those that are dropped are the oldest.
LEMMA MovedOrdered ==
  ASSUME Ordered(files, last), NEW fs, NEW src \in [Slots -> Slots],
         \A i \in HoldingIn(fs) : fs[i] = files[src[i]],
         \A i, j \in HoldingIn(fs) : i < j => src[i] < src[j],
         \A i \in HoldingIn(fs), k \in HoldingIn(files) :
           k < src[i] => \E m \in HoldingIn(fs) : m < i /\ src[m] = k
  PROVE  Ordered(fs, last)
  <1>0. /\ \A i \in Slots : i \in Int
        /\ \A i \in HoldingIn(fs) : i \in Slots /\ src[i] \in HoldingIn(files)
    BY DEF HoldingIn, Slots
  <1>1. \A i \in HoldingIn(fs) : \A k \in 2 .. Len(fs[i]) : fs[i][k] = Succ(fs[i][k - 1])
    BY <1>0 DEF Ordered
  <1>2. ASSUME NEW i \in HoldingIn(fs), NEW j \in HoldingIn(fs), i < j,
               \A k \in HoldingIn(fs) : k <= i \/ j <= k
        PROVE  fs[i][1] = Succ(fs[j][Len(fs[j])])
    <2>1. ASSUME NEW k \in HoldingIn(files), src[i] < k, k < src[j] PROVE FALSE
      <3>1. PICK m \in HoldingIn(fs) : m < j /\ src[m] = k
        BY <2>1
      <3>2. m <= i
        BY <1>0, <1>2, <3>1
      <3>3. src[m] <= src[i]
        BY <1>0, <3>2
      <3> QED
        BY <1>0, <2>1, <3>1, <3>3
    <2>2. \A k \in HoldingIn(files) : k <= src[i] \/ src[j] <= k
      BY <1>0, <2>1 DEF HoldingIn
    <2>3. src[i] < src[j]
      BY <1>2
    <2> QED
      BY <1>0, <2>2, <2>3 DEF Ordered
  <1>3. ASSUME NEW i \in HoldingIn(fs), \A k \in HoldingIn(fs) : i <= k
        PROVE  fs[i][Len(fs[i])] = last
    <2>1. ASSUME NEW k \in HoldingIn(files), k < src[i] PROVE FALSE
      <3>1. PICK m \in HoldingIn(fs) : m < i /\ src[m] = k
        BY <2>1
      <3> QED
        BY <1>0, <1>3, <3>1
    <2>2. \A k \in HoldingIn(files) : src[i] <= k
      BY <1>0, <2>1 DEF HoldingIn
    <2> QED
      BY <1>0, <2>2 DEF Ordered
  <1> QED
    BY <1>1, <1>2, <1>3 DEF Ordered

\* A rotation, ended early or not, moves files so.
LEMMA ShiftedOrdered ==
  ASSUME Ordered(files, last), NEW n \in Slots, NEW removed \in BOOLEAN
  PROVE  Ordered(Shifted(n, removed), last)
  <1> DEFINE fs == Shifted(n, removed)
             src == [i \in Slots |-> IF i > MaxBackups - n /\ files[i - 1] # <<>> THEN i - 1 ELSE i]
  <1>1. src \in [Slots -> Slots]
    BY RoomIsNat DEF Slots
  <1>2. \A i \in Slots :
          fs[i] = IF i > MaxBackups - n /\ files[i - 1] # <<>> THEN files[i - 1]
                  ELSE IF i < MaxBackups - n \/ (i = MaxBackups /\ ~removed) THEN files[i]
                  ELSE <<>>
    BY DEF Shifted
  <1>3. \A i \in Slots :
          src[i] = IF i > MaxBackups - n /\ files[i - 1] # <<>> THEN i - 1 ELSE i
    OBVIOUS
  <1> HIDE DEF fs, src
  <1>4. \A i \in HoldingIn(fs) : fs[i] = files[src[i]]
    BY <1>2, <1>3 DEF HoldingIn
  <1>5. ASSUME NEW i \in HoldingIn(fs), NEW j \in HoldingIn(fs), i < j PROVE src[i] < src[j]
    BY <1>2, <1>3, <1>5, RoomIsNat DEF HoldingIn, Slots
  <1>6. ASSUME NEW i \in HoldingIn(fs), NEW k \in HoldingIn(files), k < src[i]
        PROVE  \E m \in HoldingIn(fs) : m < i /\ src[m] = k
    <2>1. CASE k < MaxBackups - n
      <3>1. k \in HoldingIn(fs) /\ src[k] = k
        BY <1>2, <1>3, <2>1, RoomIsNat DEF HoldingIn, Slots
      <3>2. k < i
        BY <1>3, <1>6, RoomIsNat DEF HoldingIn, Slots
      <3> QED
        BY <3>1, <3>2
    <2>2. CASE k >= MaxBackups - n
      <3>0. k \in Slots /\ i \in Slots /\ src[i] \in Slots
        BY <1>1 DEF HoldingIn
      <3>1. k < MaxBackups /\ k + 1 \in Slots /\ k \in Slots /\ i \in Slots
        BY <1>6, <3>0, RoomIsNat DEF Slots
      <3>2. k + 1 \in HoldingIn(fs) /\ src[k + 1] = k
        BY <1>2, <1>3, <2>2, <3>1, RoomIsNat DEF HoldingIn, Slots
      <3>3. k + 1 <= i /\ i # k + 1
        BY <1>3, <1>6, <3>1, <3>2, RoomIsNat DEF Slots
      <3> QED
        BY <3>1, <3>2, <3>3 DEF Slots
    <2> QED
      BY <2>1, <2>2, RoomIsNat DEF HoldingIn, Slots
  <1>7. Ordered(fs, last)
    BY <1>1, <1>4, <1>5, <1>6, MovedOrdered
  <1> QED
    BY <1>7 DEF fs

\* What a rotation moves is full, and leaves no gap.
LEMMA ShiftedKept ==
  ASSUME FilesTyped, LinesInv, Len(files[0]) = MaxBytes, NEW n \in Slots, NEW removed \in BOOLEAN
  PROVE  /\ FullOlder(Shifted(n, removed))
         /\ n = MaxBackups => Enough(Shifted(n, removed), recent)
  <1> DEFINE fs == Shifted(n, removed)
  <1>1. \A i \in Slots :
          fs[i] = IF i > MaxBackups - n /\ files[i - 1] # <<>> THEN files[i - 1]
                  ELSE IF i < MaxBackups - n \/ (i = MaxBackups /\ ~removed) THEN files[i]
                  ELSE <<>>
    BY DEF Shifted
  <1>2. Len(<<>>) = 0 /\ <<>> = <<>> /\ MaxBytes # 0
    BY RoomIsNat
  <1> HIDE DEF fs
  <1>3. FullOlder(fs)
    <2>1. \A i \in Slots \ {0} : i - 1 \in Slots /\ i - 1 \in (Slots \ {0}) \cup {0}
      BY RoomIsNat DEF Slots
    <2>2. \A i \in Slots \ {0} : fs[i] \in {<<>>, files[i], files[i - 1]}
      BY <1>1
    <2> QED
      BY <1>2, <2>1, <2>2 DEF FullOlder, LinesInv
  <1>4. ASSUME n = MaxBackups PROVE Enough(fs, recent)
    <2>1. PICK c \in 0 .. MaxBackups :
            (\A i \in 1 .. c : files[i] # <<>>) /\ recent <= Len(files[0]) + MaxBytes * c
      BY DEF LinesInv, Enough
    <2>2. files[0] # <<>>
      BY <1>2
    <2>3. fs[0] = <<>>
      BY <1>1, <1>4, RoomIsNat DEF Slots
    <2>4. ASSUME NEW d \in 1 .. MaxBackups, d <= c + 1 PROVE \A i \in 1 .. d : fs[i] # <<>>
      <3> SUFFICES ASSUME NEW i \in 1 .. d PROVE fs[i] # <<>>
        OBVIOUS
      <3>1. i \in Slots /\ i > 0 /\ (i - 1 = 0 \/ i - 1 \in 1 .. c)
        BY <2>1, <2>4, RoomIsNat DEF Slots
      <3>2. files[i - 1] # <<>>
        BY <2>1, <2>2, <3>1
      <3> QED
        BY <1>1, <1>4, <3>1, <3>2, RoomIsNat
    <2>5. CASE c < MaxBackups
      <3>1. MaxBytes + MaxBytes * c = MaxBytes * (c + 1)
        BY RoomIsNat
      <3>2. c + 1 \in 1 .. MaxBackups /\ recent <= 0 + MaxBytes * (c + 1)
        BY <2>1, <2>5, <3>1, RoomIsNat
      <3> QED
        BY <1>2, <2>3, <2>4, <3>2 DEF Enough
    <2>6. CASE c = MaxBackups
      <3>1. recent <= 0 + MaxBytes * MaxBackups /\ MaxBackups \in 1 .. MaxBackups
        BY RoomIsNat DEF FilesTyped, Room
      <3> QED
        BY <1>2, <2>3, <2>4, <2>6, <3>1, RoomIsNat DEF Enough
    <2> QED
      BY <2>5, <2>6, RoomIsNat
  <1> QED
    BY <1>3, <1>4 DEF fs

\* A line follows the newest one.
LEMMA WriteLines ==
  ASSUME FilesTyped, NEW fs, Bounded(fs), NEW sz, NEW result, WriteTo(fs, sz, result),
         Ordered(fs, last), FullOlder(fs), Enough(fs, recent)
  PROVE  LinesInv'
  <1>1. CASE files' = fs /\ UNCHANGED <<last, recent>>
    BY <1>1 DEF LinesInv, Ordered, FullOlder, Enough, HoldingIn
  <1>2. CASE /\ files' = [fs EXCEPT ![0] = Append(@, Succ(last))]
             /\ last' = Succ(last)
             /\ recent' = IF recent < Room THEN recent + 1 ELSE recent
    <2> DEFINE new == Append(fs[0], Succ(last))
    <2>0. fs[0] \in Seq(Numbers) /\ Succ(last) \in Numbers /\ 0 \in Slots
      BY RoomIsNat DEF FilesTyped, Bounded
    <2>1. /\ Len(new) = Len(fs[0]) + 1 /\ Len(fs[0]) \in Nat /\ new[Len(new)] = Succ(last)
          /\ \A k \in 1 .. Len(fs[0]) : new[k] = fs[0][k]
          /\ new # <<>> /\ (fs[0] = <<>> => Len(fs[0]) = 0) /\ (fs[0] # <<>> => Len(fs[0]) > 0)
      BY <2>0
    <2>2. files'[0] = new /\ \A i \in Slots \ {0} : files'[i] = fs[i]
      BY <1>2, <2>0 DEF Bounded
    <2> HIDE DEF new
    <2>3. HoldingIn(files') = HoldingIn(fs) \cup {0} /\ 0 \in HoldingIn(files')
      BY <2>0, <2>1, <2>2 DEF HoldingIn
    <2>4. \A i \in Slots : i \in Int /\ 0 <= i
      BY DEF Slots
    <2>5. ASSUME 0 \in HoldingIn(fs) PROVE fs[0][Len(fs[0])] = last
      BY <2>4, <2>5 DEF Ordered, HoldingIn
    <2>6. \A i \in HoldingIn(files') : \A k \in 2 .. Len(files'[i]) :
            files'[i][k] = Succ(files'[i][k - 1])
      <3> SUFFICES ASSUME NEW i \in HoldingIn(files'), NEW k \in 2 .. Len(files'[i])
                   PROVE  files'[i][k] = Succ(files'[i][k - 1])
        OBVIOUS
      <3>1. CASE i # 0
        BY <2>2, <2>3, <3>1 DEF Ordered, HoldingIn
      <3>2. CASE i = 0 /\ k <= Len(fs[0])
        <4>1. 0 \in HoldingIn(fs) /\ k \in 2 .. Len(fs[0]) /\ k \in 1 .. Len(fs[0])
              /\ k - 1 \in 1 .. Len(fs[0])
          BY <2>0, <2>1, <3>2 DEF HoldingIn
        <4>2. fs[0][k] = Succ(fs[0][k - 1])
          BY <4>1 DEF Ordered
        <4> QED
          BY <2>1, <2>2, <3>2, <4>1, <4>2
      <3>3. CASE i = 0 /\ k > Len(fs[0])
        <4>1. k = Len(new) /\ k - 1 = Len(fs[0]) /\ 0 \in HoldingIn(fs) /\ k - 1 \in 1 .. Len(fs[0])
          BY <2>0, <2>1, <2>2, <3>3 DEF HoldingIn
        <4> QED
          BY <2>1, <2>2, <2>5, <3>3, <4>1
      <3> QED
        BY <2>1, <3>1, <3>2, <3>3
    <2>7. ASSUME NEW i \in HoldingIn(files'), NEW j \in HoldingIn(files'), i < j,
                 \A k \in HoldingIn(files') : k <= i \/ j <= k
          PROVE  files'[i][1] = Succ(files'[j][Len(files'[j])])
      <3>0. j # 0 /\ j \in HoldingIn(fs) /\ files'[j] = fs[j] /\ i \in Slots
        BY <2>2, <2>3, <2>4, <2>7 DEF HoldingIn
      <3>1. CASE i \in HoldingIn(fs)
        <4>1. fs[i][1] = Succ(fs[j][Len(fs[j])])
          BY <2>3, <2>7, <3>0, <3>1 DEF Ordered
        <4>2. files'[i][1] = fs[i][1]
          BY <2>1, <2>2, <3>0, <3>1 DEF HoldingIn
        <4> QED
          BY <3>0, <4>1, <4>2
      <3>2. CASE i \notin HoldingIn(fs)
        <4>1. i = 0 /\ fs[0] = <<>>
          BY <2>0, <2>3, <3>2 DEF HoldingIn
        <4>2. \A k \in HoldingIn(fs) : j <= k
          BY <2>3, <2>4, <2>7, <3>2, <4>1 DEF HoldingIn
        <4>3. fs[j][Len(fs[j])] = last
          BY <3>0, <4>2 DEF Ordered
        <4>4. new[1] = Succ(last)
          BY <2>1, <4>1
        <4> QED
          BY <2>2, <3>0, <4>1, <4>3, <4>4
      <3> QED
        BY <3>1, <3>2
    <2>8. ASSUME NEW i \in HoldingIn(files'), \A k \in HoldingIn(files') : i <= k
          PROVE  files'[i][Len(files'[i])] = last'
      <3>1. i = 0
        BY <2>3, <2>4, <2>8 DEF HoldingIn
      <3> QED
        BY <1>2, <2>1, <2>2, <3>1
    <2>9. Ordered(files', last')
      BY <2>6, <2>7, <2>8 DEF Ordered
    <2>10. FullOlder(files')
      BY <2>2 DEF FullOlder
    <2>11. Enough(files', recent')
      <3>1. PICK c \in 0 .. MaxBackups :
              (\A i \in 1 .. c : fs[i] # <<>>) /\ recent <= Len(fs[0]) + MaxBytes * c
        BY DEF Enough
      <3>2. \A i \in 1 .. c : i \in Slots \ {0}
        BY RoomIsNat DEF Slots
      <3>3. \A i \in 1 .. c : files'[i] # <<>>
        BY <2>2, <3>1, <3>2
      <3>4. MaxBytes * c \in Nat /\ recent \in Nat
        BY RoomIsNat DEF FilesTyped
      <3>5. recent' <= Len(files'[0]) + MaxBytes * c
        <4> DEFINE m == MaxBytes * c
        <4>1. m \in Nat /\ recent <= Len(fs[0]) + m
          BY <3>1, <3>4
        <4> HIDE DEF m
        <4>2. recent' <= Len(files'[0]) + m
          BY <1>2, <2>1, <2>2, <3>4, <4>1
        <4> QED
          BY <4>2 DEF m
      <3> QED
        BY <3>3, <3>5 DEF Enough
    <2> QED
      BY <2>9, <2>10, <2>11 DEF LinesInv, Ordered, FullOlder, Enough, HoldingIn
  <1> QED
    BY <1>1, <1>2 DEF WriteTo

LEMMA LineKept ==
  ASSUME FilesTyped, LinesInv, NEW l \in Loops, writeLine(l)
  PROVE  LinesInv'
  <1>1. CASE UNCHANGED <<open, size, files, written>>
    BY <1>1 DEF written, LinesInv, Ordered, FullOlder, Enough, HoldingIn
  <1>2. ASSUME open, size > 0, size + 1 > MaxBytes PROVE Len(files[0]) = MaxBytes
    BY <1>2, RoomIsNat DEF FilesTyped
  <1>3. ASSUME open, size > 0, size + 1 > MaxBytes, NEW result, NEW removed \in BOOLEAN,
               WriteTo(Shifted(MaxBackups, removed), OpenedSize(Shifted(MaxBackups, removed)), result)
        PROVE  LinesInv'
    <2>1. /\ Bounded(Shifted(MaxBackups, removed)) /\ Ordered(Shifted(MaxBackups, removed), last)
          /\ FullOlder(Shifted(MaxBackups, removed)) /\ Enough(Shifted(MaxBackups, removed), recent)
      BY <1>2, <1>3, RoomIsNat, ShiftedBounded, ShiftedOrdered, ShiftedKept DEF LinesInv, FilesTyped
    <2> QED
      BY <1>3, <2>1, WriteLines
  <1>4. ASSUME NEW result, WriteTo(files, size, result) PROVE LinesInv'
    BY <1>4, WriteLines DEF LinesInv, FilesTyped
  <1>5. ASSUME open, size > 0, size + 1 > MaxBytes, RotateFails PROVE LinesInv'
    <2>1. PICK n \in Slots, removed \in BOOLEAN : files' = Shifted(n, removed)
      BY <1>5 DEF RotateFails
    <2>2. last' = last /\ recent' = 0
      BY <1>5 DEF RotateFails
    <2>3. Ordered(files', last') /\ FullOlder(files')
      BY <1>2, <1>5, <2>1, <2>2, ShiftedOrdered, ShiftedKept DEF LinesInv
    <2>4. Len(files'[0]) \in Nat
      BY <2>1, ShiftedBounded, RoomIsNat DEF FilesTyped, Bounded
    <2>5. Enough(files', recent')
      <3>1. 0 \in 0 .. MaxBackups /\ 1 .. 0 = {} /\ MaxBytes * 0 = 0
        BY RoomIsNat
      <3> QED
        BY <2>2, <2>4, <3>1 DEF Enough
    <2> QED
      BY <2>3, <2>5 DEF LinesInv, Ordered, FullOlder, Enough, HoldingIn
  <1> QED
    BY <1>1, <1>3, <1>4, <1>5 DEF writeLine

LEMMA LinesInit == RecorderInit => LinesInv
  <1> SUFFICES ASSUME RecorderInit PROVE LinesInv
    OBVIOUS
  <1>1. files = [i \in Slots |-> <<>>] /\ recent = 0
    BY DEF RecorderInit
  <1>2. HoldingIn(files) = {} /\ Len(files[0]) = 0
    BY <1>1, RoomIsNat DEF HoldingIn
  <1>3. 0 \in 0 .. MaxBackups /\ 1 .. 0 = {} /\ MaxBytes * 0 = 0
    BY RoomIsNat
  <1>4. Enough(files, recent)
    BY <1>1, <1>2, <1>3 DEF Enough
  <1> QED
    BY <1>1, <1>2, <1>4 DEF LinesInv, Ordered, FullOlder

LEMMA LinesStep == RecorderInv /\ LinesInv /\ [RecorderNext]_recorderVars => LinesInv'
  <1> SUFFICES ASSUME FilesTyped, LinesInv, [RecorderNext]_recorderVars PROVE LinesInv'
    BY DEF RecorderInv
  <1>1. CASE \E l \in Loops : writeLine(l)
    BY <1>1, LineKept
  <1>2. CASE UNCHANGED <<files, last, recent>>
    BY <1>2 DEF LinesInv, Ordered, FullOlder, Enough, HoldingIn
  <1>3. CASE \/ \E l \in Loops : Subscribe(l) \/ Scan(l) \/ Failed(l) \/ Backoff(l)
             \/ \E e \in BOOLEAN : handleManagerLogging(e)
             \/ \E result \in Outcomes : CommitSetting(result) \/ Undo(result) \/ StartUnset(result)
             \/ ApplySetting \/ Wait \/ Reapply
             \/ Start \/ Restart \/ CalmDown \/ UNCHANGED recorderVars
    BY <1>2, <1>3 DEF Subscribe, Scan, Failed, Backoff, handleManagerLogging, CommitSetting, Undo,
                      StartUnset, UpdateGlobalConfig, ApplySetting, Wait, Reapply, Start, Apply,
                      Restart, CalmDown, recorderVars, written
  <1> QED
    BY <1>1, <1>3 DEF RecorderNext

LEMMA UpTo ==
  ASSUME NEW n \in Nat
  PROVE  IsFiniteSet(1 .. n) /\ Cardinality(1 .. n) = n
  <1>1. 1 \in Int /\ n \in Int
    OBVIOUS
  <1>2. IsFiniteSet(1 .. n) /\ Cardinality(1 .. n) = IF 1 > n THEN 0 ELSE n - 1 + 1
    BY <1>1, FS_Interval
  <1> QED
    BY <1>2

\* The lines of a file, and of files without a gap, are as many as their lengths say.
LEMMA EnoughLines ==
  ASSUME FilesTyped, FullOlder(files), Enough(files, recent)
  PROVE  Cardinality(Lines) >= recent
  <1> PICK c \in 0 .. MaxBackups :
        (\A i \in 1 .. c : files[i] # <<>>) /\ recent <= Len(files[0]) + MaxBytes * c
    BY DEF Enough
  <1> DEFINE n == Len(files[0])
             older == (1 .. c) \X (1 .. MaxBytes)
             current == {0} \X (1 .. n)
  <1>1. n \in 0 .. MaxBytes /\ MaxBytes \in Nat /\ c \in Nat /\ MaxBackups \in Nat
    BY RoomIsNat DEF FilesTyped, Bounded
  <1>2. IsFiniteSet(Lines)
    <2>1. IsFiniteSet(Slots) /\ IsFiniteSet(1 .. MaxBytes)
      BY <1>1, UpTo, FS_Interval DEF Slots
    <2>2. IsFiniteSet(Slots \X (1 .. MaxBytes))
      BY <2>1, FS_Product
    <2> QED
      BY <2>2, FS_Subset DEF Lines
  <1>3. IsFiniteSet(older) /\ Cardinality(older) = c * MaxBytes
    <2>1. IsFiniteSet(1 .. c) /\ Cardinality(1 .. c) = c
      BY <1>1, UpTo
    <2>2. IsFiniteSet(1 .. MaxBytes) /\ Cardinality(1 .. MaxBytes) = MaxBytes
      BY <1>1, UpTo
    <2> QED
      BY <2>1, <2>2, FS_Product
  <1>4. IsFiniteSet(current) /\ Cardinality(current) = n
    <2>1. IsFiniteSet(1 .. n) /\ Cardinality(1 .. n) = n
      <3> n \in Nat
        BY <1>1
      <3> HIDE DEF n
      <3> QED
        BY UpTo
    <2>2. IsFiniteSet({0}) /\ Cardinality({0}) = 1
      BY FS_Singleton
    <2>3. IsFiniteSet(current) /\ Cardinality(current) = Cardinality({0}) * Cardinality(1 .. n)
      <3> HIDE DEF n
      <3> QED
        BY <2>1, <2>2, FS_Product
    <2>4. n \in Nat
      BY <1>1
    <2> HIDE DEF n, current
    <2> QED
      BY <2>1, <2>2, <2>3, <2>4
  <1>5. older \cap current = {}
    OBVIOUS
  <1>6. older \cup current \in SUBSET Lines
    <2>1. ASSUME NEW i \in 1 .. c PROVE Len(files[i]) = MaxBytes /\ i \in Slots
      <3>1. i \in Slots \ {0} /\ files[i] # <<>> /\ files[i] \in Seq(Numbers)
        BY <1>1 DEF Slots, FilesTyped, Bounded
      <3>2. Len(files[i]) # 0
        BY <3>1
      <3> QED
        BY <3>1, <3>2 DEF FullOlder
    <2>2. older \in SUBSET Lines
      BY <1>1, <2>1 DEF Lines
    <2>3. current \in SUBSET Lines
      BY <1>1, RoomIsNat DEF Lines
    <2> QED
      BY <2>2, <2>3
  <1>7. Cardinality(older \cup current) = c * MaxBytes + n
    <2>1. Cardinality(older \cap current) = 0
      BY <1>5, FS_EmptySet
    <2>2. Cardinality(older \cup current) = Cardinality(older) + Cardinality(current) - 0
      BY <1>3, <1>4, <2>1, FS_Union
    <2> HIDE DEF older, current
    <2> QED
      BY <1>1, <1>3, <1>4, <2>2
  <1>8. Cardinality(older \cup current) <= Cardinality(Lines)
    BY <1>2, <1>6, FS_Subset
  <1>9. Cardinality(Lines) \in Nat /\ recent \in Nat /\ c * MaxBytes = MaxBytes * c
    BY <1>1, <1>2, FS_CardinalityType, RoomIsNat DEF FilesTyped
  <1> HIDE DEF older, current
  <1> DEFINE m == MaxBytes * c
  <1>10. m \in Nat /\ recent <= n + m /\ m + n <= Cardinality(Lines)
    BY <1>1, <1>7, <1>8, <1>9
  <1> HIDE DEF m
  <1> QED
    BY <1>1, <1>9, <1>10

\* rotateLocked: whatever its renames do, the files hold the last lines in their order
\* without a gap, and as many as the older files have room for since a rotation last
\* failed: for any limits.
THEOREM NewestKeptHolds == RecorderSpec => []NewestKept
  <1>1. RecorderInv /\ LinesInv => NewestKept
    <2> SUFFICES ASSUME FilesTyped, Ordered(files, last), FullOlder(files), Enough(files, recent)
                 PROVE  NewestKept
      BY DEF RecorderInv, LinesInv
    <2>1. HoldingIn(files) = Holding /\ \A i : NewestOf(i) = files[i][Len(files[i])]
      BY DEF HoldingIn, Holding, NewestOf
    <2>2. \A i \in Slots : Len(files[i]) <= MaxBytes
      BY DEF FilesTyped, Bounded
    <2> QED
      BY <2>1, <2>2, EnoughLines DEF NewestKept, Ordered
  <1>2. RecorderInit => RecorderInv /\ LinesInv
    BY RecorderInvInit, LinesInit
  <1>3. RecorderInv /\ LinesInv /\ [RecorderNext]_recorderVars => (RecorderInv /\ LinesInv)'
    BY RecorderInvStep, LinesStep
  <1> QED
    BY <1>1, <1>2, <1>3, PTL DEF RecorderSpec

=============================================================================
