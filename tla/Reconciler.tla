----------------------------- MODULE Reconciler -----------------------------
(***************************************************************************)
(* Applying committed configurations to the core (mihomotui/reconcile.go). *)
(*                                                                         *)
(* A handler commits a configuration and submits a request to one worker,  *)
(* through a bounded channel, and waits 20 seconds for the report; the     *)
(* request stays when the wait ends.  The worker reads the configuration   *)
(* when it executes a request, generates the core's file, installs the TUN *)
(* rules, reloads the core or, failing that, restarts it, and removes the  *)
(* rules.  Which of the rules' steps are due is not read then: it was      *)
(* noted when the configuration was committed.                             *)
(*                                                                         *)
(* The core is started, from the generated file, and stopped by others,    *)
(* and dies.  The order of the steps inside MihomoProcess is CoreProcess's *)
(* concern, that of the TUN rules TunRouting's.                            *)
(***************************************************************************)
EXTENDS Integers, Sequences, FiniteSets

CONSTANTS
  Callers,     \* handlers that commit at the same time
  QueueSize,   \* the capacity of reconcileCh, 16 in the program
  MaxVersion,  \* bound: versions committed
  MaxWaiters,  \* bound: ended processes whose rules are not removed yet
  InitialTUN   \* bound: the setting at the start

ASSUME ReconcilerConstantsOK ==
  /\ IsFiniteSet(Callers) /\ "nobody" \notin Callers
  /\ QueueSize \in Nat \ {0} /\ MaxVersion \in Nat /\ MaxWaiters \in Nat
  /\ InitialTUN \subseteq BOOLEAN

Versions == 0 .. MaxVersion
Down == -1

VARIABLES
  version,   \* Version of the committed configuration
  tunAt,     \* System.TUN of each version
  file,      \* the version the core's file was generated from
  core,      \* the version the core has loaded, or Down
  starting,  \* a Start holds the process mutex: the TUN setting it has read
  cleans,    \* the waiter of the running process removes the rules after its end
  leaving,   \* how many waiters of ended processes have still to do so
  rules,     \* the TUN rules are installed
  queue,     \* reconcileCh
  worker,    \* reconcileLoop: its step, the request and what it has read
  pc, base,  \* each caller's step, and the version its client has read
  request,   \* what it has to submit
  answered,  \* history: the newest version reported as applied
  failed,    \* history: the last request executed was not applied
  doubt      \* history: a request or a removal of rules has failed, TUN was
             \* changed while an earlier change was under way, or the core was
             \* started while a waiter had still to remove rules

process == <<core, starting, cleans, leaving, rules>>
callers == <<pc, base, request>>
history == <<answered, failed, doubt>>
vars == <<version, tunAt, file, process, queue, worker, callers, history>>

NoRequest == [by |-> "nobody", syncTUN |-> FALSE, newTUN |-> FALSE, version |-> 0]
Resting   == [at |-> "idle", req |-> NoRequest, ok |-> FALSE]

Init ==
  /\ version = 0 /\ \E tun \in InitialTUN : tunAt = [v \in Versions |-> tun]
  /\ file = 0 /\ core = Down /\ starting = "no" /\ cleans = FALSE
  /\ leaving = 0 /\ rules = FALSE
  /\ queue = <<>> /\ worker = Resting
  /\ pc = [c \in Callers |-> "idle"] /\ base = [c \in Callers |-> 0]
  /\ request = [c \in Callers |-> NoRequest]
  /\ answered = 0 /\ failed = FALSE /\ doubt = FALSE

-----------------------------------------------------------------------------
(* Commits *)

\* A change of TUN is under way from its commit until the worker is done with it.
UnderWay ==
  \/ worker.req.syncTUN
  \/ \E i \in DOMAIN queue : queue[i].syncTUN
  \/ \E c \in Callers : pc[c] = "send" /\ request[c].syncTUN

Commits(tun) ==
  /\ version < MaxVersion
  /\ version' = version + 1
  /\ tunAt' = [v \in Versions |-> IF v > version THEN tun ELSE tunAt[v]]

\* The call of c, if it is one of the callers', is over.
Leaves(c) ==
  /\ pc' = [d \in Callers |-> IF d = c THEN "idle" ELSE pc[d]]
  /\ base' = [d \in Callers |-> IF d = c THEN 0 ELSE base[d]]
  /\ request' = [d \in Callers |-> IF d = c THEN NoRequest ELSE request[d]]

\* A client reads the configuration and posts it back, changed; the handler reads
\* the TUN setting it will compare with.  (Were it to read a later one, the version
\* of the client would be refused.)
CallConfig(c) ==
  /\ pc[c] = "idle"
  /\ base' = [base EXCEPT ![c] = version]
  /\ request' = [request EXCEPT ![c].newTUN = tunAt[version]]
  /\ pc' = [pc EXCEPT ![c] = "config"]
  /\ UNCHANGED <<version, tunAt, file, process, queue, worker, history>>

\* Mutant: a configuration based on an older version is accepted.
ReplaceGlobalConfigUnchecked(c, tun) ==
  /\ pc[c] = "config"
  /\ Commits(tun)
  /\ request' = [request EXCEPT ![c] =
       [by |-> c, syncTUN |-> @.newTUN # tun, newTUN |-> tun, version |-> version + 1]]
  /\ doubt' = (doubt \/ (request[c].newTUN # tun /\ UnderWay))

\* ReplaceGlobalConfig, and the request built from the setting read before it.
ReplaceGlobalConfig(c, tun) ==
  /\ pc[c] = "config" /\ base[c] = version
  /\ Commits(tun)
  /\ request' = [request EXCEPT ![c] =
       [by |-> c, syncTUN |-> @.newTUN # tun, newTUN |-> tun, version |-> version + 1]]
  /\ doubt' = (doubt \/ (request[c].newTUN # tun /\ UnderWay))

CommitConfig(c) ==
  /\ \E tun \in BOOLEAN : ReplaceGlobalConfig(c, tun)
  /\ pc' = [pc EXCEPT ![c] = "send"] /\ base' = [base EXCEPT ![c] = 0]
  /\ UNCHANGED <<file, process, queue, worker, answered, failed>>

\* A conflict, an invalid configuration or a failed write: 409, 400 or 500.
CommitRefused(c) ==
  /\ pc[c] = "config"
  /\ Leaves(c)
  /\ UNCHANGED <<version, tunAt, file, process, queue, worker, history>>

\* The handlers of subscriptions, pools and rule providers change what they find
\* and call reconcileLatest.
CommitSources(c) ==
  /\ pc[c] = "idle"
  /\ Commits(tunAt[version])
  /\ request' = [request EXCEPT ![c] = [NoRequest EXCEPT !.by = c, !.version = version + 1]]
  /\ pc' = [pc EXCEPT ![c] = "send"]
  /\ UNCHANGED <<file, process, queue, worker, base, history>>

-----------------------------------------------------------------------------
(* Submitting *)

\* Mutant: a request is merged with the one that is being executed.
SendUnlessBusy(c) ==
  /\ pc[c] = "send"
  /\ Len(queue) < QueueSize
  /\ queue' = IF worker.at = "idle" THEN Append(queue, request[c]) ELSE queue

\* d.reconcileCh <- req: waits for room.
Send(c) ==
  /\ pc[c] = "send"
  /\ Len(queue) < QueueSize
  /\ queue' = Append(queue, request[c])

Submit(c) ==
  /\ Send(c)
  /\ pc' = [pc EXCEPT ![c] = "wait"]
  /\ request' = [request EXCEPT ![c] = NoRequest]
  /\ UNCHANGED <<version, tunAt, file, process, worker, base, history>>

\* 20 seconds are over: the request goes on, its report goes nowhere.
TimesOut(c) ==
  /\ pc[c] = "wait"
  /\ Leaves(c)
  /\ queue' = [i \in DOMAIN queue |->
       IF queue[i].by = c THEN [queue[i] EXCEPT !.by = "nobody"] ELSE queue[i]]
  /\ worker' = IF worker.req.by = c THEN [worker EXCEPT !.req.by = "nobody"] ELSE worker
  /\ UNCHANGED <<version, tunAt, file, process, history>>

-----------------------------------------------------------------------------
(* The worker: runReconcile *)

WorkerGoes(step) == worker' = [worker EXCEPT !.at = step]

\* TUN was on when the change was committed, and is to be off.
TurnsOff == worker.req.syncTUN /\ ~worker.req.newTUN

Reloaded == worker' = [worker EXCEPT !.ok = TRUE, !.at = IF TurnsOff THEN "restore" ELSE "report"]

\* Mutant: the configuration is the one of the request, not the newest one.
GenerateOfRequest(req) == file' = req.version

\* GlobalConfig() when the request is executed, and its file.
GenerateMihomoConfig(req) == file' = version

Take ==
  /\ worker.at = "idle" /\ queue # <<>>
  /\ GenerateMihomoConfig(Head(queue))
  /\ worker' = [Resting EXCEPT !.at = "look", !.req = Head(queue)]
  /\ queue' = Tail(queue)
  /\ UNCHANGED <<version, tunAt, process, callers, history>>

\* There is no usable source, or the file cannot be written.
GenerateFails ==
  /\ worker.at = "idle" /\ queue # <<>>
  /\ worker' = [Resting EXCEPT !.at = "report", !.req = Head(queue)]
  /\ queue' = Tail(queue)
  /\ UNCHANGED <<version, tunAt, file, process, callers, history>>

\* IsRunning waits for the mutex of a Start under way.
LookAtCore ==
  /\ worker.at = "look" /\ starting = "no"
  /\ LET live == core # Down
         req  == worker.req
     IN  worker' = [worker EXCEPT !.ok = ~live,
           !.at = CASE ~live -> "report"
                    [] live /\ req.syncTUN /\ req.newTUN -> "setup"
                    [] OTHER -> "reload"]
  /\ UNCHANGED <<version, tunAt, file, process, queue, callers, history>>

\* Mutant: a failed setup is only logged.
SetupBestEffort ==
  /\ worker.at = "setup"
  /\ rules' \in BOOLEAN
  /\ WorkerGoes("reload")
  /\ UNCHANGED <<version, tunAt, file, core, starting, cleans, leaving, queue, callers, history>>

SetupTUNRouting ==
  /\ worker.at = "setup"
  /\ rules' = TRUE
  /\ WorkerGoes("reload")
  /\ UNCHANGED <<version, tunAt, file, core, starting, cleans, leaving, queue, callers, history>>

\* ReloadConfigs: the core reads its file.
Reload ==
  /\ worker.at = "reload" /\ core # Down
  /\ core' = file
  /\ Reloaded
  /\ UNCHANGED <<version, tunAt, file, starting, cleans, leaving, rules, queue, callers, history>>

\* The core is gone, refuses the file, or its answer is late.
ReloadFails ==
  /\ worker.at = "reload"
  /\ core' \in {core} \cup (IF core = Down THEN {} ELSE {file})
  /\ WorkerGoes("stop")
  /\ UNCHANGED <<version, tunAt, file, starting, cleans, leaving, rules, queue, callers, history>>

\* The process ends; its waiter clears running, and has still to remove the rules
\* it was started with.
CoreEnds ==
  /\ starting = "no"
  /\ core' = Down /\ cleans' = FALSE
  /\ cleans => leaving < MaxWaiters
  /\ leaving' = IF cleans THEN leaving + 1 ELSE leaving
  /\ UNCHANGED <<starting, rules>>

\* Restart: Stop, if there is something to stop, ...
RestartStops ==
  /\ worker.at = "stop"
  /\ WorkerGoes("start")
  /\ IF core = Down THEN UNCHANGED process ELSE CoreEnds
  /\ UNCHANGED <<version, tunAt, file, queue, callers, history>>

\* ... and Start, which reads the TUN setting committed by then.  Stop waits for
\* the waiter to have removed the rules, but only so long.
RestartStarts ==
  /\ worker.at = "start" /\ core = Down /\ starting = "no"
  /\ core' = file
  /\ cleans' = tunAt[version] /\ rules' = (rules \/ tunAt[version])
  /\ doubt' = (doubt \/ leaving > 0)
  /\ Reloaded
  /\ UNCHANGED <<version, tunAt, file, starting, leaving, queue, callers, answered, failed>>

RestoreTUNRouting ==
  /\ worker.at = "restore"
  /\ rules' = FALSE
  /\ WorkerGoes("report")
  /\ UNCHANGED <<version, tunAt, file, core, starting, cleans, leaving, queue, callers, history>>

\* Mutant: the panic of a request ends the worker.
PanicEndsLoop ==
  /\ worker.at \notin {"idle", "report"}
  /\ worker' = [worker EXCEPT !.at = "dead", !.ok = FALSE]
  /\ rules' = rules
  /\ UNCHANGED <<version, tunAt, file, core, starting, cleans, leaving, queue, callers, history>>

\* No rules, no restart, rules that stay, or a panic, which reconcileLoop recovers
\* from.  Rules that are not all there, or not all gone, do not count.
StageFails ==
  /\ worker.at \notin {"idle", "report"}
  /\ worker' = [worker EXCEPT !.at = "report", !.ok = FALSE]
  /\ rules' \in {rules, rules /\ worker.at \notin {"setup", "restore", "start"}}
  /\ UNCHANGED <<version, tunAt, file, core, starting, cleans, leaving, queue, callers, history>>

\* The report goes to the caller, if he still waits.
Report ==
  /\ worker.at = "report"
  /\ worker' = Resting
  /\ Leaves(worker.req.by)
  /\ failed' = ~worker.ok /\ doubt' = (doubt \/ ~worker.ok)
  /\ answered' = IF worker.ok /\ worker.req.version > answered
                 THEN worker.req.version ELSE answered
  /\ UNCHANGED <<version, tunAt, file, process, queue>>

-----------------------------------------------------------------------------
(* The core, started and stopped by others *)

\* Start takes the mutex, reads the TUN setting and installs the rules ...
StartBegins ==
  /\ core = Down /\ starting = "no"
  /\ starting' = IF tunAt[version] THEN "tun" ELSE "plain"
  /\ rules' = (rules \/ tunAt[version])
  /\ doubt' = (doubt \/ leaving > 0)
  /\ UNCHANGED <<version, tunAt, file, core, cleans, leaving, queue, worker, callers, answered, failed>>

\* ... and the process reads the file.
StartSpawns ==
  /\ starting # "no"
  /\ core' = file /\ cleans' = (starting = "tun") /\ starting' = "no"
  /\ UNCHANGED <<version, tunAt, file, leaving, rules, queue, worker, callers, history>>

\* No rules, or no process: then the mutex is released before they are removed.
StartFails ==
  /\ starting # "no"
  /\ starting' = "no"
  /\ \/ rules' = (rules /\ starting # "tun") /\ UNCHANGED leaving
     \/ starting = "tun" /\ leaving < MaxWaiters /\ leaving' = leaving + 1 /\ UNCHANGED rules
  /\ UNCHANGED <<version, tunAt, file, core, cleans, queue, worker, callers, history>>

\* A stop or a crash.
CoreExits ==
  /\ core # Down
  /\ CoreEnds
  /\ UNCHANGED <<version, tunAt, file, queue, worker, callers, history>>

\* RestoreTUNRouting of a waiter, without the mutex, whoever has started the core
\* again by then; a failure is only logged.
RulesRemoved ==
  /\ leaving > 0 /\ leaving' = leaving - 1
  /\ \E ok \in BOOLEAN : rules' = (rules /\ ~ok) /\ doubt' = (doubt \/ ~ok)
  /\ UNCHANGED <<version, tunAt, file, core, starting, cleans, queue, worker, callers, answered, failed>>

-----------------------------------------------------------------------------

WorkerNext ==
  \/ Take \/ GenerateFails \/ LookAtCore \/ SetupTUNRouting
  \/ Reload \/ ReloadFails \/ RestartStops \/ RestartStarts
  \/ RestoreTUNRouting \/ StageFails \/ Report

Next ==
  \/ \E c \in Callers :
       \/ CallConfig(c) \/ CommitConfig(c) \/ CommitRefused(c) \/ CommitSources(c)
       \/ Submit(c) \/ TimesOut(c)
  \/ WorkerNext
  \/ StartBegins \/ StartSpawns \/ StartFails \/ CoreExits \/ RulesRemoved

\* The worker and a Start go on: their requests to the core have deadlines; the
\* commands that install and remove rules have none, and are taken to end.  A
\* channel serves those who wait to send in their order.  Nothing is asked of the
\* callers' timers, nor of the waiters.
Fairness ==
  /\ WF_vars(WorkerNext) /\ WF_vars(StartSpawns \/ StartFails)
  /\ \A c \in Callers : SF_vars(Submit(c))

Spec == Init /\ [][Next]_vars /\ Fairness

-----------------------------------------------------------------------------
(* Properties *)

\* Applying implements LatestWins: whatever the order in which commits are
\* submitted, restarts included, an older configuration never overwrites a newer
\* one, neither in the file nor in the core, and a change reported as applied is
\* in the core and stays there (the comment of reconcileLoop, reconcile.go:37-38).
Latest == INSTANCE LatestWins WITH
  committed <- version,
  running   <- IF core = Down THEN file ELSE core

Refines == Latest!Spec

\* Nothing is in the channel, at the worker or on its way to it.
Settled ==
  /\ queue = <<>> /\ worker.at = "idle" /\ starting = "no"
  /\ \A c \in Callers : pc[c] \notin {"config", "send"}

\* When the last request has been executed, and was not refused, the core runs
\* the newest configuration any handler has submitted, though the handlers
\* submitted theirs in another order, through a full channel, or gave up waiting.
SettledMeansLatest ==
  Settled /\ ~failed => file = version /\ core \in {Down, version}

\* A core that has settled in TUN mode has its rules, if no step has failed, no
\* TUN setting was changed before an earlier change had been executed, and the
\* core was never started while a waiter had still to remove the rules of the life
\* before.  (It may not, if one was: the request remembers the change, not the
\* setting; and the waiter removes what the new life has installed,
\* mihomo_process.go:168-187, see CoreProcess.)
TunCoreIsGuarded ==
  Settled /\ ~doubt /\ core # Down /\ tunAt[core] => rules

\* A handler that has committed gets an answer, whatever becomes of the request
\* and however many wait for the channel, even if its timer were not to help.
SubmittersReturn ==
  \A c \in Callers : pc[c] = "send" ~> pc[c] = "idle"
=============================================================================
