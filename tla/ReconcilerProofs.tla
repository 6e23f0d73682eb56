-------------------------- MODULE ReconcilerProofs --------------------------
(***************************************************************************)
(* What applying configurations promises, for any number of handlers, any  *)
(* capacity of the channel and any number of versions; and what the pools  *)
(* of subscriptions, which rely on it, promise for any subscriptions,      *)
(* pools, workers and threshold.                                           *)
(***************************************************************************)
EXTENDS Reconciler, Subscriptions, FiniteSetTheorems, TLAPS

Requests == [by : Callers \cup {"nobody"}, syncTUN : BOOLEAN, newTUN : BOOLEAN,
             version : Versions]

Stages == {"look", "setup", "reload", "stop", "start", "restore"}

TypeOK ==
  /\ version \in Versions /\ tunAt \in [Versions -> BOOLEAN]
  /\ file \in Versions /\ core \in Versions \cup {Down}
  /\ starting \in {"no", "plain", "tun"} /\ cleans \in BOOLEAN
  /\ leaving \in Nat /\ rules \in BOOLEAN
  /\ queue \in Seq(Requests)
  /\ worker \in [at : Stages \cup {"idle", "report"}, req : Requests, ok : BOOLEAN]
  /\ pc \in [Callers -> {"idle", "config", "send", "wait"}]
  /\ base \in [Callers -> Versions]
  /\ request \in [Callers -> Requests]
  /\ answered \in Versions /\ failed \in BOOLEAN /\ doubt \in BOOLEAN

-----------------------------------------------------------------------------
(* Helpers *)

LEMMA VersionsAreNaturals ==
  /\ Versions \subseteq Nat /\ 0 \in Versions /\ Down \notin Versions
  /\ \A v \in Versions : v < MaxVersion => v + 1 \in Versions
  BY ReconcilerConstantsOK DEF Versions, Down

LEMMA AnonymousFields ==
  ASSUME NEW r \in Requests
  PROVE  LET a == [r EXCEPT !.by = "nobody"]
         IN  a \in Requests /\ a = [r EXCEPT !.by = "nobody"] /\ a.by = "nobody" /\
             a.syncTUN = r.syncTUN /\ a.newTUN = r.newTUN /\ a.version = r.version
  BY DEF Requests

\* Giving up leaves the channel as it is but for the requests' names.
LEMMA TimesOutQueue ==
  ASSUME queue \in Seq(Requests), NEW c, TimesOut(c)
  PROVE  /\ queue' \in Seq(Requests) /\ Len(queue') = Len(queue)
         /\ \A i \in 1 .. Len(queue) :
              /\ queue'[i].by = IF queue[i].by = c THEN "nobody" ELSE queue[i].by
              /\ queue'[i].syncTUN = queue[i].syncTUN /\ queue'[i].newTUN = queue[i].newTUN
              /\ queue'[i].version = queue[i].version
  <1> DEFINE Anon(i) == IF queue[i].by = c THEN [queue[i] EXCEPT !.by = "nobody"] ELSE queue[i]
  <1>1. queue' = [i \in DOMAIN queue |-> Anon(i)]
    BY DEF TimesOut
  <1>2. DOMAIN queue = 1 .. Len(queue) /\ Len(queue) \in Nat
    OBVIOUS
  <1>3. \A i \in 1 .. Len(queue) : Anon(i) \in Requests
    <2> TAKE i \in 1 .. Len(queue)
    <2>1. queue[i] \in Requests
      OBVIOUS
    <2> QED
      BY <2>1, AnonymousFields
  <1>4. \A i \in 1 .. Len(queue) : queue'[i] = Anon(i)
    BY <1>1, <1>2
  <1> HIDE DEF Anon
  <1>5. queue' \in Seq(Requests) /\ Len(queue') = Len(queue)
    BY <1>1, <1>2, <1>3
  <1>6. ASSUME NEW i \in 1 .. Len(queue)
        PROVE  /\ queue'[i].by = IF queue[i].by = c THEN "nobody" ELSE queue[i].by
               /\ queue'[i].syncTUN = queue[i].syncTUN /\ queue'[i].newTUN = queue[i].newTUN
               /\ queue'[i].version = queue[i].version
    <2>1. queue[i] \in Requests
      OBVIOUS
    <2>2. queue'[i] = IF queue[i].by = c THEN [queue[i] EXCEPT !.by = "nobody"] ELSE queue[i]
      BY <1>4 DEF Anon
    <2> QED
      BY <2>1, <2>2, AnonymousFields
  <1> QED
    BY <1>5, <1>6

\* Sending appends, and taking removes the first one.
LEMMA SubmitQueue ==
  ASSUME TypeOK, NEW c \in Callers, Send(c)
  PROVE  /\ Len(queue) \in Nat /\ Len(queue') = Len(queue) + 1
         /\ \A i \in 1 .. Len(queue) : queue'[i] = queue[i]
         /\ queue'[Len(queue) + 1] = request[c]
  <1>1. queue \in Seq(Requests) /\ request[c] \in Requests
    BY DEF TypeOK
  <1> QED
    BY <1>1 DEF Send

LEMMA TakeQueue ==
  ASSUME TypeOK, queue # <<>>, queue' = Tail(queue)
  PROVE  /\ Len(queue) \in Nat \ {0} /\ Len(queue') = Len(queue) - 1
         /\ Head(queue) = queue[1] /\ Head(queue) \in Requests
         /\ \A i \in 1 .. Len(queue') : i + 1 \in 1 .. Len(queue) /\ queue'[i] = queue[i + 1]
  <1>1. queue \in Seq(Requests)
    BY DEF TypeOK
  <1> QED
    BY <1>1

LEMMA LeavesType ==
  ASSUME TypeOK, NEW c, Leaves(c)
  PROVE  /\ pc' \in [Callers -> {"idle", "config", "send", "wait"}]
         /\ base' \in [Callers -> Versions]
         /\ request' \in [Callers -> Requests]
  <1>1. NoRequest \in Requests
    BY VersionsAreNaturals DEF NoRequest, Requests
  <1> QED
    BY <1>1, VersionsAreNaturals DEF Leaves, TypeOK

LEMMA InitType == Init => TypeOK
  <1> SUFFICES ASSUME Init PROVE TypeOK
    OBVIOUS
  <1>1. NoRequest \in Requests
    BY VersionsAreNaturals DEF NoRequest, Requests
  <1>2. worker \in [at : Stages \cup {"idle", "report"}, req : Requests, ok : BOOLEAN]
    BY <1>1 DEF Init, Resting
  <1>3. tunAt \in [Versions -> BOOLEAN]
    BY ReconcilerConstantsOK DEF Init
  <1>4. queue \in Seq(Requests)
    BY DEF Init
  <1> QED
    BY <1>1, <1>2, <1>3, <1>4, VersionsAreNaturals DEF Init, TypeOK

LEMMA CallerType ==
  ASSUME TypeOK, NEW c \in Callers,
         \/ CallConfig(c) \/ CommitConfig(c) \/ CommitRefused(c) \/ CommitSources(c)
         \/ Submit(c) \/ TimesOut(c)
  PROVE  TypeOK'
  <1> USE VersionsAreNaturals DEF TypeOK, process, callers, history
  <1>0. request[c] \in Requests /\ NoRequest \in Requests
    BY DEF NoRequest, Requests
  <1>1. CASE CallConfig(c)
    <2>1. [request[c] EXCEPT !.newTUN = tunAt[version]] \in Requests
      BY <1>0 DEF Requests
    <2>2. request' = [request EXCEPT ![c] = [request[c] EXCEPT !.newTUN = tunAt[version]]]
      BY <1>1 DEF CallConfig
    <2> QED
      BY <1>0, <1>1, <2>1, <2>2 DEF CallConfig
  <1>2. CASE CommitConfig(c)
    <2> PICK tun \in BOOLEAN : ReplaceGlobalConfig(c, tun)
      BY <1>2 DEF CommitConfig
    <2> QED
      BY <1>0, <1>2 DEF CommitConfig, ReplaceGlobalConfig, Commits, Requests
  <1>3. CASE CommitRefused(c)
    BY <1>3, LeavesType DEF CommitRefused
  <1>4. CASE CommitSources(c)
    <2>1. version + 1 \in Versions
      BY <1>4 DEF CommitSources, Commits
    <2>2. [NoRequest EXCEPT !.by = c, !.version = version + 1] \in Requests
      BY <2>1 DEF Requests, NoRequest
    <2>3. tunAt' \in [Versions -> BOOLEAN]
      BY <1>4 DEF CommitSources, Commits
    <2> QED
      BY <1>0, <1>4, <2>1, <2>2, <2>3 DEF CommitSources, Commits
  <1>5. CASE Submit(c)
    BY <1>0, <1>5 DEF Submit, Send
  <1>6. CASE TimesOut(c)
    <2>1. queue' \in Seq(Requests)
      BY <1>6, TimesOutQueue
    <2>2. worker' \in [at : Stages \cup {"idle", "report"}, req : Requests, ok : BOOLEAN]
      BY <1>6 DEF TimesOut, Requests
    <2> QED
      BY <1>6, <2>1, <2>2, LeavesType DEF TimesOut
  <1> QED
    BY <1>1, <1>2, <1>3, <1>4, <1>5, <1>6

\* The waiters are counted.
LEMMA LeavingType ==
  ASSUME TypeOK, CoreEnds \/ StartFails \/ UNCHANGED process
  PROVE  leaving' \in Nat
  <1>1. leaving \in Nat
    BY DEF TypeOK
  <1>2. leaving' = leaving \/ leaving' = leaving + 1
    BY DEF CoreEnds, StartFails, process
  <1> QED
    BY <1>1, <1>2

LEMMA WorkerType == TypeOK /\ WorkerNext => TypeOK'
  <1> SUFFICES ASSUME TypeOK, WorkerNext PROVE TypeOK'
    OBVIOUS
  <1> USE VersionsAreNaturals DEF TypeOK, process, callers, history, Stages, WorkerGoes
  <1>0. NoRequest \in Requests /\ Resting \in [at : Stages \cup {"idle", "report"}, req : Requests, ok : BOOLEAN]
    BY DEF NoRequest, Requests, Resting
  <1>1. CASE Take \/ GenerateFails
    <2>1. queue # <<>> /\ queue' = Tail(queue)
      BY <1>1 DEF Take, GenerateFails
    <2>2. Head(queue) \in Requests /\ Tail(queue) \in Seq(Requests)
      BY <2>1
    <2> QED
      BY <1>0, <1>1, <2>1, <2>2 DEF Take, GenerateFails, GenerateMihomoConfig, Resting
  <1>2. CASE LookAtCore
    BY <1>2 DEF LookAtCore
  <1>3. CASE SetupTUNRouting \/ RestoreTUNRouting
    BY <1>3 DEF SetupTUNRouting, RestoreTUNRouting
  <1>4. CASE Reload
    BY <1>4 DEF Reload, Reloaded
  <1>5. CASE ReloadFails
    BY <1>5 DEF ReloadFails
  <1>6. CASE RestartStops
    <2>1. /\ UNCHANGED <<version, tunAt, file, starting, rules, queue, pc, base, request,
                        answered, failed, doubt>>
          /\ worker' = [worker EXCEPT !.at = "start"]
      BY <1>6 DEF RestartStops, CoreEnds
    <2>2. core' \in {core, Down} /\ cleans' \in {cleans, FALSE}
      BY <1>6 DEF RestartStops, CoreEnds
    <2>3. leaving' \in Nat
      BY <1>6, LeavingType DEF RestartStops
    <2> QED
      BY <2>1, <2>2, <2>3
  <1>7. CASE RestartStarts
    BY <1>7 DEF RestartStarts, Reloaded
  <1>8. CASE StageFails
    BY <1>8 DEF StageFails
  <1>9. CASE Report
    BY <1>0, <1>9, LeavesType DEF Report, Requests
  <1> QED
    BY <1>1, <1>2, <1>3, <1>4, <1>5, <1>6, <1>7, <1>8, <1>9 DEF WorkerNext

LEMMA StepType == TypeOK /\ [Next]_vars => TypeOK'
  <1> SUFFICES ASSUME TypeOK, [Next]_vars PROVE TypeOK'
    OBVIOUS
  <1>1. CASE StartBegins \/ StartSpawns
    BY <1>1 DEF StartBegins, StartSpawns, TypeOK, process, callers, history
  <1>2. CASE UNCHANGED vars
    BY <1>2 DEF vars, process, callers, history, TypeOK
  <1>3. CASE StartFails
    <2>1. leaving' \in Nat
      BY <1>3, LeavingType
    <2>2. /\ starting' = "no" /\ rules' \in BOOLEAN
          /\ UNCHANGED <<version, tunAt, file, core, cleans, queue, worker, callers, history>>
      BY <1>3 DEF StartFails, TypeOK
    <2> QED
      BY <2>1, <2>2 DEF TypeOK, callers, history
  <1>4. CASE CoreExits
    <2>1. leaving' \in Nat
      BY <1>4, LeavingType DEF CoreExits
    <2>2. /\ core' = Down /\ cleans' = FALSE
          /\ UNCHANGED <<version, tunAt, file, starting, rules, queue, worker, callers, history>>
      BY <1>4 DEF CoreExits, CoreEnds
    <2> QED
      BY <2>1, <2>2 DEF TypeOK, callers, history
  <1>5. CASE RulesRemoved
    BY <1>5 DEF RulesRemoved, TypeOK, callers
  <1> QED
    BY <1>1, <1>2, <1>3, <1>4, <1>5, CallerType, WorkerType DEF Next

\* Every reachable state of the reconciler is well typed.
THEOREM TypeCorrect == Spec => []TypeOK
  BY InitType, StepType, PTL DEF Spec

-----------------------------------------------------------------------------
(* The order of versions *)

\* The version the core runs, or would run if it were started.
Effective == IF core = Down THEN file ELSE core

\* Nothing is newer than what it was made from, and a request the worker has read
\* the configuration for is covered by the file, once it counts as applied by the core.
Ordered ==
  /\ file <= version /\ (core = Down \/ core <= file)
  /\ answered <= Effective
  /\ \A c \in Callers : request[c].version <= version
  /\ \A i \in 1 .. Len(queue) : queue[i].version <= version
  /\ worker.req.version <= version
  /\ worker.at \in Stages => worker.req.version <= file
  /\ worker.ok => worker.req.version <= Effective

LEMMA Numbers ==
  ASSUME TypeOK
  PROVE  /\ version \in Nat /\ file \in Nat /\ answered \in Nat
         /\ core = Down \/ core \in Nat
         /\ file # Down /\ worker.req \in Requests /\ worker.req.version \in Nat
         /\ \A c \in Callers : request[c].version \in Nat
         /\ \A i \in 1 .. Len(queue) : queue[i].version \in Nat
  <1>1. \A r \in Requests : r.version \in Nat
    BY VersionsAreNaturals DEF Requests
  <1>2. \A i \in 1 .. Len(queue) : queue[i] \in Requests
    BY DEF TypeOK
  <1> QED
    BY <1>1, <1>2, VersionsAreNaturals DEF TypeOK

LEMMA InitOrdered == Init => Ordered
  BY VersionsAreNaturals DEF Init, Ordered, Effective, NoRequest, Resting, Stages

LEMMA CallerOrdered ==
  ASSUME TypeOK, TypeOK', Ordered, NEW c \in Callers,
         \/ CallConfig(c) \/ CommitConfig(c) \/ CommitRefused(c) \/ CommitSources(c)
         \/ Submit(c) \/ TimesOut(c)
  PROVE  Ordered'
  <1> USE Numbers DEF Ordered, Effective, process, callers, history
  <1>1. CASE CallConfig(c)
    BY <1>1 DEF CallConfig, TypeOK, Requests
  <1>2. CASE CommitConfig(c)
    <2> PICK tun \in BOOLEAN : ReplaceGlobalConfig(c, tun)
      BY <1>2 DEF CommitConfig
    <2>1. /\ version' = version + 1
          /\ UNCHANGED <<file, core, answered, queue, worker>>
      BY <1>2 DEF CommitConfig, ReplaceGlobalConfig, Commits
    <2>2. \A d \in Callers : request'[d].version \in {version + 1, request[d].version}
      BY <1>2 DEF CommitConfig, ReplaceGlobalConfig, TypeOK
    <2> QED
      BY <2>1, <2>2
  <1>3. CASE CommitRefused(c)
    BY <1>3 DEF CommitRefused, Leaves, NoRequest
  <1>4. CASE CommitSources(c)
    <2>1. /\ version' = version + 1
          /\ UNCHANGED <<file, core, answered, queue, worker>>
      BY <1>4 DEF CommitSources, Commits
    <2>2. \A d \in Callers : request'[d].version \in {version + 1, request[d].version}
      BY <1>4 DEF CommitSources, TypeOK, NoRequest
    <2> QED
      BY <2>1, <2>2
  <1>5. CASE Submit(c)
    <2>1. UNCHANGED <<version, file, core, answered, worker>>
      BY <1>5 DEF Submit
    <2>2. \A d \in Callers : request'[d].version \in {0, request[d].version}
      BY <1>5 DEF Submit, TypeOK, NoRequest
    <2>3. \A i \in 1 .. Len(queue') : queue'[i].version <= version
      BY <1>5, SubmitQueue DEF Submit
    <2> QED
      BY <2>1, <2>2, <2>3
  <1>6. CASE TimesOut(c)
    <2>1. UNCHANGED <<version, file, core, answered>>
      BY <1>6 DEF TimesOut
    <2>2. \A d \in Callers : request'[d].version \in {0, request[d].version}
      BY <1>6 DEF TimesOut, Leaves, NoRequest
    <2>3. \A i \in 1 .. Len(queue') : queue'[i].version <= version
      BY <1>6, TimesOutQueue DEF TypeOK
    <2>4. worker'.req.version = worker.req.version /\ worker'.at = worker.at /\ worker'.ok = worker.ok
      BY <1>6 DEF TimesOut, TypeOK, Requests
    <2> QED
      BY <2>1, <2>2, <2>3, <2>4
  <1> QED
    BY <1>1, <1>2, <1>3, <1>4, <1>5, <1>6

LEMMA WorkerOrdered ==
  ASSUME TypeOK, TypeOK', Ordered, WorkerNext
  PROVE  Ordered'
  <1> USE Numbers DEF Ordered, Effective, process, callers, history, WorkerGoes
  <1>0. worker \in [at : Stages \cup {"idle", "report"}, req : Requests, ok : BOOLEAN]
    BY DEF TypeOK
  <1>1. CASE Take
    <2>1. \A i \in 1 .. Len(queue') : queue'[i].version <= version
      BY <1>1, TakeQueue DEF Take
    <2>2. Head(queue).version <= version
      BY <1>1, TakeQueue DEF Take
    <2> QED
      BY <1>1, <2>1, <2>2 DEF Take, GenerateMihomoConfig, Resting
  <1>2. CASE GenerateFails
    <2>1. \A i \in 1 .. Len(queue') : queue'[i].version <= version
      BY <1>2, TakeQueue DEF GenerateFails
    <2>2. Head(queue).version <= version
      BY <1>2, TakeQueue DEF GenerateFails
    <2> QED
      BY <1>2, <2>1, <2>2 DEF GenerateFails, Resting, Stages
  <1>3. CASE LookAtCore
    BY <1>0, <1>3 DEF LookAtCore, Stages
  <1>4. CASE SetupTUNRouting \/ RestoreTUNRouting
    BY <1>0, <1>4 DEF SetupTUNRouting, RestoreTUNRouting, Stages
  <1>5. CASE Reload \/ ReloadFails
    <2>1. core' = core \/ (core' = file /\ core # Down)
      BY <1>5 DEF Reload, ReloadFails
    <2>2. UNCHANGED <<version, file, answered, queue, request>>
      BY <1>5 DEF Reload, ReloadFails
    <2>3. /\ worker'.req = worker.req /\ worker.at \in Stages
          /\ worker'.ok => worker.ok \/ core' = file
      BY <1>0, <1>5 DEF Reload, Reloaded, ReloadFails, Stages
    <2> QED
      BY <2>1, <2>2, <2>3
  <1>6. CASE RestartStops
    <2>1. core' = Down \/ (core' = core /\ core = Down)
      BY <1>6 DEF RestartStops, CoreEnds
    <2>2. UNCHANGED <<version, file, answered, queue, request>>
      BY <1>6 DEF RestartStops
    <2>3. /\ worker'.at = "start" /\ worker'.req = worker.req /\ worker'.ok = worker.ok
          /\ worker.at \in Stages
      BY <1>0, <1>6 DEF RestartStops, Stages
    <2> QED
      BY <2>1, <2>2, <2>3
  <1>7. CASE RestartStarts
    BY <1>0, <1>7 DEF RestartStarts, Reloaded, Stages
  <1>8. CASE StageFails
    BY <1>0, <1>8 DEF StageFails, Stages
  <1>9. CASE Report
    BY <1>9 DEF Report, Resting, NoRequest, Leaves, Stages
  <1> QED
    BY <1>1, <1>2, <1>3, <1>4, <1>5, <1>6, <1>7, <1>8, <1>9 DEF WorkerNext

LEMMA StepOrdered == TypeOK /\ Ordered /\ [Next]_vars => Ordered'
  <1> SUFFICES ASSUME TypeOK, TypeOK', Ordered, [Next]_vars PROVE Ordered'
    BY StepType
  <1>1. CASE StartBegins \/ StartSpawns \/ StartFails \/ CoreExits \/ RulesRemoved
    BY <1>1, Numbers
       DEF StartBegins, StartSpawns, StartFails, CoreExits, CoreEnds, RulesRemoved, Ordered,
           Effective, process, callers, history
  <1>2. CASE UNCHANGED vars
    BY <1>2 DEF vars, process, callers, history, Ordered, Effective
  <1> QED
    BY <1>1, <1>2, CallerOrdered, WorkerOrdered DEF Next

-----------------------------------------------------------------------------
(* Applying implements LatestWins *)

LEMMA StepRefines ==
  TypeOK /\ Ordered /\ [Next]_vars => [Latest!Next]_(Latest!vars)
  <1> SUFFICES ASSUME TypeOK, TypeOK', Ordered, Ordered', [Next]_vars
               PROVE  \/ Latest!Commit \/ Latest!Apply \/ Latest!Answer
                      \/ UNCHANGED <<version, Effective, answered>>
    BY StepType, StepOrdered DEF Latest!Next, Latest!vars, Effective
  <1> USE VersionsAreNaturals DEF TypeOK, Ordered, Effective, process, callers, history
  <1>1. CASE \E c \in Callers : CommitConfig(c) \/ CommitSources(c)
    BY <1>1 DEF CommitConfig, ReplaceGlobalConfig, CommitSources, Commits, Latest!Commit
  <1>2. CASE Report
    <2>1. answered' \in answered .. Effective
      BY <1>2 DEF Report, Requests
    <2> QED
      BY <1>2, <2>1 DEF Report, Latest!Answer
  <1>3. CASE \/ Take \/ Reload \/ ReloadFails \/ RestartStops \/ RestartStarts
             \/ StartSpawns \/ CoreExits
    <2>1. UNCHANGED <<version, answered>>
      BY <1>3 DEF Take, Reload, ReloadFails, RestartStops, RestartStarts, StartSpawns, CoreExits
    <2>2. Effective' \in Effective .. version
      BY <1>3 DEF Take, Reload, ReloadFails, RestartStops, RestartStarts, StartSpawns, CoreExits,
                  CoreEnds, GenerateMihomoConfig
    <2> QED
      BY <2>1, <2>2 DEF Latest!Apply
  <1>4. CASE \/ \E c \in Callers : CallConfig(c) \/ CommitRefused(c) \/ Submit(c) \/ TimesOut(c)
             \/ GenerateFails \/ LookAtCore \/ SetupTUNRouting \/ RestoreTUNRouting \/ StageFails
             \/ StartBegins \/ StartFails \/ RulesRemoved \/ UNCHANGED vars
    BY <1>4 DEF CallConfig, CommitRefused, Submit, TimesOut, GenerateFails, LookAtCore,
                SetupTUNRouting, RestoreTUNRouting, StageFails, StartBegins, StartFails,
                RulesRemoved, vars
  <1> QED
    BY <1>1, <1>2, <1>3, <1>4 DEF Next, WorkerNext

\* Whatever the order of the steps, an older configuration never overwrites a newer
\* one, and what was reported as applied stays applied.
THEOREM RefinesHolds == Spec => Refines
  <1>1. Init => Latest!Init
    BY DEF Init, Latest!Init
  <1> QED
    BY <1>1, InitType, StepType, InitOrdered, StepOrdered, StepRefines, PTL
       DEF Spec, Refines, Latest!Spec

-----------------------------------------------------------------------------
(* The newest version *)

\* A request carries the name of a caller who waits for it, and of no other.
Awaited ==
  /\ \A i \in 1 .. Len(queue) : queue[i].by \in Callers => pc[queue[i].by] = "wait"
  /\ worker.req.by \in Callers =>
       /\ pc[worker.req.by] = "wait"
       /\ \A i \in 1 .. Len(queue) : queue[i].by # worker.req.by
  /\ \A i, j \in 1 .. Len(queue) : queue[i].by = queue[j].by /\ queue[i].by \in Callers => i = j
  /\ \A c \in Callers : pc[c] = "send" => request[c].by = c

\* The worker's request was not, or will not be, applied.
Refused == (worker.at = "report" /\ ~worker.ok) \/ (worker.at = "idle" /\ failed)

\* What was committed after the file was generated is on its way to the worker.
FileIsNewest ==
  file = version \/ queue # <<>> \/ Refused \/ \E c \in Callers : pc[c] = "send"

\* A core that has not loaded the file is about to.
CoreIsNewest ==
  core \in {Down, file} \/ Refused \/ worker.at \in {"look", "setup", "reload", "stop"}

LEMMA InitAwaited == Init => Awaited
  BY ReconcilerConstantsOK DEF Init, Awaited, NoRequest, Resting

LEMMA StepAwaited == TypeOK /\ Awaited /\ [Next]_vars => Awaited'
  <1> SUFFICES ASSUME TypeOK, Awaited, [Next]_vars PROVE Awaited'
    OBVIOUS
  <1> USE ReconcilerConstantsOK DEF Awaited, process, callers, history
  <1>0. /\ worker \in [at : Stages \cup {"idle", "report"}, req : Requests, ok : BOOLEAN]
        /\ pc \in [Callers -> {"idle", "config", "send", "wait"}]
        /\ request \in [Callers -> Requests] /\ queue \in Seq(Requests)
    BY DEF TypeOK
  <1>1. CASE \E c \in Callers : CallConfig(c) \/ CommitConfig(c) \/ CommitRefused(c) \/ CommitSources(c)
    <2> PICK c \in Callers : CallConfig(c) \/ CommitConfig(c) \/ CommitRefused(c) \/ CommitSources(c)
      BY <1>1
    <2>1. UNCHANGED <<queue, worker>> /\ pc[c] # "wait"
      BY DEF CallConfig, CommitConfig, CommitRefused, CommitSources, ReplaceGlobalConfig
    <2>2. \A d \in Callers : d # c => pc'[d] = pc[d] /\ request'[d] = request[d]
      BY <1>0 DEF CallConfig, CommitConfig, CommitRefused, CommitSources, ReplaceGlobalConfig, Leaves
    <2>3. pc'[c] = "send" => request'[c].by = c
      <3>1. CASE CommitConfig(c)
        BY <1>0, <3>1 DEF CommitConfig, ReplaceGlobalConfig
      <3>2. CASE CommitSources(c)
        BY <1>0, <3>2 DEF CommitSources, NoRequest
      <3>3. CASE CallConfig(c) \/ CommitRefused(c)
        BY <1>0, <3>3 DEF CallConfig, CommitRefused, Leaves
      <3> QED
        BY <3>1, <3>2, <3>3
    <2> QED
      BY <2>1, <2>2, <2>3
  <1>2. CASE \E c \in Callers : Submit(c)
    <2> PICK c \in Callers : Submit(c)
      BY <1>2
    <2>1. UNCHANGED worker /\ pc[c] = "send" /\ pc' = [pc EXCEPT ![c] = "wait"]
      BY DEF Submit, Send
    <2>2. \A d \in Callers : d # c => request'[d] = request[d]
      BY <1>0 DEF Submit
    <2>3. /\ Len(queue) \in Nat /\ Len(queue') = Len(queue) + 1
          /\ \A i \in 1 .. Len(queue) : queue'[i] = queue[i] /\ queue[i].by # c
          /\ queue'[Len(queue) + 1].by = c
      BY <2>1, SubmitQueue DEF Submit
    <2>4. \A d \in Callers : pc'[d] = IF d = c THEN "wait" ELSE pc[d]
      BY <1>0, <2>1
    <2>5. \A i \in 1 .. Len(queue') : i \in 1 .. Len(queue) \/ i = Len(queue) + 1
      BY <2>3
    <2>6. \A i \in 1 .. Len(queue') : queue'[i].by \in Callers => pc'[queue'[i].by] = "wait"
      BY <2>3, <2>4, <2>5
    <2>7. worker.req.by # c
      BY <2>1
    <2>8. \A i, j \in 1 .. Len(queue') : queue'[i].by = queue'[j].by /\ queue'[i].by \in Callers => i = j
      BY <2>3, <2>5
    <2> QED
      BY <2>1, <2>2, <2>3, <2>4, <2>5, <2>6, <2>7, <2>8
  <1>3. CASE \E c \in Callers : TimesOut(c)
    <2> PICK c \in Callers : TimesOut(c)
      BY <1>3
    <2>1. /\ worker'.req.by = IF worker.req.by = c THEN "nobody" ELSE worker.req.by
          /\ pc[c] = "wait"
          /\ \A d \in Callers : d # c => pc'[d] = pc[d] /\ request'[d] = request[d]
          /\ pc'[c] = "idle"
      BY <1>0 DEF TimesOut, Leaves, Requests
    <2>2. /\ Len(queue') = Len(queue)
          /\ \A i \in 1 .. Len(queue) :
               queue'[i].by = IF queue[i].by = c THEN "nobody" ELSE queue[i].by
      BY <1>0, TimesOutQueue
    <2> QED
      BY <2>1, <2>2
  <1>4. CASE Take \/ GenerateFails
    <2>1. worker'.req = queue[1] /\ UNCHANGED <<pc, request>>
      BY <1>4, TakeQueue DEF Take, GenerateFails, Resting
    <2>2. /\ Len(queue) \in Nat \ {0} /\ Len(queue') = Len(queue) - 1
          /\ \A i \in 1 .. Len(queue') : i + 1 \in 1 .. Len(queue) /\ queue'[i] = queue[i + 1]
      BY <1>4, TakeQueue DEF Take, GenerateFails
    <2>3. 1 \in 1 .. Len(queue) /\ \A i \in 1 .. Len(queue') : i + 1 # 1
      BY <2>2
    <2>4. \A i \in 1 .. Len(queue') : queue'[i].by \in Callers => pc[queue'[i].by] = "wait"
      BY <2>2
    <2>5. worker'.req.by \in Callers =>
            /\ pc[worker'.req.by] = "wait"
            /\ \A i \in 1 .. Len(queue') : queue'[i].by # worker'.req.by
      BY <2>1, <2>2, <2>3
    <2>6. \A i, j \in 1 .. Len(queue') :
            queue'[i].by = queue'[j].by /\ queue'[i].by \in Callers => i = j
      <3> SUFFICES ASSUME NEW i \in 1 .. Len(queue'), NEW j \in 1 .. Len(queue'),
                          queue'[i].by = queue'[j].by, queue'[i].by \in Callers
                   PROVE  i = j
        OBVIOUS
      <3>1. i + 1 = j + 1
        BY <2>2
      <3> QED
        BY <3>1
    <2> QED
      BY <2>1, <2>4, <2>5, <2>6
  <1>5. CASE Report
    <2>1. UNCHANGED queue /\ worker'.req.by = "nobody"
      BY <1>5 DEF Report, Resting, NoRequest
    <2>2. \A d \in Callers : d # worker.req.by => pc'[d] = pc[d] /\ request'[d] = request[d]
      BY <1>5 DEF Report, Leaves
    <2>3. worker.req.by \in Callers => pc'[worker.req.by] = "idle"
      BY <1>5 DEF Report, Leaves
    <2> QED
      BY <2>1, <2>2, <2>3
  <1>6. CASE \/ LookAtCore \/ SetupTUNRouting \/ Reload \/ ReloadFails \/ RestartStops
             \/ RestartStarts \/ RestoreTUNRouting \/ StageFails
    <2>1. worker'.req = worker.req /\ UNCHANGED <<queue, pc, request>>
      BY <1>0, <1>6 DEF LookAtCore, SetupTUNRouting, Reload, ReloadFails, RestartStops,
           RestartStarts, RestoreTUNRouting, StageFails, Reloaded, WorkerGoes
    <2> QED
      BY <2>1
  <1>7. CASE StartBegins \/ StartSpawns \/ StartFails \/ CoreExits \/ RulesRemoved \/ UNCHANGED vars
    BY <1>7 DEF StartBegins, StartSpawns, StartFails, CoreExits, RulesRemoved, vars
  <1> QED
    BY <1>1, <1>2, <1>3, <1>4, <1>5, <1>6, <1>7 DEF Next, WorkerNext

LEMMA StepNewest ==
  ASSUME TypeOK, Awaited, FileIsNewest, CoreIsNewest, [Next]_vars
  PROVE  FileIsNewest' /\ CoreIsNewest'
  <1> USE DEF FileIsNewest, CoreIsNewest, Refused, process, callers, history
  <1>0. /\ worker \in [at : Stages \cup {"idle", "report"}, req : Requests, ok : BOOLEAN]
        /\ pc \in [Callers -> {"idle", "config", "send", "wait"}]
        /\ request \in [Callers -> Requests] /\ queue \in Seq(Requests)
    BY DEF TypeOK
  <1>1. CASE \E c \in Callers : CommitConfig(c) \/ CommitSources(c)
    <2>1. UNCHANGED <<file, core, worker, failed>>
      BY <1>1 DEF CommitConfig, CommitSources
    <2>2. \E c \in Callers : pc'[c] = "send"
      BY <1>0, <1>1 DEF CommitConfig, CommitSources
    <2> QED
      BY <2>1, <2>2
  <1>2. CASE \E c \in Callers : Submit(c)
    <2>1. UNCHANGED <<file, core, worker, failed>> /\ queue' # <<>>
      BY <1>0, <1>2 DEF Submit, Send
    <2> QED
      BY <2>1
  <1>3. CASE \E c \in Callers : TimesOut(c)
    <2> PICK c \in Callers : TimesOut(c)
      BY <1>3
    <2>1. UNCHANGED <<version, file, core, failed>> /\ worker'.at = worker.at /\ worker'.ok = worker.ok
      BY <1>0 DEF TimesOut
    <2>2. Len(queue') = Len(queue) /\ queue' \in Seq(Requests)
      BY <1>0, TimesOutQueue
    <2>3. \A d \in Callers : pc[d] = "send" => pc'[d] = "send"
      BY <1>0 DEF TimesOut, Leaves
    <2> QED
      BY <1>0, <2>1, <2>2, <2>3
  <1>4. CASE \E c \in Callers : CallConfig(c) \/ CommitRefused(c)
    <2>1. UNCHANGED <<version, file, core, queue, worker, failed>>
      BY <1>4 DEF CallConfig, CommitRefused
    <2>2. \A d \in Callers : pc[d] = "send" => pc'[d] = "send"
      BY <1>0, <1>4 DEF CallConfig, CommitRefused, Leaves
    <2> QED
      BY <2>1, <2>2
  <1>5. CASE Take
    BY <1>5 DEF Take, GenerateMihomoConfig, Resting
  <1>6. CASE GenerateFails
    BY <1>6 DEF GenerateFails, Resting
  <1>7. CASE Report
    <2>1. \A d \in Callers : pc[d] = "send" => d # worker.req.by
      BY DEF Awaited
    <2>2. \A d \in Callers : pc[d] = "send" => pc'[d] = "send"
      BY <1>7, <2>1 DEF Report, Leaves
    <2> QED
      BY <1>0, <1>7, <2>2 DEF Report, Resting
  <1>8. CASE LookAtCore \/ SetupTUNRouting \/ Reload \/ ReloadFails \/ RestartStarts
    BY <1>0, <1>8 DEF LookAtCore, SetupTUNRouting, Reload, ReloadFails, RestartStarts, Reloaded, WorkerGoes
  <1>9. CASE RestartStops
    BY <1>0, <1>9 DEF RestartStops, CoreEnds, WorkerGoes
  <1>10. CASE RestoreTUNRouting \/ StageFails
    BY <1>0, <1>10 DEF RestoreTUNRouting, StageFails, WorkerGoes
  <1>11. CASE StartBegins \/ StartSpawns \/ StartFails \/ CoreExits \/ RulesRemoved \/ UNCHANGED vars
    BY <1>11 DEF StartBegins, StartSpawns, StartFails, CoreExits, CoreEnds, RulesRemoved, vars
  <1> QED
    BY <1>1, <1>2, <1>3, <1>4, <1>5, <1>6, <1>7, <1>8, <1>9, <1>10, <1>11 DEF Next, WorkerNext

\* The newest version is in the file and the core when everything submitted is executed.
THEOREM SettledMeansLatestHolds == Spec => []SettledMeansLatest
  <1>1. Init => FileIsNewest /\ CoreIsNewest
    BY DEF Init, FileIsNewest, CoreIsNewest
  <1>2. FileIsNewest /\ CoreIsNewest => SettledMeansLatest
    BY DEF FileIsNewest, CoreIsNewest, Refused, SettledMeansLatest, Settled
  <1> QED
    BY <1>1, <1>2, InitType, StepType, InitAwaited, StepAwaited, StepNewest, PTL DEF Spec

-----------------------------------------------------------------------------
(* The rules *)

\* A change of TUN is on its way to the worker.
Submitting ==
  \/ \E c \in Callers : pc[c] = "send" /\ request[c].syncTUN
  \/ \E i \in 1 .. Len(queue) : queue[i].syncTUN

TurnsOn == worker.req.syncTUN /\ worker.req.newTUN

\* A client that has read the newest version has read its setting as well.
ClientsSetting ==
  \A c \in Callers : pc[c] = "config" =>
    base[c] <= version /\ (base[c] = version => request[c].newTUN = tunAt[version])

\* A change of TUN under way is to the setting of the newest version.
ChangeIsCurrent ==
  /\ \A c \in Callers : pc[c] = "send" /\ request[c].syncTUN => request[c].newTUN = tunAt[version]
  /\ \A i \in 1 .. Len(queue) : queue[i].syncTUN => queue[i].newTUN = tunAt[version]
  /\ worker.req.syncTUN => worker.req.newTUN = tunAt[version]
  /\ worker.at \in Stages /\ worker.req.syncTUN => tunAt[file] = worker.req.newTUN

\* The core that runs, or the one that is being started, is in TUN mode without rules.
Unguarded ==
  ~rules /\ ((core # Down /\ tunAt[core]) \/ (starting # "no" /\ tunAt[file]))

\* File, core and rules follow the setting but for a change under way.
SettingFollows ==
  /\ tunAt[file] = tunAt[version] \/ Submitting
  /\ core # Down /\ tunAt[core] # tunAt[file] =>
       Submitting \/ (worker.req.syncTUN /\ worker.at \in {"look", "setup", "reload", "stop"})
  /\ Unguarded =>
       \/ Submitting
       \/ TurnsOn /\ worker.at \in {"look", "setup"}
       \/ TurnsOff /\ worker.at \in {"look", "reload", "stop"}
  /\ TurnsOn /\ worker.at \in {"reload", "stop", "start"} =>
       (core # Down \/ starting # "no" => rules)

\* The steps of the worker are those its request asks for.
StagesOfRequest ==
  /\ worker.at = "setup" => TurnsOn
  /\ worker.at = "restore" => TurnsOff
  /\ worker.at = "idle" => worker.req = NoRequest

\* Where a waiter has still to remove the rules, there is no core to lose them.
NoneLeaves == leaving > 0 => core = Down /\ starting = "no"

Guarded ==
  /\ ClientsSetting /\ StagesOfRequest
  /\ starting # "no" => core = Down
  /\ ~doubt => ~failed /\ NoneLeaves
  /\ ~doubt => ChangeIsCurrent
  /\ ~doubt /\ ~Refused => SettingFollows

LEMMA InitGuarded == Init => Guarded
  BY VersionsAreNaturals
     DEF Init, Guarded, ClientsSetting, StagesOfRequest, ChangeIsCurrent, SettingFollows, Unguarded,
         NoneLeaves, TurnsOn, TurnsOff, Resting, NoRequest, Stages, Submitting

\* Facts about the types that the steps below need.
LEMMA Fields ==
  ASSUME TypeOK
  PROVE  /\ worker \in [at : Stages \cup {"idle", "report"}, req : Requests, ok : BOOLEAN]
         /\ worker.req \in Requests
         /\ worker.req.syncTUN \in BOOLEAN /\ worker.req.newTUN \in BOOLEAN
         /\ pc \in [Callers -> {"idle", "config", "send", "wait"}]
         /\ base \in [Callers -> Versions] /\ request \in [Callers -> Requests]
         /\ \A c \in Callers : request[c].syncTUN \in BOOLEAN /\ request[c].newTUN \in BOOLEAN
         /\ \A v \in Versions : tunAt[v] \in BOOLEAN
         /\ file \in Versions /\ version \in Versions /\ (core = Down \/ core \in Versions)
         /\ leaving \in Nat /\ rules \in BOOLEAN /\ doubt \in BOOLEAN /\ failed \in BOOLEAN
         /\ queue \in Seq(Requests) /\ Len(queue) \in Nat /\ DOMAIN queue = 1 .. Len(queue)
  BY DEF TypeOK, Requests

\* The worker and the core, between taking a request and reporting it.
LEMMA StageGuarded ==
  ASSUME TypeOK, CoreIsNewest, Guarded,
         \/ LookAtCore \/ SetupTUNRouting \/ Reload \/ ReloadFails \/ RestartStops
         \/ RestartStarts \/ RestoreTUNRouting \/ StageFails
         \/ StartBegins \/ StartSpawns \/ StartFails \/ CoreExits \/ RulesRemoved
  PROVE  Guarded'
  <1> USE DEF process, callers, history
  <1>a. UNCHANGED <<version, tunAt, file, failed, pc, base, request, queue>>
    BY DEF LookAtCore, SetupTUNRouting, Reload, ReloadFails, RestartStops, RestartStarts,
         RestoreTUNRouting, StageFails, StartBegins, StartSpawns, StartFails, CoreExits, RulesRemoved
  <1>b. worker'.req = worker.req
    BY Fields DEF LookAtCore, SetupTUNRouting, Reload, ReloadFails, RestartStops, RestartStarts,
         RestoreTUNRouting, StageFails, StartBegins, StartSpawns, StartFails, CoreExits, RulesRemoved,
         Reloaded, WorkerGoes
  <1>c. doubt => doubt'
    BY DEF LookAtCore, SetupTUNRouting, Reload, ReloadFails, RestartStops, RestartStarts,
         RestoreTUNRouting, StageFails, StartBegins, StartSpawns, StartFails, CoreExits, RulesRemoved, CoreEnds
  <1>1. /\ UNCHANGED <<version, tunAt, file, failed, pc, base, request, queue>>
        /\ worker'.req = worker.req /\ (doubt => doubt')
    BY <1>a, <1>b, <1>c
  <1>2. Submitting' = Submitting /\ TurnsOn' = TurnsOn /\ TurnsOff' = TurnsOff /\ ClientsSetting'
    BY <1>1 DEF Submitting, TurnsOn, TurnsOff, ClientsSetting, Guarded
  <1>3. starting' # "no" => core' = Down
    BY DEF LookAtCore, SetupTUNRouting, Reload, ReloadFails, RestartStops, RestartStarts, Guarded,
         RestoreTUNRouting, StageFails, StartBegins, StartSpawns, StartFails, CoreExits, RulesRemoved, CoreEnds,
         process
  <1>4. /\ worker'.at \in Stages => worker.at \in Stages
        /\ worker'.at # "idle" \/ worker' = worker
        /\ worker'.at = "setup" => TurnsOn /\ (worker.at = "look" \/ worker' = worker)
        /\ worker'.at = "restore" => TurnsOff
    BY Fields DEF LookAtCore, SetupTUNRouting, Reload, ReloadFails, RestartStops, RestartStarts, Guarded,
         RestoreTUNRouting, StageFails, StartBegins, StartSpawns, StartFails, CoreExits, RulesRemoved,
         Reloaded, WorkerGoes, TurnsOn, TurnsOff, Stages, StagesOfRequest
  <1>5. StagesOfRequest'
    BY <1>1, <1>2, <1>4 DEF StagesOfRequest, Guarded
  <1>6. ~doubt' => ChangeIsCurrent'
    BY <1>1, <1>4 DEF ChangeIsCurrent, Guarded
  <1>7. ASSUME ~doubt', ~Refused' PROVE SettingFollows'
    <2>1. ~doubt /\ ~Refused
      BY <1>1, <1>7, Fields DEF Refused, LookAtCore, SetupTUNRouting, Reload, ReloadFails, RestartStops,
           RestartStarts, RestoreTUNRouting, StageFails, StartBegins, StartSpawns, StartFails, CoreExits, RulesRemoved
    <2>2. ChangeIsCurrent /\ SettingFollows /\ StagesOfRequest /\ (starting # "no" => core = Down)
      BY <2>1 DEF Guarded
    <2>3. worker.at \in Stages => (TurnsOn => tunAt[file]) /\ (TurnsOff => ~tunAt[file])
      BY <2>2 DEF ChangeIsCurrent, TurnsOn, TurnsOff
    <2>4. TurnsOn => tunAt[version]
      BY <2>2 DEF ChangeIsCurrent, TurnsOn
    <2> HIDE DEF Submitting
    <2> USE <1>1, <1>2, <2>2, <2>3, <2>4, Fields DEF SettingFollows, Unguarded, Stages
    <2>5. CASE LookAtCore
      BY <2>5 DEF LookAtCore, TurnsOn, TurnsOff, process
    <2>6. CASE SetupTUNRouting
      BY <2>6 DEF SetupTUNRouting, WorkerGoes
    <2>7. CASE Reload \/ ReloadFails
      BY <2>7 DEF Reload, Reloaded, ReloadFails, WorkerGoes, TurnsOn, TurnsOff
    <2>8. CASE RestartStops
      BY <2>8 DEF RestartStops, CoreEnds, WorkerGoes, process, TurnsOn, TurnsOff
    <2>9. CASE RestartStarts
      BY <2>9 DEF RestartStarts, Reloaded
    <2>10. CASE RestoreTUNRouting
      BY <2>1, <2>10 DEF RestoreTUNRouting, WorkerGoes, CoreIsNewest, StagesOfRequest
    <2>11. CASE StageFails
      BY <1>7, <2>11 DEF StageFails, Refused
    <2>12. CASE StartBegins
      BY <2>12 DEF StartBegins
    <2>13. CASE StartSpawns
      BY <2>13 DEF StartSpawns
    <2>14. CASE StartFails \/ CoreExits
      BY <2>14 DEF StartFails, CoreExits, RulesRemoved, CoreEnds
    <2>15. CASE RulesRemoved
      BY <2>1, <2>15 DEF RulesRemoved, Guarded, NoneLeaves
    <2> QED
      BY <2>5, <2>6, <2>7, <2>8, <2>9, <2>10, <2>11, <2>12, <2>13, <2>14, <2>15
  <1>8. ~doubt' => ~failed' /\ NoneLeaves'
    <2> SUFFICES ASSUME ~doubt', ~doubt, NoneLeaves, starting # "no" => core = Down
                 PROVE  NoneLeaves'
      BY <1>1 DEF Guarded
    <2> USE Fields DEF NoneLeaves
    <2>1. CASE LookAtCore \/ SetupTUNRouting \/ RestoreTUNRouting \/ StageFails
      BY <2>1 DEF LookAtCore, SetupTUNRouting, RestoreTUNRouting, StageFails
    <2>2. CASE Reload \/ ReloadFails
      BY <2>2 DEF Reload, ReloadFails
    <2>3. CASE RestartStops \/ CoreExits
      BY <2>3 DEF RestartStops, CoreExits, CoreEnds
    <2>4. CASE RestartStarts \/ StartBegins
      BY <2>4 DEF RestartStarts, StartBegins
    <2>5. CASE StartSpawns \/ StartFails
      BY <2>5 DEF StartSpawns, StartFails
    <2>6. CASE RulesRemoved
      BY <2>6 DEF RulesRemoved
    <2> QED
      BY <2>1, <2>2, <2>3, <2>4, <2>5, <2>6
  <1> QED
    BY <1>2, <1>3, <1>5, <1>6, <1>7, <1>8 DEF Guarded

\* A commit changes the setting of the newest version only; a change under way makes
\* another one doubtful.
LEMMA CommitGuarded ==
  ASSUME TypeOK, Ordered, Guarded, NEW c \in Callers, CommitConfig(c) \/ CommitSources(c)
  PROVE  Guarded'
  <1> USE DEF process, callers, history
  <1>1. PICK tun \in BOOLEAN : Commits(tun) /\ (CommitConfig(c) => ReplaceGlobalConfig(c, tun))
                               /\ (CommitSources(c) => tun = tunAt[version])
    BY Fields DEF CommitConfig, CommitSources, ReplaceGlobalConfig
  <1> DEFINE changes == CommitConfig(c) /\ tunAt[version] # tun
  <1>2. /\ version' = version + 1 /\ version' \in Versions /\ version \in Nat
        /\ tunAt'[version'] = tun
        /\ \A v \in Versions : v <= version => tunAt'[v] = tunAt[v]
    <2>1. version \in Versions /\ version < MaxVersion /\ version' = version + 1
          /\ tunAt' = [v \in Versions |-> IF v > version THEN tun ELSE tunAt[v]]
      BY <1>1, Fields DEF Commits
    <2> QED
      BY <2>1, VersionsAreNaturals
  <1>3. /\ UNCHANGED <<file, core, starting, leaving, rules, queue, worker, failed>>
        /\ pc' = [pc EXCEPT ![c] = "send"] /\ pc[c] \in {"idle", "config"}
        /\ \A d \in Callers : d # c => request'[d] = request[d] /\ base'[d] = base[d]
    BY Fields DEF CommitConfig, ReplaceGlobalConfig, CommitSources
  <1>4. /\ tunAt'[file] = tunAt[file] /\ (core # Down => tunAt'[core] = tunAt[core])
        /\ file' = file /\ core' = core
    BY <1>2, <1>3, Fields, Numbers DEF Ordered
  <1>5. request'[c].syncTUN = changes /\ (changes => request'[c].newTUN = tun)
    <2>1. CASE CommitConfig(c)
      <3>1. request[c].newTUN = tunAt[version]
        BY <1>1, <2>1 DEF ReplaceGlobalConfig, Guarded, ClientsSetting
      <3>2. request'[c] = [by |-> c, syncTUN |-> request[c].newTUN # tun, newTUN |-> tun,
                           version |-> version + 1]
        BY <1>1, <2>1, Fields DEF ReplaceGlobalConfig
      <3> QED
        BY <2>1, <3>1, <3>2
    <2>2. CASE ~CommitConfig(c)
      BY <2>2, Fields DEF CommitSources, NoRequest
    <2> QED
      BY <2>1, <2>2
  <1>6. ASSUME ~doubt' PROVE ~doubt /\ (changes => ~UnderWay)
    <2>1. CASE CommitConfig(c)
      <3>1. request[c].newTUN = tunAt[version]
        BY <1>1, <2>1 DEF ReplaceGlobalConfig, Guarded, ClientsSetting
      <3> QED
        BY <1>1, <1>6, <2>1, <3>1 DEF ReplaceGlobalConfig
    <2>2. CASE ~CommitConfig(c)
      BY <1>6, <2>2 DEF CommitSources
    <2> QED
      BY <2>1, <2>2
  <1>7. ~changes => tun = tunAt[version]
    BY <1>1
  <1> HIDE DEF changes
  <1>8. ClientsSetting'
    <2> SUFFICES ASSUME NEW d \in Callers, pc'[d] = "config"
                 PROVE  base'[d] <= version' /\ base'[d] # version'
      BY DEF ClientsSetting
    <2>1. d # c /\ pc[d] = "config" /\ base'[d] = base[d] /\ base[d] \in Nat
      BY <1>3, Fields, VersionsAreNaturals
    <2> QED
      BY <1>2, <2>1 DEF Guarded, ClientsSetting
  <1>9. changes => Submitting'
    BY <1>3, <1>5, Fields DEF Submitting
  <1>10. Submitting => Submitting'
    BY <1>3, Fields DEF Submitting
  <1>11. ASSUME ~doubt' PROVE ChangeIsCurrent'
    <2>1. ChangeIsCurrent
      BY <1>6, <1>11 DEF Guarded
    <2>2. CASE changes
      <3>1. /\ ~worker.req.syncTUN /\ \A i \in 1 .. Len(queue) : ~queue[i].syncTUN
            /\ \A d \in Callers : pc[d] = "send" => ~request[d].syncTUN
        BY <1>6, <1>11, <2>2, Fields DEF UnderWay
      <3>2. \A d \in Callers : d # c => pc'[d] = pc[d]
        BY <1>3, Fields
      <3> QED
        BY <1>2, <1>3, <1>5, <2>2, <3>1, <3>2 DEF ChangeIsCurrent
    <2>3. CASE ~changes
      <3>1. ~request'[c].syncTUN /\ tunAt'[version'] = tunAt[version]
        BY <1>2, <1>5, <1>7, <2>3
      <3>2. \A d \in Callers : d # c => pc'[d] = pc[d]
        BY <1>3, Fields
      <3> QED
        BY <1>3, <1>4, <2>1, <3>1, <3>2 DEF ChangeIsCurrent
    <2> QED
      BY <2>2, <2>3
  <1>12. ASSUME ~doubt', ~Refused' PROVE SettingFollows'
    <2>1. SettingFollows
      BY <1>3, <1>6, <1>12 DEF Guarded, Refused
    <2>2. Unguarded' = Unguarded /\ TurnsOn' = TurnsOn /\ TurnsOff' = TurnsOff
      BY <1>3, <1>4 DEF Unguarded, TurnsOn, TurnsOff
    <2>3. (tunAt[file] = tunAt[version] => tunAt'[file'] = tunAt'[version']) \/ Submitting'
      BY <1>2, <1>3, <1>4, <1>7, <1>9
    <2> HIDE DEF Submitting
    <2> QED
      BY <1>3, <1>4, <1>10, <2>1, <2>2, <2>3 DEF SettingFollows
  <1>13. StagesOfRequest' /\ (starting' # "no" => core' = Down) /\ (~doubt' => ~failed' /\ NoneLeaves')
    BY <1>3, <1>6 DEF StagesOfRequest, TurnsOn, TurnsOff, Guarded, NoneLeaves
  <1> QED
    BY <1>8, <1>11, <1>12, <1>13 DEF Guarded

\* A request moves from its caller to the channel, or nothing happens to it.
LEMMA SubmitGuarded ==
  ASSUME TypeOK, Guarded, NEW c \in Callers,
         CallConfig(c) \/ CommitRefused(c) \/ Submit(c) \/ TimesOut(c)
  PROVE  Guarded'
  <1> USE DEF process, callers, history
  <1>1. /\ UNCHANGED <<version, tunAt, file, core, starting, leaving, rules, failed, doubt>>
        /\ worker'.at = worker.at /\ worker'.ok = worker.ok
        /\ worker'.req.syncTUN = worker.req.syncTUN /\ worker'.req.newTUN = worker.req.newTUN
        /\ worker.at = "idle" => worker' = worker
    <2>1. CASE TimesOut(c)
      <3>1. worker'.req = worker.req \/ worker'.req = [worker.req EXCEPT !.by = "nobody"]
        BY <2>1, Fields DEF TimesOut
      <3>2. worker.req.by = c => worker.at # "idle"
        BY Fields, ReconcilerConstantsOK DEF Guarded, StagesOfRequest, NoRequest
      <3> QED
        BY <2>1, <3>1, <3>2, Fields, AnonymousFields DEF TimesOut
    <2>2. CASE ~TimesOut(c)
      BY <2>2 DEF CallConfig, CommitRefused, Submit
    <2> QED
      BY <2>1, <2>2
  <1>2. ClientsSetting'
    <2> SUFFICES ASSUME NEW d \in Callers, pc'[d] = "config"
                 PROVE  base'[d] <= version /\ (base'[d] = version => request'[d].newTUN = tunAt[version])
      BY <1>1 DEF ClientsSetting
    <2>1. CASE pc[d] = "config"
      <3>1. base'[d] = base[d] /\ request'[d] = request[d]
        BY <2>1, Fields DEF CallConfig, CommitRefused, Submit, Send, TimesOut, Leaves
      <3> QED
        BY <2>1, <3>1 DEF Guarded, ClientsSetting
    <2>2. CASE pc[d] # "config"
      <3>1. CallConfig(c) /\ d = c
        BY <2>2, Fields DEF CallConfig, CommitRefused, Submit, Send, TimesOut, Leaves
      <3>2. base'[d] = version /\ request'[d] = [request[d] EXCEPT !.newTUN = tunAt[version]]
        BY <3>1, Fields DEF CallConfig
      <3> QED
        BY <3>2, Fields, VersionsAreNaturals DEF Requests
    <2> QED
      BY <2>1, <2>2
  <1> DEFINE sends(d) == pc[d] = "send" /\ request[d].syncTUN
             sent(d)  == pc'[d] = "send" /\ request'[d].syncTUN
  <1>3. CASE Submit(c)
    <2>1. \A d \in Callers : d # c => pc'[d] = pc[d] /\ request'[d] = request[d]
      BY <1>3, Fields DEF Submit
    <2>2. pc'[c] = "wait" /\ pc[c] = "send"
      BY <1>3, Fields DEF Submit, Send
    <2>3. /\ Len(queue) \in Nat /\ Len(queue') = Len(queue) + 1
          /\ \A i \in 1 .. Len(queue) : queue'[i] = queue[i]
          /\ queue'[Len(queue) + 1] = request[c]
      BY <1>3, SubmitQueue DEF Submit
    <2>4. Submitting => Submitting'
      <3>1. CASE \E d \in Callers : sends(d) /\ d # c
        BY <2>1, <3>1 DEF Submitting
      <3>2. CASE sends(c)
        BY <2>3, <3>2 DEF Submitting
      <3>3. CASE \E i \in 1 .. Len(queue) : queue[i].syncTUN
        <4> PICK i \in 1 .. Len(queue) : queue[i].syncTUN
          BY <3>3
        <4>1. i \in 1 .. Len(queue') /\ queue'[i].syncTUN
          BY <2>3
        <4> QED
          BY <4>1 DEF Submitting
      <3> QED
        BY <3>1, <3>2, <3>3 DEF Submitting
    <2>5. ChangeIsCurrent => ChangeIsCurrent'
      <3>1. \A i \in 1 .. Len(queue') : i \in 1 .. Len(queue) \/ i = Len(queue) + 1
        BY <2>3
      <3> QED
        BY <1>1, <2>1, <2>2, <2>3, <3>1 DEF ChangeIsCurrent
    <2> QED
      BY <1>1, <1>2, <2>4, <2>5
         DEF Guarded, NoneLeaves, StagesOfRequest, SettingFollows, Refused, Unguarded, TurnsOn, TurnsOff
  <1>4. CASE CallConfig(c) \/ CommitRefused(c) \/ TimesOut(c)
    <2>1. /\ Len(queue') = Len(queue)
          /\ \A i \in 1 .. Len(queue) :
               queue'[i].syncTUN = queue[i].syncTUN /\ queue'[i].newTUN = queue[i].newTUN
      BY <1>4, Fields, TimesOutQueue DEF CallConfig, CommitRefused
    <2>2. \A d \in Callers : (pc'[d] = "send") = (pc[d] = "send") /\ (pc[d] = "send" => request'[d] = request[d])
      BY <1>4, Fields DEF CallConfig, CommitRefused, TimesOut, Leaves
    <2>3. Submitting => Submitting'
      BY <2>1, <2>2 DEF Submitting
    <2>4. ChangeIsCurrent => ChangeIsCurrent'
      BY <1>1, <2>1, <2>2 DEF ChangeIsCurrent
    <2> QED
      BY <1>1, <1>2, <2>3, <2>4
         DEF Guarded, NoneLeaves, StagesOfRequest, SettingFollows, Refused, Unguarded, TurnsOn, TurnsOff
  <1> QED
    BY <1>3, <1>4

\* The worker takes a request, or is done with one.
LEMMA RequestGuarded ==
  ASSUME TypeOK, Awaited, Guarded, Take \/ GenerateFails \/ Report
  PROVE  Guarded'
  <1> USE DEF process, callers, history
  <1>1. CASE Take \/ GenerateFails
    <2>1. /\ UNCHANGED <<version, tunAt, core, starting, leaving, rules, pc, base, request, failed, doubt>>
          /\ worker.at = "idle" /\ worker.req = NoRequest
          /\ worker'.req = queue[1] /\ worker'.ok = FALSE
          /\ Take => worker'.at = "look" /\ file' = version
          /\ GenerateFails => worker'.at = "report" /\ file' = file
      BY <1>1, TakeQueue DEF Take, GenerateFails, Resting, GenerateMihomoConfig, Guarded, StagesOfRequest
    <2>2. /\ Len(queue) \in Nat \ {0} /\ Len(queue') = Len(queue) - 1
          /\ \A i \in 1 .. Len(queue') : i + 1 \in 1 .. Len(queue) /\ queue'[i] = queue[i + 1]
          /\ queue[1] \in Requests
      BY <1>1, TakeQueue DEF Take, GenerateFails
    <2>3. ChangeIsCurrent => ChangeIsCurrent'
      BY <1>1, <2>1, <2>2 DEF ChangeIsCurrent, Stages
    <2>4. Submitting => Submitting' \/ queue[1].syncTUN
      <3>1. CASE \E d \in Callers : pc[d] = "send" /\ request[d].syncTUN
        BY <2>1, <3>1 DEF Submitting
      <3>2. CASE \E i \in 1 .. Len(queue) : queue[i].syncTUN
        <4> PICK i \in 1 .. Len(queue) : queue[i].syncTUN
          BY <3>2
        <4>1. i = 1 \/ (i - 1 \in 1 .. Len(queue') /\ queue'[i - 1] = queue[i])
          BY <2>2
        <4> QED
          BY <4>1 DEF Submitting
      <3> QED
        BY <3>1, <3>2 DEF Submitting
    <2>5. ASSUME ~doubt, Take PROVE SettingFollows'
      <3>1. SettingFollows
        BY <2>1, <2>5 DEF Guarded, Refused
      <3>2. TurnsOn' \/ TurnsOff' \/ ~queue[1].syncTUN
        BY <2>1 DEF TurnsOn, TurnsOff
      <3> HIDE DEF Submitting
      <3>3. core # Down /\ tunAt[core] # tunAt[version] => Submitting
        BY <2>1, <3>1 DEF SettingFollows, NoRequest
      <3>4. Unguarded' => Submitting
        BY <2>1, <2>5, <3>1, Fields DEF SettingFollows, Unguarded, TurnsOn, TurnsOff, NoRequest
      <3> QED
        BY <2>1, <2>4, <2>5, <3>2, <3>3, <3>4 DEF SettingFollows
    <2>6. GenerateFails => Refused'
      BY <2>1 DEF Refused
    <2> QED
      BY <1>1, <2>1, <2>3, <2>5, <2>6 DEF Guarded, NoneLeaves, StagesOfRequest, ClientsSetting
  <1>2. CASE Report
    <2>1. /\ UNCHANGED <<version, tunAt, file, core, starting, leaving, rules, queue>>
          /\ worker.at = "report" /\ worker' = Resting
          /\ failed' = ~worker.ok /\ doubt' = (doubt \/ ~worker.ok)
      BY <1>2 DEF Report
    <2>2. \A d \in Callers : pc[d] = "send" => d # worker.req.by
      BY DEF Awaited
    <2>3. \A d \in Callers : /\ (pc'[d] = "send") = (pc[d] = "send")
                             /\ pc'[d] = "config" => pc[d] = "config"
                             /\ pc'[d] # "idle" => request'[d] = request[d] /\ base'[d] = base[d]
      BY <1>2, <2>2 DEF Report, Leaves
    <2>4. Submitting => Submitting'
      BY <2>1, <2>3 DEF Submitting
    <2>5. ClientsSetting'
      BY <2>1, <2>3 DEF ClientsSetting, Guarded
    <2>6. ChangeIsCurrent => ChangeIsCurrent'
      BY <2>1, <2>3 DEF ChangeIsCurrent, Resting, NoRequest, Stages
    <2>7. ~doubt' => ~doubt /\ ~Refused
      BY <2>1 DEF Refused
    <2>8. SettingFollows => SettingFollows'
      <3> HIDE DEF Submitting
      <3> QED
        BY <2>1, <2>4 DEF SettingFollows, Unguarded, TurnsOn, TurnsOff, Resting
    <2> QED
      BY <2>1, <2>5, <2>6, <2>7, <2>8 DEF Guarded, NoneLeaves, StagesOfRequest, Resting
  <1> QED
    BY <1>1, <1>2

LEMMA StepGuarded ==
  TypeOK /\ Ordered /\ Awaited /\ CoreIsNewest /\ Guarded /\ [Next]_vars => Guarded'
  <1>1. ASSUME Guarded, UNCHANGED vars PROVE Guarded'
    BY <1>1 DEF vars, process, callers, history, Guarded, ClientsSetting, StagesOfRequest,
         ChangeIsCurrent, SettingFollows, Unguarded, Refused, TurnsOn, TurnsOff, Submitting,
         NoneLeaves
  <1> QED
    BY <1>1, StageGuarded, CommitGuarded, SubmitGuarded, RequestGuarded DEF Next, WorkerNext

\* A core that has settled in TUN mode has its rules, unless a step has failed, two
\* changes of TUN were under way at once, or the core was started while a waiter of an
\* earlier life had still to remove the rules.
THEOREM TunCoreIsGuardedHolds == Spec => []TunCoreIsGuarded
  <1>1. Init => FileIsNewest /\ CoreIsNewest
    BY DEF Init, FileIsNewest, CoreIsNewest
  <1>2. TypeOK /\ Guarded => TunCoreIsGuarded
    <2> SUFFICES ASSUME TypeOK, Guarded, Settled, ~doubt, core # Down, tunAt[core], ~rules
                 PROVE  FALSE
      BY Fields DEF TunCoreIsGuarded
    <2>1. SettingFollows /\ Unguarded
      BY DEF Guarded, Refused, Settled, Unguarded
    <2>2. ~Submitting
      BY DEF Submitting, Settled
    <2> QED
      BY <2>1, <2>2 DEF SettingFollows, Settled
  <1> QED
    BY <1>1, <1>2, InitType, StepType, InitOrdered, StepOrdered, InitAwaited, StepAwaited, StepNewest,
       InitGuarded, StepGuarded, PTL DEF Spec
-----------------------------------------------------------------------------
(* Lists of members *)

LEMMA UpTo ==
  ASSUME NEW n \in Nat
  PROVE  IsFiniteSet(1 .. n) /\ Cardinality(1 .. n) = n
  <1>1. 1 \in Int /\ n \in Int
    OBVIOUS
  <1>2. IsFiniteSet(1 .. n) /\ Cardinality(1 .. n) = IF 1 > n THEN 0 ELSE n - 1 + 1
    BY <1>1, FS_Interval
  <1> QED
    BY <1>2

\* Among finitely many numbers each has a rank of its own, and every rank is taken.
LEMMA Ranks ==
  ASSUME NEW K \in SUBSET Nat, IsFiniteSet(K)
  PROVE  LET rank(i) == Cardinality({j \in K : j <= i})
         IN  /\ \A i \in K : rank(i) \in 1 .. Cardinality(K)
             /\ \A i, j \in K : rank(i) = rank(j) => i = j
             /\ \A k \in 1 .. Cardinality(K) : \E i \in K : rank(i) = k
  <1> DEFINE upTo(i) == {j \in K : j <= i}
             rank(i) == Cardinality(upTo(i))
             n == Cardinality(K)
  <1>1. n \in Nat
    BY FS_CardinalityType
  <1>2. ASSUME NEW i \in K
        PROVE  IsFiniteSet(upTo(i)) /\ rank(i) \in Nat /\ rank(i) <= n /\ rank(i) # 0
    <2>1. upTo(i) \in SUBSET K /\ i \in upTo(i)
      BY <1>2
    <2>2. IsFiniteSet(upTo(i)) /\ rank(i) <= n
      BY <2>1, FS_Subset
    <2> QED
      BY <2>1, <2>2, FS_CardinalityType, FS_EmptySet
  <1>3. ASSUME NEW i \in K, NEW j \in K, i < j PROVE rank(i) # rank(j)
    <2>0. i \in Nat /\ j \in Nat /\ \A k \in K : k \in Nat /\ (k <= i => k <= j)
      BY <1>3
    <2>1. upTo(i) \in SUBSET upTo(j) /\ j \in upTo(j)
      <3>1. \A k \in upTo(i) : k \in upTo(j)
        BY <2>0
      <3>2. j <= j
        BY <2>0
      <3> QED
        BY <3>1, <3>2
    <2>2. j \notin upTo(i)
      BY <1>3, <2>0
    <2>3. rank(i) = rank(j) => upTo(i) = upTo(j)
      BY <1>2, <2>1, FS_Subset
    <2> QED
      BY <2>1, <2>2, <2>3
  <1>4. \A i, j \in K : rank(i) = rank(j) => i = j
    BY <1>3
  <1>5. \A i \in K : rank(i) \in 1 .. n
    BY <1>1, <1>2
  <1> DEFINE f == [i \in K |-> rank(i)]
  <1>6. f \in Injection(K, 1 .. n)
    BY <1>4, <1>5 DEF Injection, IsInjective
  <1>7. IsFiniteSet(1 .. n) /\ Cardinality(1 .. n) = n
    BY <1>1, UpTo
  <1>8. f \in Surjection(K, 1 .. n)
    BY <1>6, <1>7, FS_Injection
  <1>9. \A k \in 1 .. n : \E i \in K : rank(i) = k
    BY <1>8 DEF Surjection
  <1> QED
    BY <1>4, <1>5, <1>9

\* What is left of a list has the members that were not taken, each once if it was
\* there once.
LEMMA WithoutIs ==
  ASSUME NEW T, NEW l \in Seq(T), NEW S
  PROVE  /\ Without(l, S) \in Seq(T)
         /\ ToSet(Without(l, S)) = ToSet(l) \ S
         /\ IsInjective(l) => IsInjective(Without(l, S))
  <1> DEFINE K == {i \in DOMAIN l : l[i] \notin S}
             rank(i) == Cardinality({j \in K : j <= i})
             n == Cardinality(K)
             at(k) == CHOOSE i \in K : rank(i) = k
             w == [k \in 1 .. n |-> l[at(k)]]
  <1>1. K \in SUBSET Nat /\ IsFiniteSet(K) /\ n \in Nat
    <2>1. DOMAIN l = 1 .. Len(l) /\ Len(l) \in Nat
      OBVIOUS
    <2>2. IsFiniteSet(DOMAIN l)
      BY <2>1, UpTo
    <2>3. K \in SUBSET DOMAIN l
      OBVIOUS
    <2>4. IsFiniteSet(K)
      BY <2>2, <2>3, FS_Subset
    <2> QED
      BY <2>1, <2>3, <2>4, FS_CardinalityType
  <1>2. /\ \A i \in K : rank(i) \in 1 .. n
        /\ \A i, j \in K : rank(i) = rank(j) => i = j
        /\ \A k \in 1 .. n : \E i \in K : rank(i) = k
    BY <1>1, Ranks
  <1>3. Without(l, S) = w
    BY DEF Without
  <1> HIDE DEF K, n
  <1>4. \A k \in 1 .. n : at(k) \in K /\ rank(at(k)) = k
    BY <1>2
  <1>5. \A i \in K : at(rank(i)) = i
    BY <1>2, <1>4
  <1> HIDE DEF at, rank
  <1>6. \A i \in K : i \in DOMAIN l /\ l[i] \in T /\ l[i] \notin S
    BY DEF K
  <1>7. w \in Seq(T)
    <2>1. \A k \in 1 .. n : l[at(k)] \in T
      BY <1>4, <1>6
    <2>2. w \in [1 .. n -> T]
      BY <2>1
    <2> HIDE DEF w
    <2> QED
      BY <1>1, <2>2
  <1>8. DOMAIN w = 1 .. n
    OBVIOUS
  <1>9. ToSet(w) = {l[i] : i \in K}
    BY <1>2, <1>4, <1>5, <1>8 DEF ToSet
  <1>10. {l[i] : i \in K} = ToSet(l) \ S
    BY DEF K, ToSet
  <1>11. ASSUME IsInjective(l) PROVE IsInjective(w)
    <2>1. \A a, b \in DOMAIN l : l[a] = l[b] => a = b
      BY <1>11 DEF IsInjective
    <2> QED
      BY <1>4, <1>6, <1>8, <2>1 DEF IsInjective
  <1> QED
    BY <1>3, <1>7, <1>9, <1>10, <1>11

\* The first member, where there is one.
LEMMA FirstIs ==
  ASSUME NEW T, "none" \notin T, NEW l \in Seq(T)
  PROVE  /\ l = <<>> <=> ToSet(l) = {}
         /\ ToSet(l) \subseteq T
         /\ FirstOrNone(l) \in ToSet(l) \cup {"none"}
         /\ FirstOrNone(l) = "none" <=> l = <<>>
  <1>1. ToSet(l) \subseteq T
    BY DEF ToSet
  <1>2. CASE l = <<>>
    BY <1>2 DEF ToSet, FirstOrNone
  <1>3. CASE l # <<>>
    <2>1. 1 \in DOMAIN l /\ Head(l) = l[1]
      BY <1>3
    <2>2. l[1] \in ToSet(l)
      BY <2>1 DEF ToSet
    <2>3. FirstOrNone(l) = l[1]
      BY <1>3, <2>1 DEF FirstOrNone
    <2> QED
      BY <1>1, <1>3, <2>2, <2>3
  <1> QED
    BY <1>1, <1>2, <1>3

-----------------------------------------------------------------------------
(* Pools and subscriptions *)

SubRecords  == [here : BOOLEAN, cached : BOOLEAN, fails : 0 .. Threshold]
PoolRecords == [members : Seq(Subs), active : Subs \cup {"none"}, enabled : BOOLEAN]

PoolsTyped ==
  /\ sub \in [Subs -> SubRecords] /\ pool \in [Pools -> PoolRecords] /\ list \in Seq(Pools)

\* A pool that has members has chosen one of them, a pool that is not listed is as
\* new, and so is a subscription that is not there.
Chosen(P)      == \A p \in Pools : P[p].active = "none" => P[p].members = <<>>
Unlisted(P, L) == \A p \in Pools \ ToSet(L) : P[p] = NewPool
Unused(S)      == \A s \in Subs : S[s].here \/ S[s] = Absent

PoolsInv ==
  PoolsTyped /\ Valid(sub, pool, list) /\ Chosen(pool) /\ Unlisted(pool, list) /\ Unused(sub)

LEMMA NamesApart == "none" \notin Subs /\ "gone" \notin Subs
  BY SubscriptionsConstantsOK

LEMMA NewPoolIs ==
  /\ NewPool \in PoolRecords /\ NewPool.members = <<>>
  /\ NewPool.active = "none" /\ NewPool.enabled = FALSE
  BY DEF NewPool, PoolRecords

\* A list of members a request may name.
LEMMA MemberListIs ==
  ASSUME PoolsTyped, NEW l \in MemberLists
  PROVE  l \in Seq(Subs) /\ IsInjective(l) /\ ToSet(l) \subseteq Here
  <1>1. IsInjective(l) /\ l \in SeqOf(Here, Cardinality(Here))
    BY DEF MemberLists
  <1>2. Cardinality(Here) \in Nat
    BY SubscriptionsConstantsOK, FS_Subset, FS_CardinalityType DEF Here
  <1>3. PICK m \in 0 .. Cardinality(Here) : l \in [1 .. m -> Here]
    BY <1>1 DEF SeqOf
  <1>4. l \in Seq(Here) /\ DOMAIN l = 1 .. m
    BY <1>2, <1>3
  <1>5. l \in Seq(Subs)
    BY <1>4 DEF Here
  <1> QED
    BY <1>1, <1>3, <1>4, <1>5 DEF ToSet

\* What is left of the members of a pool when those in S are taken away.
Taken(old, S, kept) ==
  /\ kept \in Seq(Subs) /\ ToSet(kept) = ToSet(old.members) \ S
  /\ IsInjective(old.members) => IsInjective(kept)
  /\ FirstOrNone(kept) \in ToSet(kept) \cup {"none"}
  /\ FirstOrNone(kept) = "none" <=> kept = <<>>
  /\ ToSet(kept) \subseteq Subs
  /\ kept = <<>> <=> ToSet(kept) = {}
  /\ old.active \notin S =>
       /\ old.active \in ToSet(kept) \cup {"none"}
       /\ (old.active = "none") => (kept = <<>>)

LEMMA TakenFrom ==
  ASSUME NEW old \in PoolRecords, old.active \in ToSet(old.members) \cup {"none"},
         old.active = "none" => old.members = <<>>, NEW S
  PROVE  Taken(old, S, Without(old.members, S))
  <1> DEFINE kept == Without(old.members, S)
  <1>1. old.members \in Seq(Subs)
    BY DEF PoolRecords
  <1>2. /\ kept \in Seq(Subs) /\ ToSet(kept) = ToSet(old.members) \ S
        /\ IsInjective(old.members) => IsInjective(kept)
    BY <1>1, WithoutIs
  <1> HIDE DEF kept
  <1>3. /\ kept = <<>> <=> ToSet(kept) = {}
        /\ ToSet(kept) \subseteq Subs
        /\ FirstOrNone(kept) \in ToSet(kept) \cup {"none"}
        /\ FirstOrNone(kept) = "none" <=> kept = <<>>
    BY <1>2, FirstIs, NamesApart
  <1>4. old.members = <<>> => ToSet(old.members) = {}
    BY DEF ToSet
  <1>5. Taken(old, S, kept)
    BY <1>2, <1>3, <1>4 DEF Taken
  <1> QED
    BY <1>5 DEF kept

LEMMA PoolIs ==
  ASSUME PoolsInv, NEW p \in Pools
  PROVE  /\ pool[p] \in PoolRecords /\ pool[p].members \in Seq(Subs)
         /\ pool[p].active \in ToSet(pool[p].members) \cup {"none"}
         /\ pool[p].active = "none" => pool[p].members = <<>>
  <1>1. pool[p] \in PoolRecords /\ pool[p].members \in Seq(Subs)
    BY DEF PoolsInv, PoolsTyped, PoolRecords
  <1>2. pool[p].active = "none" => pool[p].members = <<>>
    BY DEF PoolsInv, Chosen
  <1>3. pool[p].active \in ToSet(pool[p].members) \cup {"none"}
    <2>1. CASE p \in ToSet(list)
      BY <2>1 DEF PoolsInv, Valid
    <2>2. CASE p \notin ToSet(list)
      BY <2>2, NewPoolIs DEF PoolsInv, Unlisted
    <2> QED
      BY <2>1, <2>2
  <1> QED
    BY <1>1, <1>2, <1>3

\* What Validate asks of one pool, and of two.
PoolValid(S, r) ==
  /\ IsInjective(r.members)
  /\ \A s \in ToSet(r.members) : S[s].here
  /\ r.active \in ToSet(r.members) \cup {"none"}
  /\ r.enabled => ToSet(r.members) # {}

Apart(r, q) == ToSet(r.members) \cap ToSet(q.members) = {}

LEMMA ValidIs ==
  ASSUME NEW S, NEW P, NEW L
  PROVE  Valid(S, P, L) <=>
           /\ \A p \in ToSet(L) : PoolValid(S, P[p])
           /\ \A p, q \in ToSet(L) : p # q => Apart(P[p], P[q])
  BY DEF Valid, PoolValid, Apart

\* A deletion leaves pools that are valid.
LEMMA RemoveKeeps ==
  ASSUME PoolsInv, NEW s \in Subs, NEW R, R = RemoveSubscription(s),
         NEW S, S = [sub EXCEPT ![s] = Absent]
  PROVE  /\ R \in [Pools -> PoolRecords] /\ Chosen(R) /\ Unlisted(R, list)
         /\ Valid(S, R, list)
  <1> DEFINE kept(p) == Without(pool[p].members, {s})
  <1>1. ASSUME NEW p \in Pools PROVE Taken(pool[p], {s}, kept(p))
    BY PoolIs, TakenFrom
  <1>2. ASSUME NEW p \in Pools
        PROVE  /\ R[p].members = kept(p)
               /\ R[p].active = IF pool[p].active = s THEN FirstOrNone(kept(p)) ELSE pool[p].active
               /\ R[p].enabled \in BOOLEAN /\ (R[p].enabled <=> pool[p].enabled /\ kept(p) # <<>>)
               /\ R[p] = [members |-> kept(p), active |-> R[p].active, enabled |-> R[p].enabled]
    BY DEF RemoveSubscription
  <1>9. R = [p \in Pools |-> R[p]]
    BY DEF RemoveSubscription
  <1> HIDE DEF kept
  <1>3. ASSUME NEW p \in Pools
        PROVE  /\ R[p].members = kept(p) /\ R[p].active \in ToSet(kept(p)) \cup {"none"}
               /\ R[p].active = "none" => kept(p) = <<>>
               /\ R[p].enabled \in BOOLEAN /\ (R[p].enabled => ToSet(kept(p)) # {})
               /\ R[p] \in PoolRecords
    <2>1. pool[p].enabled \in BOOLEAN /\ Taken(pool[p], {s}, kept(p))
      BY <1>1, PoolIs DEF PoolRecords
    <2>2. /\ R[p].members = kept(p)
          /\ R[p].enabled \in BOOLEAN /\ (R[p].enabled <=> pool[p].enabled /\ kept(p) # <<>>)
      BY <1>2
    <2>3. R[p].active = IF pool[p].active = s THEN FirstOrNone(kept(p)) ELSE pool[p].active
      BY <1>2
    <2>4. /\ R[p].active \in ToSet(kept(p)) \cup {"none"}
          /\ R[p].active = "none" => kept(p) = <<>>
      BY <2>1, <2>3 DEF Taken
    <2>5. /\ R[p].enabled \in BOOLEAN
          /\ R[p].enabled => ToSet(kept(p)) # {}
      BY <2>1, <2>2 DEF Taken
    <2>6. R[p] \in PoolRecords
      <3>1. R[p].active \in Subs \cup {"none"} /\ kept(p) \in Seq(Subs)
        BY <2>1, <2>4 DEF Taken
      <3>2. R[p] = [members |-> kept(p), active |-> R[p].active, enabled |-> R[p].enabled]
        BY <1>2
      <3> QED
        BY <2>5, <3>1, <3>2 DEF PoolRecords
    <2> QED
      BY <2>2, <2>4, <2>5, <2>6
  <1>4. R \in [Pools -> PoolRecords] /\ Chosen(R)
    BY <1>3, <1>9 DEF Chosen
  <1>5. Unlisted(R, list)
    <2> SUFFICES ASSUME NEW p \in Pools \ ToSet(list) PROVE R[p] = NewPool
      BY DEF Unlisted
    <2>1. pool[p] = NewPool
      BY DEF PoolsInv, Unlisted
    <2>2. ToSet(pool[p].members) = {}
      BY <2>1, NewPoolIs DEF ToSet
    <2>3. kept(p) = <<>> /\ pool[p].active = "none" /\ pool[p].active # s /\ pool[p].enabled = FALSE
      BY <1>1, <2>1, <2>2, NewPoolIs, NamesApart DEF Taken
    <2> QED
      BY <1>2, <2>3 DEF NewPool
  <1>6. \A p \in Pools : p \in ToSet(list) => PoolValid(S, R[p])
    <2> SUFFICES ASSUME NEW p \in Pools, p \in ToSet(list) PROVE PoolValid(S, R[p])
      OBVIOUS
    <2>1. PoolValid(sub, pool[p])
      BY ValidIs DEF PoolsInv
    <2>2. \A t \in ToSet(kept(p)) : S[t].here
      <3> SUFFICES ASSUME NEW t \in ToSet(kept(p)) PROVE S[t].here
        OBVIOUS
      <3>1. t \in Subs /\ t # s /\ sub[t].here
        BY <1>1, <2>1 DEF Taken, PoolValid
      <3> QED
        BY <3>1 DEF PoolsInv, PoolsTyped
    <2> QED
      BY <1>1, <1>3, <2>1, <2>2 DEF PoolValid, Taken
  <1>7. ToSet(list) \subseteq Pools
    BY DEF PoolsInv, PoolsTyped, ToSet
  <1>8. \A p, q \in ToSet(list) : p # q => Apart(R[p], R[q])
    <2> SUFFICES ASSUME NEW p \in ToSet(list), NEW q \in ToSet(list), p # q
                 PROVE  Apart(R[p], R[q])
      OBVIOUS
    <2>1. p \in Pools /\ q \in Pools /\ Apart(pool[p], pool[q])
      BY <1>7, ValidIs DEF PoolsInv
    <2>2. R[p].members = kept(p) /\ R[q].members = kept(q)
      BY <1>3, <2>1
    <2>3. Taken(pool[p], {s}, kept(p)) /\ Taken(pool[q], {s}, kept(q))
      BY <1>1, <2>1
    <2> QED
      BY <2>1, <2>2, <2>3 DEF Taken, Apart
  <1> QED
    BY <1>4, <1>5, <1>6, <1>7, <1>8, ValidIs

\* Pools that may be saved, where only p is listed anew.
MaySave(Q, p) ==
  /\ Q \in [Pools -> PoolRecords] /\ Chosen(Q)
  /\ \A q \in Pools : q = p \/ q \in ToSet(list) \/ Q[q] = NewPool

\* Members that are given to a pool leave the others, and these stay valid.
LEMMA AssignKeeps ==
  ASSUME PoolsInv, NEW p \in Pools, NEW members \in MemberLists, NEW on \in BOOLEAN,
         NEW active \in ToSet(members) \cup {"none"},
         NEW Q, Q = PoolsWith(p, members, active, on)
  PROVE  /\ MaySave(Q, p)
         /\ on = FALSE /\ p \in ToSet(list) => Valid(sub, Q, list)
  <1> DEFINE moved == ToSet(members)
             kept(q) == Without(pool[q].members, moved)
  <1>0. members \in Seq(Subs) /\ IsInjective(members) /\ moved \subseteq Here
    BY MemberListIs DEF PoolsInv
  <1>1. ASSUME NEW q \in Pools PROVE Taken(pool[q], moved, kept(q))
    BY PoolIs, TakenFrom
  <1>8. Q = [q \in Pools |-> Q[q]] /\ Q[p] = PoolOf(members, active, on)
    <2>1. pool \in [Pools -> PoolRecords]
      BY DEF PoolsInv, PoolsTyped
    <2> QED
      BY <2>1 DEF PoolsWith, AssignPoolMembers
  <1>2. ASSUME NEW q \in Pools \ {p}
        PROVE  /\ Q[q].members = kept(q)
               /\ Q[q].active = IF pool[q].active \in moved THEN FirstOrNone(kept(q))
                                ELSE pool[q].active
               /\ Q[q].enabled \in BOOLEAN
               /\ Q[q].enabled <=> pool[q].enabled /\ ~(pool[q].active \in moved /\ kept(q) = <<>>)
               /\ Q[q] = [members |-> kept(q), active |-> Q[q].active, enabled |-> Q[q].enabled]
    <2> DEFINE old == [pool EXCEPT ![p] = PoolOf(members, active, on)]
    <2>1. pool \in [Pools -> PoolRecords]
      BY DEF PoolsInv, PoolsTyped
    <2>2. old[q] = pool[q]
      BY <2>1
    <2>3. Q = AssignPoolMembers(old, p, members)
      BY DEF PoolsWith
    <2> HIDE DEF old
    <2>4. Q[q] = [members |-> Without(old[q].members, ToSet(members)),
                  active  |-> IF old[q].active \in ToSet(members)
                              THEN FirstOrNone(Without(old[q].members, ToSet(members)))
                              ELSE old[q].active,
                  enabled |-> old[q].enabled /\ ~(/\ old[q].active \in ToSet(members)
                                                  /\ Without(old[q].members, ToSet(members)) = <<>>)]
      BY <2>3 DEF AssignPoolMembers
    <2> DEFINE next  == IF pool[q].active \in moved THEN FirstOrNone(kept(q)) ELSE pool[q].active
               stays == pool[q].enabled /\ ~(pool[q].active \in moved /\ kept(q) = <<>>)
    <2>5. Q[q] = [members |-> kept(q), active  |-> next, enabled |-> stays]
      BY <2>2, <2>4
    <2>6. stays \in BOOLEAN
      OBVIOUS
    <2> HIDE DEF kept, moved, next, stays
    <2>7. /\ Q[q].members = kept(q) /\ Q[q].active = next /\ Q[q].enabled = stays
          /\ Q[q] = [members |-> kept(q), active |-> Q[q].active, enabled |-> Q[q].enabled]
      BY <2>5
    <2> QED
      BY <2>6, <2>7 DEF next, stays
  <1>3. /\ Q[p].members = members /\ Q[p].enabled = on /\ Q[p] \in PoolRecords
        /\ Q[p].active \in moved \cup {"none"} /\ (Q[p].active = "none" => members = <<>>)
    <2>1. /\ FirstOrNone(members) \in moved \cup {"none"} /\ moved \subseteq Subs
          /\ FirstOrNone(members) = "none" <=> members = <<>>
      BY <1>0, FirstIs, NamesApart
    <2> QED
      BY <1>0, <1>8, <2>1 DEF PoolOf, PoolRecords
  <1> HIDE DEF kept, moved
  <1>4. ASSUME NEW q \in Pools \ {p}
        PROVE  /\ Q[q].members = kept(q) /\ Q[q].active \in ToSet(kept(q)) \cup {"none"}
               /\ Q[q].active = "none" => kept(q) = <<>>
               /\ Q[q] \in PoolRecords
    <2>2. Q[q].members = kept(q) /\ Taken(pool[q], moved, kept(q))
      BY <1>1, <1>2
    <2>3. Q[q].active = IF pool[q].active \in moved THEN FirstOrNone(kept(q)) ELSE pool[q].active
      BY <1>2
    <2>4. /\ Q[q].active \in ToSet(kept(q)) \cup {"none"}
          /\ Q[q].active = "none" => kept(q) = <<>>
      BY <2>2, <2>3 DEF Taken
    <2>5. Q[q] \in PoolRecords
      <3>1. Q[q].active \in Subs \cup {"none"} /\ kept(q) \in Seq(Subs)
        BY <2>2, <2>4 DEF Taken
      <3>2. Q[q].enabled \in BOOLEAN
        BY <1>2
      <3>3. Q[q] = [members |-> kept(q), active |-> Q[q].active, enabled |-> Q[q].enabled]
        BY <1>2
      <3> QED
        BY <3>1, <3>2, <3>3 DEF PoolRecords
    <2> QED
      BY <2>2, <2>4, <2>5
  <1>5. Q \in [Pools -> PoolRecords] /\ Chosen(Q)
    <2>1. \A q \in Pools : Q[q] \in PoolRecords /\ (Q[q].active = "none" => Q[q].members = <<>>)
      BY <1>3, <1>4
    <2> QED
      BY <1>8, <2>1 DEF Chosen
  <1>6. ASSUME NEW q \in Pools \ {p}, q \notin ToSet(list) PROVE Q[q] = NewPool
    <2>1. pool[q] = NewPool
      BY <1>6 DEF PoolsInv, Unlisted
    <2>2. ToSet(pool[q].members) = {}
      BY <2>1, NewPoolIs DEF ToSet
    <2>3. moved \subseteq Subs
      BY <1>0 DEF Here
    <2>4. /\ kept(q) = <<>> /\ pool[q].active = "none" /\ pool[q].active \notin moved
          /\ pool[q].enabled = FALSE
      BY <1>1, <2>1, <2>2, <2>3, NewPoolIs, NamesApart DEF Taken
    <2> QED
      BY <1>2, <2>4 DEF NewPool
  <1>7. ASSUME on = FALSE, p \in ToSet(list) PROVE Valid(sub, Q, list)
    <2>1. ToSet(list) \subseteq Pools
      BY DEF PoolsInv, PoolsTyped, ToSet
    <2>2. PoolValid(sub, Q[p])
      BY <1>0, <1>3, <1>7 DEF PoolValid, Here, moved
    <2>3. ASSUME NEW q \in ToSet(list) \ {p} PROVE PoolValid(sub, Q[q])
      <3>1. PoolValid(sub, pool[q]) /\ q \in Pools
        BY <2>1, ValidIs DEF PoolsInv
      <3>2. Q[q].enabled => ToSet(kept(q)) # {}
        <4>1. CASE pool[q].active \in moved
          <5>1. Q[q].enabled => kept(q) # <<>>
            BY <1>2, <3>1, <4>1
          <5>2. Taken(pool[q], moved, kept(q))
            BY <1>1, <3>1
          <5> QED
            BY <5>1, <5>2 DEF Taken
        <4>2. CASE pool[q].active \notin moved
          <5>1. Q[q].enabled => pool[q].enabled
            BY <1>2, <3>1
          <5>2. Taken(pool[q], moved, kept(q)) /\ pool[q].enabled \in BOOLEAN
            BY <1>1, <3>1, PoolIs DEF PoolRecords
          <5>3. pool[q].enabled => pool[q].active # "none"
            <6>1. pool[q].active = "none" => pool[q].members = <<>>
              BY <3>1, PoolIs
            <6>2. pool[q].members = <<>> => ToSet(pool[q].members) = {}
              BY DEF ToSet
            <6> QED
              BY <3>1, <6>1, <6>2 DEF PoolValid
          <5> QED
            BY <4>2, <5>1, <5>2, <5>3 DEF Taken
        <4> QED
          BY <4>1, <4>2
      <3> QED
        <4>1. Taken(pool[q], moved, kept(q)) /\ Q[q].members = kept(q)
          BY <1>1, <1>4, <3>1
        <4>2. Q[q].active \in ToSet(kept(q)) \cup {"none"}
          BY <1>4, <3>1
        <4> QED
          BY <3>1, <3>2, <4>1, <4>2 DEF PoolValid, Taken
    <2>4. ASSUME NEW q \in ToSet(list), NEW r \in ToSet(list), q # r PROVE Apart(Q[q], Q[r])
      <3>1. Apart(pool[q], pool[r])
        BY <2>4, ValidIs DEF PoolsInv
      <3>2. q \in Pools /\ r \in Pools /\ ToSet(members) = moved
        BY <2>1 DEF moved
      <3>3. CASE q = p
        BY <1>1, <1>3, <1>4, <2>4, <3>2, <3>3 DEF Apart, Taken
      <3>4. CASE r = p
        BY <1>1, <1>3, <1>4, <2>4, <3>2, <3>4 DEF Apart, Taken
      <3>5. CASE q # p /\ r # p
        BY <1>1, <1>4, <3>1, <3>2, <3>5 DEF Apart, Taken
      <3> QED
        BY <3>3, <3>4, <3>5
    <2> QED
      BY <2>2, <2>3, <2>4, ValidIs
  <1> QED
    BY <1>5, <1>6, <1>7 DEF MaySave

-----------------------------------------------------------------------------
(* What every saved configuration is like *)

\* UpdateGlobalConfig validates; the rest is what each change takes care of.
LEMMA Saved ==
  ASSUME NEW S \in [Subs -> SubRecords], NEW P \in [Pools -> PoolRecords], NEW L \in Seq(Pools),
         Chosen(P), Unlisted(P, L), Unused(S), UpdateGlobalConfig(S, P, L)
  PROVE  PoolsInv'
  <1>1. Valid(S, P, L) /\ sub' = S /\ pool' = P /\ list' = L
    BY DEF UpdateGlobalConfig
  <1> QED
    BY <1>1 DEF PoolsInv, PoolsTyped, Valid, Chosen, Unlisted, Unused

LEMMA Unchanged ==
  ASSUME PoolsInv, UNCHANGED <<sub, pool, list>>
  PROVE  PoolsInv'
  BY DEF PoolsInv, PoolsTyped, Valid, Chosen, Unlisted, Unused

LEMMA InitPools == SubscriptionsInit => PoolsInv
  <1> SUFFICES ASSUME SubscriptionsInit PROVE PoolsInv
    OBVIOUS
  <1>1. Absent \in SubRecords /\ Absent.here = FALSE
    BY SubscriptionsConstantsOK DEF Absent, SubRecords
  <1>2. PoolsTyped
    BY <1>1, NewPoolIs DEF SubscriptionsInit, PoolsTyped
  <1>3. Chosen(pool) /\ Unlisted(pool, list) /\ Unused(sub)
    BY NewPoolIs DEF SubscriptionsInit, Chosen, Unlisted, Unused
  <1>4. Valid(sub, pool, list)
    <2>1. ToSet(list) = {}
      BY DEF SubscriptionsInit, ToSet
    <2> QED
      BY <2>1 DEF Valid
  <1> QED
    BY <1>2, <1>3, <1>4 DEF PoolsInv

\* A change of one subscription.
LEMMA SubChanges ==
  ASSUME PoolsInv, NEW s \in Subs, NEW r \in SubRecords, r.here \/ r = Absent,
         UpdateGlobalConfig([sub EXCEPT ![s] = r], pool, list)
  PROVE  PoolsInv'
  <1> DEFINE S == [sub EXCEPT ![s] = r]
  <1>1. S \in [Subs -> SubRecords] /\ Unused(S)
    BY DEF PoolsInv, PoolsTyped, Unused
  <1> HIDE DEF S
  <1>2. UpdateGlobalConfig(S, pool, list)
    BY DEF S
  <1>3. /\ pool \in [Pools -> PoolRecords] /\ list \in Seq(Pools)
        /\ Chosen(pool) /\ Unlisted(pool, list)
    BY DEF PoolsInv, PoolsTyped
  <1> QED
    BY <1>1, <1>2, <1>3, Saved

\* A subscription as it is after a download, as it is created, and as it is removed.
LEMMA SubsAre ==
  /\ Downloaded \in SubRecords /\ Downloaded.here /\ Downloaded.cached
  /\ Created \in SubRecords /\ Created.here /\ ~Created.cached
  /\ Absent \in SubRecords /\ ~Absent.here /\ ~Absent.cached
  <1>1. 0 \in 0 .. Threshold
    BY SubscriptionsConstantsOK
  <1> QED
    BY <1>1 DEF Downloaded, Created, Absent, SubRecords

LEMMA AppendIs ==
  ASSUME NEW T, NEW l \in Seq(T), NEW m \in T
  PROVE  Append(l, m) \in Seq(T) /\ ToSet(Append(l, m)) = ToSet(l) \cup {m}
  <1> DEFINE n == Len(l) + 1
             a == Append(l, m)
  <1>1. a \in Seq(T) /\ a[n] = m /\ n \in 1 .. n /\ 1 .. n = 1 .. Len(l) \cup {n}
    OBVIOUS
  <1>2. DOMAIN a = 1 .. n /\ DOMAIN l = 1 .. Len(l)
    OBVIOUS
  <1>3. \A i \in 1 .. Len(l) : a[i] = l[i]
    OBVIOUS
  <1> HIDE DEF a, n
  <1>4. ToSet(a) = ToSet(l) \cup {m}
    BY <1>1, <1>2, <1>3 DEF ToSet
  <1> QED
    BY <1>1, <1>4 DEF a

\* The pools an import adds to.
LEMMA DefaultPoolIs ==
  ASSUME PoolsInv, NEW p0 \in Pools \ Merging, NEW d, d = WithDefaultPool(p0)
  PROVE  /\ d.L \in Seq(Pools) /\ Head(d.L) \in Pools /\ Head(d.L) \in ToSet(d.L)
         /\ d.P \in [Pools -> PoolRecords] /\ Unlisted(d.P, d.L)
         /\ \A p \in Pools : p # Head(d.L) => d.P[p] = pool[p]
  <1>0. pool \in [Pools -> PoolRecords] /\ list \in Seq(Pools) /\ Unlisted(pool, list)
    BY DEF PoolsInv, PoolsTyped
  <1>1. CASE list = <<>>
    <2>1. d.L = <<p0>> /\ d.P = [pool EXCEPT ![p0].enabled = TRUE]
      BY <1>1 DEF WithDefaultPool
    <2>2. d.L \in Seq(Pools) /\ Head(d.L) = p0 /\ ToSet(d.L) = {p0}
      BY <2>1 DEF ToSet
    <2>3. [pool[p0] EXCEPT !.enabled = TRUE] \in PoolRecords
      BY <1>0 DEF PoolRecords
    <2>4. d.P \in [Pools -> PoolRecords] /\ \A p \in Pools : p # p0 => d.P[p] = pool[p]
      BY <1>0, <2>1, <2>3
    <2>5. ToSet(list) = {}
      BY <1>1 DEF ToSet
    <2> QED
      BY <1>0, <2>2, <2>4, <2>5 DEF Unlisted
  <1>2. CASE list # <<>>
    <2>1. d.L = list /\ d.P = pool
      BY <1>2 DEF WithDefaultPool
    <2>2. 1 \in DOMAIN list /\ Head(list) = list[1] /\ list[1] \in Pools
      BY <1>0, <1>2
    <2> QED
      BY <1>0, <2>1, <2>2 DEF ToSet
  <1> QED
    BY <1>1, <1>2

LEMMA JoinedIs ==
  ASSUME NEW D \in [Pools -> PoolRecords], NEW p \in Pools, NEW s \in Subs,
         NEW P, P = Joined(D, p, s)
  PROVE  /\ P \in [Pools -> PoolRecords]
         /\ s \in ToSet(P[p].members) /\ P[p].enabled = D[p].enabled
         /\ P[p].active = IF D[p].active = "none" THEN s ELSE D[p].active
         /\ P[p].active # "none"
         /\ \A q \in Pools : q # p => P[q] = D[q]
  <1> DEFINE old     == D[p]
             members == IF s \in ToSet(old.members) THEN old.members ELSE Append(old.members, s)
             active  == IF old.active = "none" THEN s ELSE old.active
             new     == [old EXCEPT !.members = members, !.active = active]
  <1>1. old \in PoolRecords /\ old.members \in Seq(Subs)
    BY DEF PoolRecords
  <1>2. members \in Seq(Subs) /\ s \in ToSet(members)
    BY <1>1, AppendIs
  <1>3. active \in Subs /\ active # "none" /\ old.enabled \in BOOLEAN
    BY <1>1, NamesApart DEF PoolRecords
  <1>4. P = [D EXCEPT ![p] = new]
    BY DEF Joined
  <1> HIDE DEF members, active
  <1>5. new \in PoolRecords
    BY <1>1, <1>2, <1>3 DEF PoolRecords
  <1>6. new.members = members /\ new.active = active /\ new.enabled = old.enabled
    BY <1>1 DEF PoolRecords
  <1> HIDE DEF new, old
  <1>7. /\ P \in [Pools -> PoolRecords] /\ P[p] = new
        /\ \A q \in Pools : q # p => P[q] = D[q]
    BY <1>4, <1>5
  <1> QED
    BY <1>2, <1>3, <1>6, <1>7 DEF old, active

LEMMA ImportPools ==
  ASSUME PoolsInv, NEW s \in Subs, NEW p0 \in Pools \ Merging,
         NEW d, d = WithDefaultPool(p0), NEW p, p = Head(d.L), NEW P, P = Joined(d.P, p, s),
         UpdateGlobalConfig([sub EXCEPT ![s] = Downloaded], P, d.L)
  PROVE  PoolsInv'
  <1>1. /\ d.L \in Seq(Pools) /\ p \in Pools /\ p \in ToSet(d.L)
        /\ d.P \in [Pools -> PoolRecords] /\ Unlisted(d.P, d.L)
        /\ \A q \in Pools : q # p => d.P[q] = pool[q]
    BY DefaultPoolIs
  <1>2. /\ P \in [Pools -> PoolRecords] /\ P[p].active # "none"
        /\ \A q \in Pools : q # p => P[q] = d.P[q]
    BY <1>1, JoinedIs
  <1>3. \A q \in Pools : pool[q].active = "none" => pool[q].members = <<>>
    BY DEF Chosen, PoolsInv
  <1>4. Chosen(P)
    <2> SUFFICES ASSUME NEW q \in Pools, P[q].active = "none" PROVE P[q].members = <<>>
      BY DEF Chosen
    <2>1. q # p /\ P[q] = pool[q]
      BY <1>1, <1>2
    <2> QED
      BY <1>3, <2>1
  <1>5. Unlisted(P, d.L)
    BY <1>1, <1>2 DEF Unlisted
  <1> DEFINE S == [sub EXCEPT ![s] = Downloaded]
  <1>6. S \in [Subs -> SubRecords] /\ Unused(S)
    BY SubsAre DEF PoolsInv, PoolsTyped, Unused
  <1>7. UpdateGlobalConfig(S, P, d.L)
    OBVIOUS
  <1> HIDE DEF S
  <1> QED
    BY <1>1, <1>2, <1>4, <1>5, <1>6, <1>7, Saved

LEMMA AssignPools ==
  ASSUME PoolsInv, NEW p \in Pools, NEW members \in MemberLists, NEW on \in BOOLEAN,
         NEW active \in ToSet(members) \cup {"none"}, NEW L, L \in {list, Append(list, p)},
         p \in ToSet(list) \/ L = Append(list, p),
         UpdateGlobalConfig(sub, PoolsWith(p, members, active, on), L)
  PROVE  PoolsInv'
  <1> DEFINE Q == PoolsWith(p, members, active, on)
  <1>0. Q = PoolsWith(p, members, active, on)
    OBVIOUS
  <1>2. UpdateGlobalConfig(sub, Q, L)
    OBVIOUS
  <1> HIDE DEF Q
  <1>1. /\ Q \in [Pools -> PoolRecords] /\ Chosen(Q)
        /\ \A q \in Pools : q = p \/ q \in ToSet(list) \/ Q[q] = NewPool
    <2>1. MaySave(PoolsWith(p, members, active, on), p)
      BY AssignKeeps
    <2> QED
      BY <1>0, <2>1 DEF MaySave
  <1>3. list \in Seq(Pools) /\ sub \in [Subs -> SubRecords] /\ Unused(sub)
    BY DEF PoolsInv, PoolsTyped
  <1>4. L \in Seq(Pools) /\ ToSet(L) = ToSet(list) \cup {p}
    <2>1. /\ Append(list, p) \in Seq(Pools)
          /\ ToSet(Append(list, p)) = ToSet(list) \cup {p}
      BY <1>3, AppendIs
    <2>2. CASE L = Append(list, p)
      BY <2>1, <2>2
    <2>3. CASE L # Append(list, p)
      <3>1. L = list /\ p \in ToSet(list)
        BY <2>3
      <3> QED
        BY <1>3, <3>1
    <2> QED
      BY <2>2, <2>3
  <1>5. Unlisted(Q, L)
    BY <1>1, <1>4 DEF Unlisted
  <1> QED
    BY <1>1, <1>2, <1>3, <1>4, <1>5, Saved

LEMMA DeletePools ==
  ASSUME PoolsInv, NEW p \in Pools, DeletePool(p)
  PROVE  PoolsInv'
  <1> DEFINE P == [pool EXCEPT ![p] = NewPool]
             L == Without(list, {p})
  <1>1. /\ pool \in [Pools -> PoolRecords] /\ list \in Seq(Pools)
        /\ sub \in [Subs -> SubRecords] /\ Unused(sub) /\ Chosen(pool) /\ Unlisted(pool, list)
    BY DEF PoolsInv, PoolsTyped
  <1>2. L \in Seq(Pools) /\ ToSet(L) = ToSet(list) \ {p}
    BY <1>1, WithoutIs
  <1>3. P \in [Pools -> PoolRecords] /\ P[p] = NewPool /\ \A q \in Pools : q # p => P[q] = pool[q]
    BY <1>1, NewPoolIs
  <1>4. UpdateGlobalConfig(sub, P, L)
    BY DEF DeletePool
  <1> HIDE DEF P, L
  <1>5. Chosen(P) /\ Unlisted(P, L)
    BY <1>1, <1>2, <1>3, NewPoolIs DEF Chosen, Unlisted
  <1> QED
    BY <1>1, <1>2, <1>3, <1>4, <1>5, Saved

LEMMA DeletedSub ==
  ASSUME PoolsInv, NEW s \in Subs, Delete(s)
  PROVE  PoolsInv'
  <1> DEFINE S == [sub EXCEPT ![s] = Absent]
             R == RemoveSubscription(s)
  <1>1. S \in [Subs -> SubRecords] /\ Unused(S) /\ list \in Seq(Pools)
    BY SubsAre DEF PoolsInv, PoolsTyped, Unused
  <1>2. R \in [Pools -> PoolRecords] /\ Chosen(R) /\ Unlisted(R, list)
    BY RemoveKeeps
  <1>3. UpdateGlobalConfig(S, R, list)
    BY DEF Delete
  <1> HIDE DEF S, R
  <1> QED
    BY <1>1, <1>2, <1>3, Saved

LEMMA FailedFetch ==
  ASSUME PoolsInv, NEW w \in Workers, FetchFails(w)
  PROVE  PoolsInv'
  <1> DEFINE s == job[w].of
             r == [sub[s] EXCEPT !.fails = IF @ < Threshold THEN @ + 1 ELSE @]
  <1>1. s \in Subs /\ sub[s].here /\ sub[s] \in SubRecords /\ sub \in [Subs -> SubRecords]
    BY DEF FetchFails, Here, PoolsInv, PoolsTyped
  <1>2. CASE Unsaved
    BY <1>2, Unchanged DEF Unsaved
  <1>3. CASE UpdateGlobalConfig([sub EXCEPT ![s].fails = IF @ < Threshold THEN @ + 1 ELSE @],
                                pool, list)
    <2>1. sub[s].fails \in 0 .. Threshold /\ Threshold \in Nat
      BY <1>1, SubscriptionsConstantsOK DEF SubRecords
    <2>2. (IF sub[s].fails < Threshold THEN sub[s].fails + 1 ELSE sub[s].fails) \in 0 .. Threshold
      BY <2>1
    <2>3. r \in SubRecords /\ r.here
      BY <1>1, <2>2 DEF SubRecords
    <2>4. UpdateGlobalConfig([sub EXCEPT ![s] = r], pool, list)
      BY <1>3
    <2> HIDE DEF r
    <2> QED
      BY <1>1, <2>3, <2>4, SubChanges
  <1> QED
    BY <1>2, <1>3 DEF FetchFails

LEMMA FailedOver ==
  ASSUME PoolsInv, NEW w \in Workers, Failover(w)
  PROVE  PoolsInv'
  <1> DEFINE s == job[w].of
             next(p) == Head(Candidates(p, s))
             P == [p \in Pools |->
                    IF p \in SwitchFrom(s) THEN [pool[p] EXCEPT !.active = next(p)] ELSE pool[p]]
  <1>1. CASE Unsaved
    BY <1>1, Unchanged DEF Unsaved
  <1>2. CASE UpdateGlobalConfig(sub, P, list)
    <2>1. /\ pool \in [Pools -> PoolRecords] /\ list \in Seq(Pools)
          /\ sub \in [Subs -> SubRecords] /\ Unused(sub) /\ Chosen(pool) /\ Unlisted(pool, list)
      BY DEF PoolsInv, PoolsTyped
    <2>2. ASSUME NEW p \in Pools, p \in SwitchFrom(s)
          PROVE  p \in ToSet(list) /\ next(p) \in Subs
      <3>1. p \in ToSet(list) /\ Candidates(p, s) # <<>>
        BY <2>2 DEF SwitchFrom, Enabled, Listed
      <3>2. Candidates(p, s) \in Seq(Subs)
        BY PoolIs, WithoutIs DEF Candidates
      <3> QED
        BY <3>1, <3>2
    <2> HIDE DEF next
    <2>3. ASSUME NEW p \in Pools
          PROVE  /\ P[p] \in PoolRecords /\ P[p].members = pool[p].members
                 /\ P[p].active = "none" => pool[p].active = "none"
                 /\ p \notin ToSet(list) => P[p] = pool[p]
      <3>1. pool[p] \in PoolRecords
        BY <2>1
      <3>2. CASE p \in SwitchFrom(s)
        <4>1. P[p] = [pool[p] EXCEPT !.active = next(p)]
          BY <3>2
        <4> QED
          BY <2>2, <3>1, <3>2, <4>1, NamesApart DEF PoolRecords
      <3>3. CASE p \notin SwitchFrom(s)
        BY <3>1, <3>3
      <3> QED
        BY <3>2, <3>3
    <2>4. P = [p \in Pools |-> P[p]]
      OBVIOUS
    <2> HIDE DEF P
    <2>5. P \in [Pools -> PoolRecords] /\ Chosen(P) /\ Unlisted(P, list)
      BY <2>1, <2>3, <2>4 DEF Chosen, Unlisted
    <2> QED
      BY <1>2, <2>1, <2>5, Saved
  <1> QED
    BY <1>1, <1>2 DEF Failover

LEMMA StepPools == PoolsInv /\ [SubscriptionsNext]_subscriptionsVars => PoolsInv'
  <1> SUFFICES ASSUME PoolsInv, [SubscriptionsNext]_subscriptionsVars PROVE PoolsInv'
    OBVIOUS
  <1>1. CASE UNCHANGED <<sub, pool, list>>
    BY <1>1, Unchanged
  <1>2. ASSUME NEW s \in Subs, Import(s) PROVE PoolsInv'
    <2>1. PICK p0 \in Pools \ Merging :
            \/ UpdateGlobalConfig([sub EXCEPT ![s] = Downloaded],
                 Joined(WithDefaultPool(p0).P, Head(WithDefaultPool(p0).L), s),
                 WithDefaultPool(p0).L)
            \/ Unsaved
      BY <1>2 DEF Import
    <2> QED
      BY <1>1, <2>1, ImportPools DEF Unsaved
  <1>3. ASSUME NEW s \in Subs, CreateManual(s) PROVE PoolsInv'
    BY <1>3, SubsAre, SubChanges DEF CreateManual
  <1>4. ASSUME NEW p \in Pools, CreatePool(p) \/ UpdatePool(p) PROVE PoolsInv'
    <2>1. PICK members \in MemberLists, on \in BOOLEAN :
            \E active \in IF members = <<>> THEN {"none"} ELSE ToSet(members) :
              \/ UpdateGlobalConfig(sub, PoolsWith(p, members, active, on), Append(list, p))
              \/ /\ p \in ToSet(list)
                 /\ UpdateGlobalConfig(sub, PoolsWith(p, members, active, on), list)
      BY <1>4 DEF CreatePool, UpdatePool, Listed
    <2>2. PICK active \in ToSet(members) \cup {"none"} :
              \/ UpdateGlobalConfig(sub, PoolsWith(p, members, active, on), Append(list, p))
              \/ /\ p \in ToSet(list)
                 /\ UpdateGlobalConfig(sub, PoolsWith(p, members, active, on), list)
      BY <2>1
    <2> QED
      BY <2>2, AssignPools
  <1>5. ASSUME NEW w \in Workers, Fetched(w) PROVE PoolsInv'
    BY <1>1, <1>5, SubsAre, SubChanges DEF Fetched, Here, Unsaved
  <1> QED
    BY <1>1, <1>2, <1>3, <1>4, <1>5, DeletePools, DeletedSub, FailedFetch, FailedOver
    DEF SubscriptionsNext, subscriptionsVars, ApplyOnly, Apply, ApplyFails, Refresh, RefreshPool,
        RefreshDue, LookUp, Vanished

\* Every saved configuration is one Validate accepts, with a chosen member wherever there
\* are members, and nothing is left of pools and subscriptions that are gone.
THEOREM SavedPoolsAreValid == SubscriptionsSpec => []PoolsInv
  BY InitPools, StepPools, PTL DEF SubscriptionsSpec

\* A deletion and a move are always valid: RemoveSubscription and assignPoolMembers repair
\* what they take members from.
THEOREM EditsAreLegalHolds == SubscriptionsSpec => []EditsAreLegal
  <1>1. PoolsInv => EditsAreLegal
    <2> SUFFICES ASSUME PoolsInv PROVE EditsAreLegal
      OBVIOUS
    <2>1. ASSUME NEW s \in Here
          PROVE  Valid([sub EXCEPT ![s] = Absent], RemoveSubscription(s), list)
      BY RemoveKeeps DEF Here
    <2>2. ASSUME NEW p \in Listed, NEW members \in MemberLists
          PROVE  Valid(sub, PoolsWith(p, members, "none", FALSE), list)
      <3>1. p \in Pools /\ p \in ToSet(list)
        BY DEF PoolsInv, PoolsTyped, Listed, ToSet
      <3> QED
        BY <3>1, AssignKeeps
    <2> QED
      BY <2>1, <2>2 DEF EditsAreLegal
  <1> QED
    BY <1>1, SavedPoolsAreValid, PTL

-----------------------------------------------------------------------------
(* The core has read what the pools select *)

\* Whether a pool's configuration lets it use subscription t.
Uses(r, p, t) ==
  /\ r.enabled
  /\ IF p \in Merging THEN t \in ToSet(r.members) ELSE t = r.active

\* The core has read what it should wherever that matters.
FollowsInv == loaded \in [Subs -> {"none", "old", "current", "unknown"}] /\ CoreFollowsPools

LEMMA SelectedIs ==
  ASSUME NEW t \in Subs
  PROVE  t \in Selected <=> sub[t].cached /\ \E p \in ToSet(list) : Uses(pool[p], p, t)
  <1>1. \A p : t \in SelectedOf(p) <=>
                 /\ sub[t].cached
                 /\ IF p \in Merging THEN t \in ToSet(pool[p].members) ELSE t = pool[p].active
    BY DEF SelectedOf
  <1>2. t \in Selected <=> \E p \in Enabled : t \in SelectedOf(p)
    BY DEF Selected
  <1>3. \A p : p \in Enabled <=> p \in ToSet(list) /\ pool[p].enabled
    BY DEF Enabled, Listed
  <1> QED
    BY <1>1, <1>2, <1>3 DEF Uses

LEMMA SelectedNext ==
  ASSUME NEW t \in Subs
  PROVE  t \in Selected' <=> sub'[t].cached /\ \E p \in ToSet(list') : Uses(pool'[p], p, t)
  <1>1. \A p : t \in SelectedOf(p)' <=>
                 /\ sub'[t].cached
                 /\ IF p \in Merging THEN t \in ToSet(pool'[p].members) ELSE t = pool'[p].active
    BY DEF SelectedOf
  <1>2. t \in Selected' <=> \E p \in Enabled' : t \in SelectedOf(p)'
    BY DEF Selected
  <1>3. \A p : p \in Enabled' <=> p \in ToSet(list') /\ pool'[p].enabled
    BY DEF Enabled, Listed
  <1> QED
    BY <1>1, <1>2, <1>3 DEF Uses

\* Nothing is selected that was not, and what the core has read is the same.
LEMMA SameSelected ==
  ASSUME FollowsInv, loaded' = loaded,
         \A t \in Subs : t \in Selected' <=> t \in Selected
  PROVE  FollowsInv'
  BY DEF FollowsInv, CoreFollowsPools, Unknown

LEMMA NotFollowed ==
  ASSUME loaded' = Unknown
  PROVE  FollowsInv'
  BY DEF FollowsInv, CoreFollowsPools, Unknown

\* The cache of a subscription that nothing selects is written.
LEMMA CacheWritten ==
  ASSUME FollowsInv, NEW s \in Subs, WriteCache(s), s \notin Selected,
         \A t \in Subs : t \in Selected' <=> t \in Selected
  PROVE  FollowsInv'
  <1>1. /\ loaded \in [Subs -> {"none", "old", "current", "unknown"}]
        /\ loaded' = [loaded EXCEPT ![s] = IF @ = "current" THEN "old" ELSE @]
    BY DEF FollowsInv, WriteCache
  <1>2. CASE loaded[s] = "current"
    <2>1. loaded = Unknown
      BY <1>2 DEF FollowsInv, CoreFollowsPools
    <2> QED
      BY <1>2, <2>1 DEF Unknown
  <1>3. CASE loaded[s] # "current"
    <2>1. loaded' = loaded
      BY <1>1, <1>3
    <2> QED
      BY <2>1, SameSelected
  <1> QED
    BY <1>2, <1>3

\* Only one pool can use a subscription.
LEMMA UsersAre ==
  ASSUME NEW S, NEW P, NEW L, Valid(S, P, L), NEW s \in Subs,
         NEW p \in ToSet(L), s \in ToSet(P[p].members), NEW q \in ToSet(L), Uses(P[q], q, s)
  PROVE  q = p
  <1>1. P[q].active \in ToSet(P[q].members) \cup {"none"}
    BY ValidIs DEF PoolValid
  <1>2. s \in ToSet(P[q].members)
    BY <1>1, NamesApart DEF Uses
  <1>3. q # p => Apart(P[p], P[q])
    BY ValidIs
  <1> QED
    BY <1>2, <1>3 DEF Apart

\* An import that is not applied adds nothing to what is selected.
LEMMA ImportFollows ==
  ASSUME PoolsInv, FollowsInv, NEW s \in Subs, NEW p0 \in Pools \ Merging,
         NEW d, d = WithDefaultPool(p0), NEW p, p = Head(d.L), NEW P, P = Joined(d.P, p, s),
         UpdateGlobalConfig([sub EXCEPT ![s] = Downloaded], P, d.L),
         ~AppliesImport(P, p, s), p \notin Merging, WriteCache(s)
  PROVE  FollowsInv'
  <1>1. /\ p \in Pools /\ p \in ToSet(d.L) /\ d.P \in [Pools -> PoolRecords]
        /\ \A q \in Pools : q # p => d.P[q] = pool[q]
    BY DefaultPoolIs
  <1>2. /\ s \in ToSet(P[p].members) /\ P[p].enabled = d.P[p].enabled
        /\ P[p].active = IF d.P[p].active = "none" THEN s ELSE d.P[p].active
        /\ \A q \in Pools : q # p => P[q] = d.P[q]
    BY <1>1, JoinedIs
  <1>3. /\ Valid([sub EXCEPT ![s] = Downloaded], P, d.L)
        /\ sub' = [sub EXCEPT ![s] = Downloaded] /\ pool' = P /\ list' = d.L
    BY DEF UpdateGlobalConfig
  <1>4. ~(P[p].active = s /\ P[p].enabled)
    BY DEF AppliesImport
  <1>5. d.L = list /\ d.P = pool
    <2>1. CASE list = <<>>
      <3>1. d.L = <<p0>> /\ d.P = [pool EXCEPT ![p0].enabled = TRUE]
        BY <2>1 DEF WithDefaultPool
      <3>2. p = p0 /\ pool \in [Pools -> PoolRecords] /\ p0 \notin ToSet(list)
        BY <2>1, <3>1 DEF PoolsInv, PoolsTyped, ToSet
      <3>3. pool[p0] \in PoolRecords /\ pool[p0].active = "none"
        BY <3>2, NewPoolIs DEF PoolsInv, Unlisted
      <3>4. d.P[p].enabled /\ d.P[p].active = "none"
        BY <3>1, <3>2, <3>3 DEF PoolRecords
      <3> QED
        BY <1>2, <1>4, <3>4
    <2>2. CASE list # <<>>
      BY <2>2 DEF WithDefaultPool
    <2> QED
      BY <2>1, <2>2
  <1>6. ToSet(list) \subseteq Pools
    BY DEF PoolsInv, PoolsTyped, ToSet
  <1>7. \A q \in ToSet(list) : ~Uses(P[q], q, s)
    <2> SUFFICES ASSUME NEW q \in ToSet(list), Uses(P[q], q, s) PROVE FALSE
      OBVIOUS
    <2>1. q = p
      <3>1. Valid([sub EXCEPT ![s] = Downloaded], P, list) /\ p \in ToSet(list)
        BY <1>1, <1>3, <1>5
      <3> QED
        BY <1>2, <3>1, UsersAre
    <2> QED
      BY <1>4, <2>1 DEF Uses
  <1>8. \A q \in ToSet(list), t \in Subs : t # s => (Uses(P[q], q, t) <=> Uses(pool[q], q, t))
    <2> SUFFICES ASSUME NEW q \in ToSet(list), NEW t \in Subs, t # s
                 PROVE  Uses(P[q], q, t) <=> Uses(pool[q], q, t)
      OBVIOUS
    <2>1. CASE q # p
      BY <1>1, <1>2, <1>6, <2>1
    <2>2. CASE q = p
      <3>1. pool[p].active = "none" => ~P[p].enabled
        BY <1>2, <1>4, <1>5
      <3>2. pool[p].active # "none" => P[p].active = pool[p].active
        BY <1>2, <1>5
      <3> QED
        BY <1>2, <1>5, <2>2, <3>1, <3>2 DEF Uses
    <2> QED
      BY <2>1, <2>2
  <1>9. \A q \in ToSet(list) : ~Uses(pool[q], q, s)
    <2> SUFFICES ASSUME NEW q \in ToSet(list), Uses(pool[q], q, s) PROVE FALSE
      OBVIOUS
    <2>1. CASE q # p
      BY <1>1, <1>2, <1>6, <1>7, <2>1
    <2>2. CASE q = p
      BY <1>2, <1>4, <1>5, <2>2, NamesApart DEF Uses
    <2> QED
      BY <2>1, <2>2
  <1>10. \A t \in Subs : t # s => sub'[t] = sub[t]
    BY <1>3 DEF PoolsInv, PoolsTyped
  <1>11. \A t \in Subs : t \in Selected' <=> t \in Selected
    BY <1>3, <1>5, <1>7, <1>8, <1>9, <1>10, SelectedIs, SelectedNext
  <1>12. s \notin Selected
    BY <1>9, SelectedIs
  <1> QED
    BY <1>11, <1>12, CacheWritten

\* Where pools stay, and each subscription has a cache that had one, the same are selected.
LEMMA SamePools ==
  ASSUME pool' = pool, list' = list, \A t \in Subs : sub'[t].cached <=> sub[t].cached
  PROVE  \A t \in Subs : t \in Selected' <=> t \in Selected
  BY SelectedIs, SelectedNext

LEMMA FetchedFollows ==
  ASSUME PoolsInv, FollowsInv, NEW w \in Workers, Fetched(w)
  PROVE  FollowsInv'
  <1> DEFINE s == job[w].of
  <1>1. CASE loaded' = Unknown
    BY <1>1, NotFollowed
  <1>2. CASE loaded' # Unknown
    <2>1. /\ s \in Subs /\ sub' = [sub EXCEPT ![s] = Downloaded] /\ pool' = pool /\ list' = list
          /\ ~ActiveSomewhere(s) /\ WriteCache(s)
          /\ ~ \E p \in Enabled \cap Merging : s \in ToSet(pool[p].members)
      BY <1>2 DEF Fetched, UpdateGlobalConfig, Asks, Here
    <2>2. \A p \in ToSet(list) : ~Uses(pool[p], p, s)
      BY <2>1 DEF ActiveSomewhere, Enabled, Listed, Uses
    <2>3. \A t \in Subs : t # s => sub'[t] = sub[t]
      BY <2>1 DEF PoolsInv, PoolsTyped
    <2>4. \A t \in Subs : t \in Selected' <=> t \in Selected
      BY <2>1, <2>2, <2>3, SelectedIs, SelectedNext
    <2>5. s \notin Selected
      BY <2>1, <2>2, SelectedIs
    <2> QED
      BY <2>1, <2>4, <2>5, CacheWritten
  <1> QED
    BY <1>1, <1>2

LEMMA StepFollows ==
  PoolsInv /\ FollowsInv /\ [SubscriptionsNext]_subscriptionsVars => FollowsInv'
  <1> SUFFICES ASSUME PoolsInv, FollowsInv, [SubscriptionsNext]_subscriptionsVars
               PROVE  FollowsInv'
    OBVIOUS
  <1>1. CASE loaded' = Unknown
    BY <1>1, NotFollowed
  <1>2. CASE UNCHANGED <<sub, pool, list, loaded>>
    BY <1>2, SamePools, SameSelected
  <1>3. ASSUME NEW s \in Subs, Import(s) PROVE FollowsInv'
    <2>1. PICK p0 \in Pools \ Merging :
            LET d == WithDefaultPool(p0)
                p == Head(d.L)
                P == Joined(d.P, p, s)
            IN  \/ /\ UpdateGlobalConfig([sub EXCEPT ![s] = Downloaded], P, d.L)
                   /\ ~AppliesImport(P, p, s) /\ p \notin Merging /\ WriteCache(s)
                \/ loaded' = Unknown
      BY <1>3 DEF Import, Asks
    <2> QED
      BY <1>1, <2>1, ImportFollows
  <1>4. ASSUME NEW s \in Subs, CreateManual(s) PROVE FollowsInv'
    <2>1. /\ sub' = [sub EXCEPT ![s] = Created] /\ pool' = pool /\ list' = list
          /\ loaded' = loaded /\ ~sub[s].here
      BY <1>4 DEF CreateManual, UpdateGlobalConfig, Here
    <2>2. sub[s] = Absent /\ sub \in [Subs -> SubRecords]
      BY <2>1 DEF PoolsInv, PoolsTyped, Unused
    <2>3. \A t \in Subs : sub'[t].cached <=> sub[t].cached
      BY <2>1, <2>2, SubsAre
    <2> QED
      BY <2>1, <2>3, SamePools, SameSelected
  <1>5. ASSUME NEW w \in Workers, FetchFails(w) PROVE FollowsInv'
    <2> DEFINE s == job[w].of
    <2>1. CASE Unsaved
      BY <1>2, <1>5, <2>1 DEF Unsaved, FetchFails
    <2>2. CASE ~Unsaved
      <3>1. /\ s \in Subs /\ pool' = pool /\ list' = list /\ loaded' = loaded
            /\ sub' = [sub EXCEPT ![s].fails = IF @ < Threshold THEN @ + 1 ELSE @]
        BY <1>5, <2>2 DEF FetchFails, UpdateGlobalConfig, Here
      <3>2. sub \in [Subs -> SubRecords]
        BY DEF PoolsInv, PoolsTyped
      <3>3. \A t \in Subs : sub'[t].cached <=> sub[t].cached
        BY <3>1, <3>2 DEF SubRecords
      <3> QED
        BY <3>1, <3>3, SamePools, SameSelected
    <2> QED
      BY <2>1, <2>2
  <1>6. ASSUME NEW w \in Workers, Failover(w) PROVE FollowsInv'
    <2> DEFINE s == job[w].of
    <2>1. CASE Unsaved \/ loaded' = Unknown
      BY <1>1, <1>2, <1>6, <2>1 DEF Unsaved, Failover, Switched, Asks
    <2>2. CASE ~Unsaved /\ loaded' # Unknown
      <3>1. /\ SwitchFrom(s) = {} /\ loaded' = loaded /\ sub' = sub /\ list' = list
            /\ pool' = [p \in Pools |->
                 IF p \in SwitchFrom(s) THEN [pool[p] EXCEPT !.active = Head(Candidates(p, s))]
                 ELSE pool[p]]
        BY <1>6, <2>2 DEF Failover, UpdateGlobalConfig, Switched, Asks
      <3>2. pool \in [Pools -> PoolRecords]
        BY DEF PoolsInv, PoolsTyped
      <3>3. pool' = pool
        BY <3>1, <3>2
      <3> QED
        BY <1>2, <3>1, <3>3
    <2> QED
      BY <2>1, <2>2
  <1>7. ASSUME Apply PROVE FollowsInv'
    <2>1. /\ loaded' = [s \in Subs |-> IF s \in Selected THEN "current" ELSE "none"]
          /\ sub' = sub /\ pool' = pool /\ list' = list
      BY <1>7 DEF Apply
    <2>2. \A t \in Subs : t \in Selected' <=> t \in Selected
      BY <2>1, SamePools
    <2> QED
      BY <2>1, <2>2 DEF FollowsInv, CoreFollowsPools
  <1> QED
    BY <1>1, <1>2, <1>3, <1>4, <1>5, <1>6, <1>7, FetchedFollows
    DEF SubscriptionsNext, subscriptionsVars, CreatePool, UpdatePool, DeletePool, Delete, Asks,
        ApplyOnly, ApplyFails, Refresh, RefreshPool, RefreshDue, LookUp, Vanished

\* However refreshes, switches, imports, moves and deletions overlap, and whatever fails
\* to be saved: unless an application is due or the program does not apply the change, the
\* core has read the current cache of exactly the subscriptions that the pools select.
THEOREM CoreFollowsPoolsHolds == SubscriptionsSpec => []CoreFollowsPools
  <1>1. SubscriptionsInit => FollowsInv
    <2> SUFFICES ASSUME SubscriptionsInit PROVE FollowsInv
      OBVIOUS
    <2>1. ToSet(list) = {} /\ loaded = [s \in Subs |-> "none"]
      BY DEF SubscriptionsInit, ToSet
    <2>2. \A s \in Subs : s \notin Selected
      BY <2>1, SelectedIs
    <2> QED
      BY <2>1, <2>2 DEF FollowsInv, CoreFollowsPools
  <1>2. FollowsInv => CoreFollowsPools
    BY DEF FollowsInv
  <1> QED
    BY <1>1, <1>2, InitPools, StepPools, StepFollows, PTL DEF SubscriptionsSpec

=============================================================================
