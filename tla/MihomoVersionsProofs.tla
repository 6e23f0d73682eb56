------------------------- MODULE MihomoVersionsProofs -------------------------
(***************************************************************************)
(* The versions on disk, the active one and the shown task agree, for any  *)
(* number of versions, handlers and download goroutines.                   *)
(***************************************************************************)
EXTENDS MihomoVersions, TLAPS

Working ==
  {"activate", "stop", "start", "rollback", "stop_again", "start_again",
   "ok", "refused", "undone", "kept", "remove", "record",
   "download", "fetch", "verify", "upgrade", "done", "failed"}

Activity ==
  {"activate", "stop", "start", "rollback", "stop_again", "start_again",
   "ok", "refused", "undone", "kept"}

Locked == {"remove", "record", "fetch", "verify"}

Paths == Versions \cup {"none", "legacy"}

\* What an activation may find and an actor may remember.
Found == [running : BOOLEAN, active : Versions \cup {"none"}, path : Paths]

ActorsOK ==
  /\ pc \in [Actors -> Working \cup {"starting", "migrated", "idle"}]
  /\ ver \in [Actors -> Versions \cup {"none"}]
  /\ was \in [Actors -> Found]

TypeOK ==
  /\ bin \in [Versions -> Versions \cup {"none"}]
  /\ unpacked \in Versions \cup {"none", "broken"}
  /\ manual \in Versions \cup {"none"} /\ legacy \in Versions \cup {"none"}
  /\ listed \in SUBSET Versions
  /\ active \in Versions \cup {"none"} /\ path \in Paths
  /\ core \in Versions \cup {"stopped", "other"}
  /\ lock \in Actors \cup {"none"}
  /\ task \in [busy : BOOLEAN, version : Versions \cup {"none"}]
  /\ ActorsOK
  /\ quiet \in BOOLEAN /\ raced \in BOOLEAN

\* Before the daemon serves, all its goroutines are still to come, and a former
\* installation is copied before it is recorded.
StartsFirst ==
  /\ \A a, b \in Actors : pc[a] \in {"starting", "migrated"} => pc[b] = pc[a]
  /\ \A a \in Actors : pc[a] = "migrated" =>
       active = "none" /\ (legacy = "none" \/ bin[legacy] = legacy)

\* Between the locked halves of an operation its actor holds the mutex, and has
\* a version to work on.
WorkIsLocked ==
  \A a \in Actors :
    /\ pc[a] \in Locked <=> lock = a
    /\ pc[a] \in Working => ver[a] \in Versions

\* Version and path are committed together, and restored together.
PathIsActive ==
  /\ active # "none" => path = active
  /\ \A a \in Actors : was[a].active # "none" => was[a].path = was[a].active

\* What is going to be removed, or may be, is not the active version.
RemovedIsInactive ==
  \A a \in Actors : pc[a] \in {"remove", "record"} /\ ~raced => active # ver[a]

\* How far an activation has come that nobody interferes with.
Undisturbed(a) ==
  /\ pc[a] \in Activity
  /\ \A b \in Actors \ {a} : Idle(b)
  /\ pc[a] \in {"activate", "refused", "stop_again", "start_again", "undone"} =>
       active = was[a].active /\ path = was[a].path
  /\ pc[a] = "activate" => (was[a].running <=> core # "stopped")
  /\ pc[a] \in {"stop", "start", "ok", "rollback", "kept"} => active = ver[a]
  /\ pc[a] \in {"stop", "start"} => was[a].running /\ path = ver[a] /\ bin[ver[a]] = ver[a]
  /\ pc[a] = "ok" => core = IF was[a].running THEN ver[a] ELSE "stopped"

QuietIsUndisturbed == quiet => \E a \in Actors : Undisturbed(a)

Installed ==
  /\ VersionsAreWhatTheySay /\ StartsFirst /\ WorkIsLocked
  /\ PathIsActive /\ RemovedIsInactive /\ ActiveIsInstalled

IInv == TypeOK /\ Installed /\ TaskShownIsAlive /\ QuietIsUndisturbed

-----------------------------------------------------------------------------
(* Types *)

LEMMA InitType == Init => TypeOK
  <1>1. Nobody \in Found /\ NoTask \in [busy : BOOLEAN, version : Versions \cup {"none"}]
    BY DEF Nobody, NoTask, Found, Paths
  <1>2. Init => ActorsOK
    BY <1>1 DEF Init, ActorsOK
  <1> QED
    BY <1>1, <1>2 DEF Init, TypeOK, Paths

\* The actor's step, version and memory are of their types after each kind of move.
LEMMA MoveTypes ==
  ASSUME ActorsOK, NEW a \in Actors, NEW step \in Working \cup {"idle"}
  PROVE  /\ Goes(a, step) => ActorsOK'
         /\ Ends(a) => ActorsOK'
         /\ \A v \in Versions, found \in Found : Begins(a, step, v, found) => ActorsOK' /\ quiet' \in BOOLEAN
  <1>1. Nobody \in Found
    BY DEF Nobody, Found, Paths
  <1>2. Goes(a, step) => ActorsOK'
    BY DEF Goes, ActorsOK
  <1>3. Ends(a) => ActorsOK'
    BY <1>1 DEF Ends, ActorsOK
  <1>4. ASSUME NEW v \in Versions, NEW found \in Found, Begins(a, step, v, found)
        PROVE  ActorsOK' /\ quiet' \in BOOLEAN
    BY <1>4 DEF Begins, ActorsOK
  <1> QED
    BY <1>2, <1>3, <1>4

LEMMA StepType == TypeOK /\ WorkIsLocked /\ [Next]_vars => TypeOK'
  <1> SUFFICES ASSUME TypeOK, WorkIsLocked, [Next]_vars PROVE TypeOK'
    OBVIOUS
  <1> ActorsOK
    BY DEF TypeOK
  <1>1. CASE Migrate \/ Migrated \/ Serves \/ Crash
    <2>1. ActorsOK'
      <3>1. CASE Migrate \/ Migrated \/ Serves
        BY <3>1 DEF Migrate, Migrated, Serves, Everyone, ActorsOK
      <3>2. CASE Crash
        BY <3>2 DEF Crash, ActorsOK, Nobody, Found, Paths
      <3> QED
        BY <1>1, <3>1, <3>2
    <2>2. CASE Migrate
      BY <2>1, <2>2 DEF Migrate, config, history, TypeOK
    <2>3. CASE Migrated
      BY <2>1, <2>3 DEF Migrated, files, history, TypeOK, Paths
    <2>4. CASE Serves
      BY <2>1, <2>4 DEF Serves, files, config, history, TypeOK
    <2>5. CASE Crash
      BY <2>1, <2>5 DEF Crash, config, NoTask, TypeOK
    <2> QED
      BY <1>1, <2>2, <2>3, <2>4, <2>5
  <1>2. CASE UserPlacesBinary \/ RefreshMihomoVersionCatalog \/ UNCHANGED vars
    BY <1>2 DEF UserPlacesBinary, RefreshMihomoVersionCatalog, files, config, actors, history, vars, TypeOK, ActorsOK
  <1>3. CASE ProgressAsked
    BY <1>3 DEF ProgressAsked, files, config, actors, history, TypeOK, ActorsOK
  <1>4. CASE CoreChanges
    <2>1. Binary \in Versions \cup {"other"}
      BY DEF TypeOK, Binary
    <2> QED
      BY <1>4, <2>1 DEF CoreChanges, files, config, actors, TypeOK, ActorsOK
  <1>5. ASSUME NEW a \in Actors, ActorNext(a) PROVE TypeOK'
    <2>1. CASE Activate(a)
      <3>1. [running |-> core # "stopped", active |-> active, path |-> path]
              \in Found
        BY DEF TypeOK, Found
      <3>2. ActorsOK' /\ quiet' \in BOOLEAN
        BY <2>1, <3>1, MoveTypes DEF Activate, Working
      <3> QED
        BY <2>1, <3>2 DEF Activate, files, config, TypeOK
    <2>2. CASE ActivateMihomoVersion(a) \/ Upgrade(a)
      <3>1. PICK done \in Working, failed \in Working : Activated(a, done, failed) /\ ver[a] \in Versions
        BY <2>2 DEF ActivateMihomoVersion, Upgrade, Working, WorkIsLocked
      <3>2. ActorsOK'
        BY <3>1, MoveTypes DEF Activated
      <3> QED
        BY <3>1, <3>2 DEF Activated, files, TypeOK, Paths
    <2>3. CASE RestartStops(a) \/ RestartStarts(a)
      <3>1. Binary \in Versions \cup {"other"}
        BY DEF TypeOK, Binary
      <3>2. ActorsOK'
        BY <2>3, MoveTypes DEF RestartStops, RestartStarts, Working
      <3> QED
        BY <2>3, <3>1, <3>2 DEF RestartStops, RestartStarts, files, config, history, TypeOK
    <2>4. CASE RollBack(a)
      <3>1. ActorsOK'
        BY <2>4, MoveTypes DEF RollBack, Working
      <3>2. was[a].active \in Versions \cup {"none"} /\ was[a].path \in Paths /\ Deleted(was[a].active) \in BOOLEAN
        BY DEF ActorsOK, Found, Deleted
      <3>3. active' \in Versions \cup {"none"} /\ path' \in Paths /\ raced' \in BOOLEAN
        BY <2>4, <3>2 DEF RollBack, TypeOK
      <3> QED
        BY <2>4, <3>1, <3>3 DEF RollBack, files, TypeOK
    <2>5. CASE Answers(a) \/ Finishes(a)
      <3>1. ActorsOK'
        BY <2>5, MoveTypes DEF Answers, Finishes
      <3>2. CASE Answers(a)
        BY <3>1, <3>2 DEF Answers, files, config, TypeOK
      <3>3. CASE Finishes(a)
        BY <3>1, <3>3 DEF Finishes, files, config, history, TypeOK
      <3> QED
        BY <2>5, <3>2, <3>3
    <2>6. CASE Delete(a) \/ Import(a)
      <3>1. Nobody \in Found
        BY DEF Nobody, Found, Paths
      <3>2. ActorsOK' /\ quiet' \in BOOLEAN
        BY <2>6, <3>1, MoveTypes DEF Delete, Import, Working, TypeOK
      <3> QED
        BY <2>6, <3>2 DEF Delete, Import, files, config, TypeOK
    <2>7. CASE DeleteMihomoVersion(a) \/ ImportMihomoVersion(a)
      <3>1. ActorsOK'
        BY <2>7, MoveTypes DEF DeleteMihomoVersion, ImportMihomoVersion
      <3> QED
        BY <2>7, <3>1 DEF DeleteMihomoVersion, ImportMihomoVersion, config, history, TypeOK
    <2>8. CASE StartDownload(a)
      <3>1. \A b \in BOOLEAN : [Nobody EXCEPT !.running = b] \in Found
        BY DEF Nobody, Found, Paths
      <3>2. ActorsOK' /\ quiet' \in BOOLEAN
        BY <2>8, <3>1, MoveTypes DEF StartDownload, Working
      <3> QED
        BY <2>8, <3>2 DEF StartDownload, files, config, TypeOK
    <2>9. CASE DownloadBegins(a) \/ DownloadFails(a) \/ Unpacked(a) \/ Downloaded(a)
      <3>1. ActorsOK'
        BY <2>9, MoveTypes DEF DownloadBegins, DownloadFails, Unpacked, Downloaded, Working
      <3>2. \A busy \in BOOLEAN : Reports(a, busy) => task' \in [busy : BOOLEAN, version : Versions \cup {"none"}]
        BY DEF Reports, TypeOK, ActorsOK
      <3>3. task' \in [busy : BOOLEAN, version : Versions \cup {"none"}]
        BY <2>9, <3>2 DEF DownloadBegins, DownloadFails, Unpacked, Downloaded, TypeOK
      <3>4. ver[a] \in Versions
        BY <2>9 DEF DownloadBegins, DownloadFails, Unpacked, Downloaded, WorkIsLocked, Working
      <3> QED
        BY <2>9, <3>1, <3>3, <3>4
           DEF DownloadBegins, DownloadFails, Unpacked, Downloaded, Verified, files, config, history, TypeOK
    <2> QED
      BY <1>5, <2>1, <2>2, <2>3, <2>4, <2>5, <2>6, <2>7, <2>8, <2>9 DEF ActorNext
  <1> QED
    BY <1>1, <1>2, <1>3, <1>4, <1>5 DEF Next

-----------------------------------------------------------------------------
(* One actor's steps *)

\* An actor that moves is one that serves, and leaves the others where they are.
LEMMA ActorMoves ==
  ASSUME ActorsOK, NEW a \in Actors, ActorNext(a)
  PROVE  /\ pc[a] \notin {"starting", "migrated"} /\ pc'[a] \notin {"starting", "migrated"}
         /\ \A b \in Actors : b # a => pc'[b] = pc[b] /\ ver'[b] = ver[b] /\ was'[b] = was[b]
  <1> USE DEF ActorsOK, Goes, Begins, Ends, Idle
  <1>1. CASE Activate(a) \/ Delete(a) \/ Import(a) \/ StartDownload(a)
    BY <1>1 DEF Activate, Delete, Import, StartDownload
  <1>2. CASE Answers(a) \/ Finishes(a) \/ DeleteMihomoVersion(a) \/ ImportMihomoVersion(a)
    BY <1>2 DEF Answers, Finishes, DeleteMihomoVersion, ImportMihomoVersion
  <1>3. CASE ActivateMihomoVersion(a) \/ Upgrade(a)
    BY <1>3 DEF ActivateMihomoVersion, Upgrade, Activated
  <1>4. CASE RestartStops(a) \/ RestartStarts(a) \/ RollBack(a)
    BY <1>4 DEF RestartStops, RestartStarts, RollBack
  <1>5. CASE DownloadBegins(a) \/ DownloadFails(a) \/ Unpacked(a) \/ Downloaded(a)
    BY <1>5 DEF DownloadBegins, DownloadFails, Unpacked, Downloaded
  <1> QED
    BY <1>1, <1>2, <1>3, <1>4, <1>5, ActorNext(a) DEF ActorNext

\* Steps that move no actor.
Surroundings ==
  \/ UserPlacesBinary \/ RefreshMihomoVersionCatalog \/ ProgressAsked \/ CoreChanges
  \/ UNCHANGED vars

LEMMA SurroundingsKeep ==
  Surroundings => UNCHANGED <<bin, legacy, active, path, lock, pc, ver, was, raced>>
  BY DEF Surroundings, UserPlacesBinary, RefreshMihomoVersionCatalog, ProgressAsked, CoreChanges,
         files, config, actors, history, vars

\* A restart of the daemon, or the step in which it begins to serve.
Beginnings == Migrate \/ Migrated \/ Serves \/ Crash

LEMMA BeginningsKeep ==
  Beginnings => /\ \/ \A a \in Actors : pc'[a] = "starting"
                   \/ \A a \in Actors : pc'[a] = "migrated"
                   \/ \A a \in Actors : pc'[a] = "idle"
                /\ raced' = raced
  BY DEF Beginnings, Migrate, Migrated, Serves, Crash, Everyone, history

LEMMA StepStarts ==
  TypeOK /\ StartsFirst /\ VersionsAreWhatTheySay /\ [Next]_vars => StartsFirst'
  <1> SUFFICES ASSUME TypeOK, StartsFirst, VersionsAreWhatTheySay, [Next]_vars PROVE StartsFirst'
    OBVIOUS
  <1> USE DEF StartsFirst
  <1>1. ASSUME NEW a \in Actors, ActorNext(a) PROVE StartsFirst'
    <2>1. \A b \in Actors : pc[b] \notin {"starting", "migrated"}
      BY <1>1, ActorMoves DEF TypeOK
    <2> QED
      BY <1>1, <2>1, ActorMoves DEF TypeOK
  <1>2. CASE Surroundings
    BY <1>2, SurroundingsKeep
  <1>3. CASE Migrate
    BY <1>3 DEF Migrate, Migrates, Everyone, config, TypeOK, VersionsAreWhatTheySay
  <1>4. CASE Migrated \/ Serves \/ Crash
    BY <1>4 DEF Migrated, Serves, Crash, Everyone
  <1> QED
    BY <1>1, <1>2, <1>3, <1>4 DEF Next, Surroundings

LEMMA StepLock == TypeOK /\ StartsFirst /\ WorkIsLocked /\ [Next]_vars => WorkIsLocked'
  <1> SUFFICES ASSUME TypeOK, StartsFirst, WorkIsLocked, [Next]_vars PROVE WorkIsLocked'
    OBVIOUS
  <1> USE VersionsConstantsOK DEF WorkIsLocked, Locked, Working
  <1>1. ASSUME NEW a \in Actors, ActorNext(a) PROVE WorkIsLocked'
    <2> USE DEF TypeOK, ActorsOK, Goes, Begins, Ends, Idle, Free
    <2>1. CASE Activate(a) \/ Answers(a) \/ Finishes(a)
      BY <2>1 DEF Activate, Answers, Finishes
    <2>2. CASE Delete(a) \/ Import(a)
      BY <2>2 DEF Delete, Import
    <2>3. CASE DeleteMihomoVersion(a) \/ ImportMihomoVersion(a)
      BY <2>3 DEF DeleteMihomoVersion, ImportMihomoVersion
    <2>4. CASE ActivateMihomoVersion(a) \/ Upgrade(a)
      BY <2>4 DEF ActivateMihomoVersion, Upgrade, Activated
    <2>5. CASE RestartStops(a) \/ RestartStarts(a) \/ RollBack(a)
      BY <2>5 DEF RestartStops, RestartStarts, RollBack
    <2>6. CASE StartDownload(a)
      BY <2>6 DEF StartDownload
    <2>7. CASE DownloadBegins(a)
      <3>1. pc[a] = "download" /\ lock = "none" /\ ver' = ver
        BY <2>7 DEF DownloadBegins
      <3>2. \/ pc' = [pc EXCEPT ![a] = "fetch"] /\ lock' = a
            \/ /\ lock' = lock
               /\ \E step \in {"failed", "upgrade", "done"} : pc' = [pc EXCEPT ![a] = step]
        BY <2>7 DEF DownloadBegins
      <3> QED
        BY <3>1, <3>2
    <2>8. CASE DownloadFails(a) \/ Unpacked(a) \/ Downloaded(a)
      <3>1. pc[a] \in {"fetch", "verify"} /\ ver' = ver
        BY <2>8 DEF DownloadFails, Unpacked, Downloaded
      <3>2. \/ pc' = [pc EXCEPT ![a] = "verify"] /\ lock' = lock
            \/ /\ lock' = "none"
               /\ \E step \in {"failed", "upgrade", "done"} : pc' = [pc EXCEPT ![a] = step]
        BY <2>8 DEF DownloadFails, Unpacked, Downloaded
      <3> QED
        BY <3>1, <3>2
    <2> QED
      BY <1>1, <2>1, <2>2, <2>3, <2>4, <2>5, <2>6, <2>7, <2>8 DEF ActorNext
  <1>2. CASE Surroundings
    BY <1>2, SurroundingsKeep
  <1>3. CASE Beginnings
    <2>1. CASE Crash
      BY <2>1 DEF Crash
    <2>2. CASE Migrate \/ Migrated \/ Serves
      <3>1. lock' = lock /\ \A a \in Actors : pc[a] \in {"starting", "migrated"}
        BY <2>2 DEF Migrate, Migrates, Migrated, Serves
      <3> QED
        BY <1>3, <3>1, BeginningsKeep
    <2> QED
      BY <1>3, <2>1, <2>2 DEF Beginnings
  <1> QED
    BY <1>1, <1>2, <1>3 DEF Next, Surroundings, Beginnings

LEMMA StepBinaries ==
  TypeOK /\ VersionsAreWhatTheySay /\ [Next]_vars => VersionsAreWhatTheySay'
  <1> SUFFICES ASSUME TypeOK, VersionsAreWhatTheySay, [Next]_vars PROVE VersionsAreWhatTheySay'
    OBVIOUS
  <1> USE DEF VersionsAreWhatTheySay
  <1>1. CASE \E a \in Actors : DeleteMihomoVersion(a) \/ Import(a) \/ ImportMihomoVersion(a)
    BY <1>1 DEF DeleteMihomoVersion, Import, ImportMihomoVersion, TypeOK
  <1>2. CASE \E a \in Actors : Downloaded(a)
    BY <1>2 DEF Downloaded, Verified, TypeOK
  <1>3. CASE Migrate
    BY <1>3 DEF Migrate, TypeOK
  <1>4. CASE Surroundings \/ Migrated \/ Serves \/ Crash
    BY <1>4, SurroundingsKeep DEF Migrated, Serves, Crash, files
  <1>5. CASE \E a \in Actors :
               \/ Activate(a) \/ ActivateMihomoVersion(a) \/ RestartStops(a) \/ RestartStarts(a)
               \/ RollBack(a) \/ Answers(a) \/ Delete(a) \/ StartDownload(a) \/ DownloadBegins(a)
               \/ DownloadFails(a) \/ Unpacked(a) \/ Upgrade(a) \/ Finishes(a)
    BY <1>5 DEF Activate, ActivateMihomoVersion, RestartStops, RestartStarts, RollBack, Answers, Delete,
                StartDownload, DownloadBegins, DownloadFails, Unpacked, Upgrade, Activated, Finishes, files
  <1> QED
    BY <1>1, <1>2, <1>3, <1>4, <1>5 DEF Next, Surroundings, ActorNext

-----------------------------------------------------------------------------
(* The active version *)

\* Steps of an actor that leave the configuration alone.
LEMMA ConfigKept ==
  ASSUME NEW a \in Actors, ActorNext(a),
         ~(ActivateMihomoVersion(a) \/ Upgrade(a) \/ RollBack(a))
  PROVE  UNCHANGED <<active, path, raced>>
  BY DEF ActorNext, Activate, RestartStops, RestartStarts, Answers, Delete, DeleteMihomoVersion, Import,
         ImportMihomoVersion, StartDownload, DownloadBegins, DownloadFails, Unpacked, Downloaded, Finishes,
         config, history

\* What is recorded: a version that is there, with nobody removing any, or what it
\* was before the activation, the removal of which is noted.
LEMMA ConfigMoves ==
  ASSUME ActorsOK, WorkIsLocked, NEW a \in Actors,
         ActivateMihomoVersion(a) \/ Upgrade(a) \/ RollBack(a)
  PROVE  \/ UNCHANGED <<active, path, raced>>
         \/ /\ active' = ver[a] /\ path' = ver[a] /\ bin[ver[a]] = ver[a] /\ raced' = FALSE
            /\ \A b \in Actors : pc[b] \notin Locked
         \/ /\ active' = was[a].active /\ path' = was[a].path /\ raced' = Deleted(was[a].active)
  <1>1. Free => \A b \in Actors : pc[b] \notin Locked
    BY VersionsConstantsOK DEF WorkIsLocked, Free
  <1> QED
    BY <1>1 DEF ActivateMihomoVersion, Upgrade, Activated, RollBack

LEMMA StepPath ==
  TypeOK /\ WorkIsLocked /\ PathIsActive /\ [Next]_vars => PathIsActive'
  <1> SUFFICES ASSUME TypeOK, WorkIsLocked, PathIsActive, [Next]_vars PROVE PathIsActive'
    OBVIOUS
  <1> ActorsOK
    BY DEF TypeOK
  <1> USE DEF PathIsActive
  <1>1. ASSUME NEW a \in Actors, ActorNext(a) PROVE PathIsActive'
    <2>1. active' # "none" => path' = active'
      <3>1. CASE ActivateMihomoVersion(a) \/ Upgrade(a) \/ RollBack(a)
        BY <3>1, ConfigMoves
      <3>2. CASE ~(ActivateMihomoVersion(a) \/ Upgrade(a) \/ RollBack(a))
        <4>1. UNCHANGED <<active, path>>
          BY <1>1, <3>2, ConfigKept
        <4> QED
          BY <4>1
      <3> QED
        BY <3>1, <3>2
    <2>2. was'[a].active # "none" => was'[a].path = was'[a].active
      <3> USE DEF ActorsOK, Goes, Begins, Ends, Nobody
      <3>1. CASE Activate(a)
        BY <3>1 DEF Activate
      <3>2. CASE Delete(a) \/ Import(a) \/ StartDownload(a)
        BY <3>2 DEF Delete, Import, StartDownload
      <3>3. CASE Answers(a) \/ Finishes(a) \/ DeleteMihomoVersion(a) \/ ImportMihomoVersion(a)
        BY <3>3 DEF Answers, Finishes, DeleteMihomoVersion, ImportMihomoVersion
      <3>4. CASE ActivateMihomoVersion(a) \/ Upgrade(a) \/ RestartStops(a) \/ RestartStarts(a) \/ RollBack(a)
        BY <3>4 DEF ActivateMihomoVersion, Upgrade, Activated, RestartStops, RestartStarts, RollBack
      <3>5. CASE DownloadBegins(a) \/ DownloadFails(a) \/ Unpacked(a) \/ Downloaded(a)
        BY <3>5 DEF DownloadBegins, DownloadFails, Unpacked, Downloaded
      <3> QED
        BY <1>1, <3>1, <3>2, <3>3, <3>4, <3>5 DEF ActorNext
    <2> QED
      BY <1>1, <2>1, <2>2, ActorMoves
  <1>2. CASE Surroundings
    BY <1>2, SurroundingsKeep
  <1>3. CASE Migrate \/ Migrated \/ Serves
    BY <1>3 DEF Migrate, Migrated, Serves, Everyone, config
  <1>4. CASE Crash
    BY <1>4 DEF Crash, Nobody, config
  <1> QED
    BY <1>1, <1>2, <1>3, <1>4 DEF Next, Surroundings

LEMMA StepRemoved ==
  TypeOK /\ Installed /\ [Next]_vars => RemovedIsInactive'
  <1> SUFFICES ASSUME TypeOK, Installed, [Next]_vars PROVE RemovedIsInactive'
    OBVIOUS
  <1> ActorsOK /\ WorkIsLocked
    BY DEF TypeOK, Installed
  <1> USE DEF RemovedIsInactive
  <1>1. ASSUME NEW a \in Actors, ActorNext(a) PROVE RemovedIsInactive'
    <2>1. CASE ActivateMihomoVersion(a) \/ Upgrade(a) \/ RollBack(a)
      <3>1. pc'[a] \notin {"remove", "record"} /\ ver' = ver
        BY <2>1 DEF ActivateMihomoVersion, Upgrade, Activated, RollBack, Goes, ActorsOK
      <3>2. \A b \in Actors : pc[b] \in {"remove", "record"} => ver[b] # "none" /\ ver[b] \in Versions
        BY VersionsConstantsOK DEF WorkIsLocked, Working
      <3> QED
        <4>1. CASE UNCHANGED <<active, path, raced>>
          BY <1>1, <3>1, <4>1, ActorMoves DEF Installed
        <4>2. CASE \A b \in Actors : pc[b] \notin Locked
          BY <1>1, <3>1, <4>2, ActorMoves DEF Locked
        <4>3. CASE active' = was[a].active /\ raced' = Deleted(was[a].active)
          BY <1>1, <3>1, <3>2, <4>3, ActorMoves DEF Deleted
        <4> QED
          BY <2>1, <4>1, <4>2, <4>3, ConfigMoves
    <2>2. CASE Delete(a) \/ Import(a)
      <3>1. UNCHANGED <<active, raced>> /\ ver'[a] \in Versions
        BY <2>2 DEF Delete, Import, Begins, config, TypeOK, ActorsOK
      <3>2. raced \/ active # ver'[a]
        BY <2>2 DEF Delete, Deletable, Import, Begins, Installed, ActiveIsInstalled, TypeOK, ActorsOK
      <3> QED
        BY <1>1, <3>1, <3>2, ActorMoves DEF Installed
    <2>3. CASE ~(ActivateMihomoVersion(a) \/ Upgrade(a) \/ RollBack(a) \/ Delete(a) \/ Import(a))
      <3>1. pc'[a] \notin {"remove", "record"}
        BY <1>1, <2>3
           DEF ActorNext, Activate, RestartStops, RestartStarts, Answers, DeleteMihomoVersion,
               ImportMihomoVersion, StartDownload, DownloadBegins, DownloadFails, Unpacked, Downloaded,
               Finishes, Goes, Begins, Ends, ActorsOK
      <3> QED
        BY <1>1, <2>3, <3>1, ActorMoves, ConfigKept DEF Installed
    <2> QED
      BY <2>1, <2>2, <2>3
  <1>2. CASE Surroundings
    BY <1>2, SurroundingsKeep DEF Installed
  <1>3. CASE Beginnings
    BY <1>3, BeginningsKeep
  <1> QED
    BY <1>1, <1>2, <1>3 DEF Next, Surroundings, Beginnings

LEMMA StepActive ==
  TypeOK /\ Installed /\ [Next]_vars => ActiveIsInstalled'
  <1> SUFFICES ASSUME TypeOK, Installed, [Next]_vars, active' # "none", ~raced'
               PROVE  bin'[active'] = active' /\ path' = active'
    BY DEF ActiveIsInstalled
  <1> ActorsOK /\ WorkIsLocked /\ ActiveIsInstalled /\ PathIsActive /\ VersionsAreWhatTheySay
    BY DEF TypeOK, Installed
  <1>1. ASSUME NEW a \in Actors, ActorNext(a) PROVE bin'[active'] = active' /\ path' = active'
    <2>1. CASE ActivateMihomoVersion(a) \/ Upgrade(a) \/ RollBack(a)
      <3>1. bin' = bin
        BY <2>1 DEF ActivateMihomoVersion, Upgrade, Activated, RollBack, files
      <3>2. was[a].active \in Versions \cup {"none"}
        BY DEF ActorsOK, Found
      <3> QED
        <4>1. CASE UNCHANGED <<active, path, raced>>
          BY <3>1, <4>1 DEF ActiveIsInstalled
        <4>2. CASE active' = ver[a] /\ path' = ver[a] /\ bin[ver[a]] = ver[a]
          BY <3>1, <4>2
        <4>3. CASE /\ active' = was[a].active /\ path' = was[a].path
                   /\ raced' = Deleted(was[a].active)
          BY <3>1, <3>2, <4>3 DEF PathIsActive, VersionsAreWhatTheySay, Deleted
        <4> QED
          BY <2>1, <4>1, <4>2, <4>3, ConfigMoves
    <2>2. CASE DeleteMihomoVersion(a) \/ ImportMihomoVersion(a)
      <3>1. UNCHANGED <<active, path, raced>> /\ pc[a] \in {"remove", "record"}
        BY <2>2 DEF DeleteMihomoVersion, ImportMihomoVersion, config, history
      <3>2. active # ver[a]
        BY <3>1 DEF Installed, RemovedIsInactive
      <3> QED
        BY <2>2, <3>1, <3>2 DEF DeleteMihomoVersion, ImportMihomoVersion, ActiveIsInstalled, TypeOK
    <2>3. CASE Import(a) \/ Downloaded(a)
      <3>1. UNCHANGED <<active, path, raced>>
        BY <2>3 DEF Import, Downloaded, config, history
      <3> QED
        BY <2>3, <3>1 DEF Import, Downloaded, Verified, ActiveIsInstalled, TypeOK
    <2>4. CASE \/ Activate(a) \/ RestartStops(a) \/ RestartStarts(a) \/ Answers(a) \/ Delete(a)
               \/ StartDownload(a) \/ DownloadBegins(a) \/ DownloadFails(a) \/ Unpacked(a) \/ Finishes(a)
      BY <2>4 DEF Activate, RestartStops, RestartStarts, Answers, Delete, StartDownload, DownloadBegins,
                  DownloadFails, Unpacked, Finishes, files, config, history, ActiveIsInstalled
    <2> QED
      BY <1>1, <2>1, <2>2, <2>3, <2>4 DEF ActorNext
  <1>2. CASE Surroundings
    BY <1>2, SurroundingsKeep DEF ActiveIsInstalled
  <1>3. CASE Migrate
    BY <1>3 DEF Migrate, config, history, TypeOK, ActiveIsInstalled
  <1>4. CASE Migrated
    BY <1>4, VersionsConstantsOK DEF Migrated, files, history, Installed, StartsFirst, ActiveIsInstalled
  <1>5. CASE Serves \/ Crash
    BY <1>5 DEF Serves, Crash, files, config, history, ActiveIsInstalled
  <1> QED
    BY <1>1, <1>2, <1>3, <1>4, <1>5 DEF Next, Surroundings

-----------------------------------------------------------------------------
(* The task that is shown *)

LEMMA StepTask == TypeOK /\ TaskShownIsAlive /\ [Next]_vars => TaskShownIsAlive'
  <1> SUFFICES ASSUME TypeOK, TaskShownIsAlive, [Next]_vars PROVE TaskShownIsAlive'
    OBVIOUS
  <1> ActorsOK
    BY DEF TypeOK
  <1> USE DEF TaskShownIsAlive
  <1>1. ASSUME NEW a \in Actors, ActorNext(a) PROVE TaskShownIsAlive'
    <2> USE DEF ActorsOK, Goes, Begins, Ends, Idle
    <2>1. CASE \/ Activate(a) \/ Answers(a) \/ Delete(a) \/ DeleteMihomoVersion(a) \/ Import(a)
               \/ ImportMihomoVersion(a)
      BY <2>1 DEF Activate, Answers, Delete, DeleteMihomoVersion, Import, ImportMihomoVersion
    <2>2. CASE ActivateMihomoVersion(a) \/ RestartStops(a) \/ RestartStarts(a) \/ RollBack(a)
      BY <2>2 DEF ActivateMihomoVersion, Activated, RestartStops, RestartStarts, RollBack
    <2>3. CASE StartDownload(a) \/ DownloadBegins(a) \/ DownloadFails(a) \/ Unpacked(a) \/ Downloaded(a)
      BY <2>3 DEF StartDownload, DownloadBegins, DownloadFails, Unpacked, Downloaded
    <2>4. CASE Upgrade(a)
      BY <2>4 DEF Upgrade, Activated
    <2>5. CASE Finishes(a)
      BY <2>5 DEF Finishes, TypeOK
    <2> QED
      BY <1>1, <2>1, <2>2, <2>3, <2>4, <2>5 DEF ActorNext
  <1>2. CASE Surroundings
    BY <1>2 DEF Surroundings, UserPlacesBinary, RefreshMihomoVersionCatalog, ProgressAsked, CoreChanges,
                actors, vars, TypeOK
  <1>3. CASE Migrate \/ Migrated \/ Serves
    BY <1>3 DEF Migrate, Migrates, Migrated, Serves, Everyone
  <1>4. CASE Crash
    BY <1>4 DEF Crash, NoTask
  <1> QED
    BY <1>1, <1>2, <1>3, <1>4 DEF Next, Surroundings

-----------------------------------------------------------------------------
(* An activation that nobody interferes with *)

\* While one runs, nobody else does anything but serve idly.
LEMMA StepQuiet == TypeOK /\ Installed /\ QuietIsUndisturbed /\ [Next]_vars => QuietIsUndisturbed'
  <1> SUFFICES ASSUME TypeOK, Installed, QuietIsUndisturbed, [Next]_vars, quiet'
               PROVE  \E a \in Actors : Undisturbed(a)'
    BY DEF QuietIsUndisturbed
  <1> ActorsOK /\ WorkIsLocked
    BY DEF TypeOK, Installed
  <1> USE DEF Idle
  <1>1. ASSUME NEW a \in Actors, ActorNext(a), ~Activate(a) PROVE Undisturbed(a)'
    <2>1. quiet
      BY <1>1 DEF ActorNext, ActivateMihomoVersion, Activated, RestartStops, RestartStarts, RollBack,
                  Answers, Delete, DeleteMihomoVersion, Import, ImportMihomoVersion, StartDownload,
                  DownloadBegins, DownloadFails, Unpacked, Downloaded, Upgrade, Finishes, Begins, history
    <2>2. pc[a] # "idle"
      BY <1>1, <2>1
         DEF ActorNext, ActivateMihomoVersion, RestartStops, RestartStarts, RollBack,
             Answers, Delete, DeleteMihomoVersion, Import, ImportMihomoVersion, StartDownload,
             DownloadBegins, DownloadFails, Unpacked, Downloaded, Upgrade, Finishes, Begins
    <2>3. Undisturbed(a)
      BY <2>1, <2>2 DEF QuietIsUndisturbed, Undisturbed
    <2>4. \A b \in Actors \ {a} : pc'[b] = "idle"
      BY <1>1, <2>3, ActorMoves DEF Undisturbed
    <2>5. ActivateMihomoVersion(a) \/ RestartStops(a) \/ RestartStarts(a) \/ RollBack(a)
      BY <1>1, <2>3
         DEF ActorNext, Answers, Delete, DeleteMihomoVersion, Import, ImportMihomoVersion, StartDownload,
             DownloadBegins, DownloadFails, Unpacked, Downloaded, Upgrade, Finishes, Begins, Undisturbed, Activity
    <2>6. ver[a] \in Versions /\ was' = was /\ ver' = ver
      BY <2>3, <2>5
         DEF ActivateMihomoVersion, Activated, RestartStops, RestartStarts, RollBack, Goes, Undisturbed,
             WorkIsLocked, Activity, Working
    <2> USE DEF Undisturbed, Activity, Goes, ActorsOK
    <2>7. CASE ActivateMihomoVersion(a)
      BY <2>3, <2>4, <2>6, <2>7 DEF ActivateMihomoVersion, Activated, files
    <2>8. CASE RestartStops(a)
      BY <2>3, <2>4, <2>6, <2>8 DEF RestartStops, files, config
    <2>9. CASE RestartStarts(a)
      <3>1. pc[a] = "start" => Binary = ver[a]
        BY <2>3, <2>6, VersionsConstantsOK DEF Binary
      <3> QED
        BY <2>3, <2>4, <2>6, <2>9, <3>1 DEF RestartStarts, files, config
    <2>10. CASE RollBack(a)
      BY <2>3, <2>4, <2>6, <2>10 DEF RollBack, files
    <2> QED
      BY <2>5, <2>7, <2>8, <2>9, <2>10
  <1>2. ASSUME NEW a \in Actors, Activate(a) PROVE Undisturbed(a)'
    <2>1. \A b \in Actors \ {a} : pc[b] = "idle"
      BY <1>2 DEF Activate, Begins
    <2> QED
      <3>1. /\ pc'[a] = "activate" /\ UNCHANGED <<active, path, core>>
            /\ was'[a] = [running |-> core # "stopped", active |-> active, path |-> path]
        BY <1>2 DEF Activate, Begins, ActorsOK, config
      <3>2. \A b \in Actors \ {a} : pc'[b] = "idle"
        BY <1>2, <2>1 DEF Activate, Begins, ActorsOK
      <3>3. was'[a].running <=> core' # "stopped"
        <4>1. PICK b \in BOOLEAN : b = (core # "stopped")
          OBVIOUS
        <4>2. was'[a] = [running |-> b, active |-> active, path |-> path]
          BY <3>1, <4>1, Zenon
        <4>3. was'[a].running = b
          BY <4>2
        <4>4. core' = core
          BY <3>1
        <4>5. b <=> core # "stopped"
          BY <4>1, Zenon
        <4> QED
          BY <4>3, <4>4, <4>5, Zenon
      <3>4. was'[a].active = active' /\ was'[a].path = path'
        BY <3>1
      <3> QED
        BY <3>1, <3>2, <3>3, <3>4 DEF Undisturbed, Activity
  <1>3. CASE UserPlacesBinary \/ RefreshMihomoVersionCatalog \/ ProgressAsked \/ UNCHANGED vars
    <2>1. UNCHANGED <<bin, active, path, core, pc, ver, was, quiet>>
      BY <1>3 DEF UserPlacesBinary, RefreshMihomoVersionCatalog, ProgressAsked, files, config, actors,
                  history, vars
    <2> QED
      BY <2>1 DEF QuietIsUndisturbed, Undisturbed
  <1>4. CASE CoreChanges \/ Crash
    BY <1>4 DEF CoreChanges, Crash
  <1>5. CASE Migrate \/ Migrated \/ Serves
    <2>1. quiet /\ \A a \in Actors : pc[a] \notin Activity
      BY <1>5 DEF Migrate, Migrates, Migrated, Serves, history, Activity
    <2> QED
      BY <2>1 DEF QuietIsUndisturbed, Undisturbed
  <1> QED
    BY <1>1, <1>2, <1>3, <1>4, <1>5 DEF Next

-----------------------------------------------------------------------------
(* The theorems *)

LEMMA InitIInv == Init => IInv
  <1> SUFFICES ASSUME Init PROVE IInv
    OBVIOUS
  <1>1. StartsFirst /\ WorkIsLocked /\ PathIsActive
    BY VersionsConstantsOK DEF Init, StartsFirst, WorkIsLocked, Locked, Working, PathIsActive, Nobody
  <1>2. VersionsAreWhatTheySay /\ RemovedIsInactive /\ ActiveIsInstalled /\ TaskShownIsAlive
    BY DEF Init, VersionsAreWhatTheySay, RemovedIsInactive, ActiveIsInstalled, TaskShownIsAlive, NoTask
  <1> QED
    BY <1>1, <1>2, InitType DEF Init, IInv, Installed, QuietIsUndisturbed

LEMMA StepIInv == IInv /\ [Next]_vars => IInv'
  BY StepType, StepStarts, StepLock, StepBinaries, StepPath, StepRemoved, StepActive, StepTask, StepQuiet
     DEF IInv, Installed

\* Every reachable state is well typed.
THEOREM TypeCorrect == Spec => []TypeOK
  <1>1. IInv => TypeOK
    BY DEF IInv
  <1> QED
    BY <1>1, InitIInv, StepIInv, PTL DEF Spec

\* A version's directory holds that version or nothing, wherever a download, an
\* import or a migration is cut off.
THEOREM VersionsAreWhatTheySayHolds == Spec => []VersionsAreWhatTheySay
  <1>1. IInv => VersionsAreWhatTheySay
    BY DEF IInv, Installed
  <1> QED
    BY <1>1, InitIInv, StepIInv, PTL DEF Spec

\* The active version is installed and is the one that is started, but for one that
\* is deleted between its replacement and the roll-back to it.
THEOREM ActiveIsInstalledHolds == Spec => []ActiveIsInstalled
  <1>1. IInv => ActiveIsInstalled
    BY DEF IInv, Installed
  <1> QED
    BY <1>1, InitIInv, StepIInv, PTL DEF Spec

\* An activation that nobody interferes with does what it answers.
THEOREM ActivationIsAsAnswered == Spec => []ActivationHolds
  <1>1. IInv => ActivationHolds
    <2> SUFFICES ASSUME IInv, quiet, NEW a \in Actors,
                        pc[a] \in {"ok", "kept", "refused", "undone"}
                 PROVE  Undisturbed(a)
      BY DEF ActivationHolds, Undisturbed
    <2>1. PICK b \in Actors : Undisturbed(b)
      BY DEF IInv, QuietIsUndisturbed
    <2> QED
      BY <2>1 DEF Undisturbed, Idle
  <1> QED
    BY <1>1, InitIInv, StepIInv, PTL DEF Spec

\* The progress shows a task only while a goroutine works on one.
THEOREM TaskShownIsAliveHolds == Spec => []TaskShownIsAlive
  <1>1. IInv => TaskShownIsAlive
    BY DEF IInv
  <1> QED
    BY <1>1, InitIInv, StepIInv, PTL DEF Spec
=============================================================================
