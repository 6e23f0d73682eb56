--------------------------- MODULE MihomoVersions ---------------------------
(***************************************************************************)
(* The installed versions of the core (mihomotui/mihomo_versions.go) and   *)
(* the requests that download, import, activate and delete them            *)
(* (daemon_handlers_mihomo.go).                                            *)
(*                                                                         *)
(* Each version has a directory with its binary.  The configuration names  *)
(* the active version and the path the core is started from; both are      *)
(* committed together, and a commit may fail.  Operations on the           *)
(* directories hold mihomoVersionOpMu; what a handler does before and      *)
(* after, the roll-back of a failed activation included, does not.  A      *)
(* download runs in a goroutine that outlives its request.                 *)
(*                                                                         *)
(* A binary is the version it reports itself to be.  What the release      *)
(* archive holds is up to the source it came from.                         *)
(***************************************************************************)
EXTENDS FiniteSets

CONSTANTS
  Versions,
  Actors     \* handlers and download goroutines at once

ASSUME VersionsConstantsOK ==
  /\ IsFiniteSet(Versions) /\ IsFiniteSet(Actors)
  /\ {"none", "legacy", "other", "broken", "stopped"} \cap Versions = {}
  /\ "none" \notin Actors /\ Actors # {}

VARIABLES
  bin,       \* the binary in each version's directory
  unpacked,  \* what the download that holds the lock has unpacked beside it
  manual,    \* the binary the user has put into the import directory
  legacy,    \* the binary of a former installation
  listed,    \* versions of the catalogue, with an asset to download
  active,    \* MihomoActiveVersion
  path,      \* what MihomoBinaryPath points to
  core,      \* the version that runs
  lock,      \* the holder of mihomoVersionOpMu
  task,      \* upgradeProgress: whether a task is shown, and its version
  pc, ver,   \* where each actor is, and its version
  was,       \* what an activation found: running, active version, path
  quiet,     \* an activation has been alone with the files and the core
  raced      \* the active version was restored although deleted meanwhile

files   == <<bin, unpacked, manual, legacy>>
config  == <<listed, active, path>>
actors  == <<pc, ver, was>>
history == <<quiet, raced>>
vars    == <<files, config, core, lock, task, actors, history>>

NoTask == [busy |-> FALSE, version |-> "none"]
Nobody == [running |-> FALSE, active |-> "none", path |-> "none"]

Init ==
  /\ bin = [v \in Versions |-> "none"] /\ unpacked = "none"
  /\ manual = "none" /\ legacy \in Versions \cup {"none"}
  /\ listed = {} /\ active = "none"
  /\ path = IF legacy = "none" THEN "none" ELSE "legacy"
  /\ core = "stopped" /\ lock = "none" /\ task = NoTask
  /\ pc = [a \in Actors |-> "starting"] /\ ver = [a \in Actors |-> "none"]
  /\ was = [a \in Actors |-> Nobody]
  /\ quiet = FALSE /\ raced = FALSE

-----------------------------------------------------------------------------
(* Steps of actors *)

Idle(a) == pc[a] = "idle"

Goes(a, step) == pc' = [pc EXCEPT ![a] = step] /\ UNCHANGED <<ver, was>>

Begins(a, step, v, found) ==
  /\ Idle(a)
  /\ pc' = [pc EXCEPT ![a] = step] /\ ver' = [ver EXCEPT ![a] = v]
  /\ was' = [was EXCEPT ![a] = found]
  /\ quiet' = (step = "activate" /\ \A b \in Actors \ {a} : Idle(b))

Ends(a) ==
  /\ pc' = [pc EXCEPT ![a] = "idle"]
  /\ ver' = [ver EXCEPT ![a] = "none"] /\ was' = [was EXCEPT ![a] = Nobody]

Free == lock = "none"

\* findMihomoBinary: the configured path, if there is a file, or any other.
Binary ==
  IF path \in Versions /\ bin[path] # "none" THEN bin[path]
  ELSE IF legacy # "none" THEN legacy ELSE "other"

-----------------------------------------------------------------------------
(* The daemon starts *)

Everyone(step) == pc' = [a \in Actors |-> step] /\ UNCHANGED <<ver, was>>

Migrates ==
  /\ \A a \in Actors : pc[a] = "starting"
  /\ active = "none" /\ path = "legacy"

\* Mutant: the copy is written in place, and may be cut short.
MigrateInPlace ==
  /\ Migrates
  /\ \E content \in {legacy, "broken"} :
       bin' = IF bin[legacy] = "none" THEN [bin EXCEPT ![legacy] = content] ELSE bin
  /\ Everyone("migrated")
  /\ UNCHANGED <<unpacked, manual, legacy, config, core, lock, task, history>>

\* MigrateLegacyMihomoBinary: a former installation is copied, through a file
\* beside the target, then recorded.  A failure leaves it for the next start.
Migrate ==
  /\ Migrates
  /\ bin' = IF bin[legacy] = "none" THEN [bin EXCEPT ![legacy] = legacy] ELSE bin
  /\ Everyone("migrated")
  /\ UNCHANGED <<unpacked, manual, legacy, config, core, lock, task, history>>

Migrated ==
  /\ \A a \in Actors : pc[a] = "migrated"
  /\ \/ active' = legacy /\ path' = legacy
     \/ UNCHANGED <<active, path>>
  /\ Everyone("idle")
  /\ UNCHANGED <<files, listed, core, lock, task, history>>

\* Nothing to migrate, or it cannot be done.
Serves ==
  /\ \A a \in Actors : pc[a] = "starting"
  /\ Everyone("idle")
  /\ UNCHANGED <<files, config, core, lock, task, history>>

\* The daemon dies, and the core it has started with it.  What a download has
\* unpacked stays, for the next one to remove before it uses the place.
Crash ==
  /\ core' = "stopped" /\ lock' = "none" /\ task' = NoTask /\ unpacked' = "none"
  /\ pc' = [a \in Actors |-> "starting"] /\ ver' = [a \in Actors |-> "none"]
  /\ was' = [a \in Actors |-> Nobody]
  /\ quiet' = FALSE
  /\ UNCHANGED <<bin, manual, legacy, config, raced>>

-----------------------------------------------------------------------------
(* Activation *)

\* activateMihomoVersion reads what it may have to restore, without the lock.
Activate(a) ==
  /\ \E v \in Versions :
       Begins(a, "activate", v, [running |-> core # "stopped", active |-> active, path |-> path])
  /\ UNCHANGED <<files, config, core, lock, task, raced>>

\* ActivateMihomoVersion: the binary is there, runs and is that version.  The
\* commit may fail.
Activated(a, done, failed) ==
  /\ Free
  /\ \/ /\ bin[ver[a]] = ver[a]
        /\ active' = ver[a] /\ path' = ver[a] /\ raced' = FALSE
        /\ Goes(a, done)
     \/ UNCHANGED <<active, path, raced>> /\ Goes(a, failed)
  /\ UNCHANGED <<files, listed, core, lock, task, quiet>>

\* Nothing is started unless the core was found running.
ActivateMihomoVersion(a) ==
  /\ pc[a] = "activate"
  /\ Activated(a, IF was[a].running THEN "stop" ELSE "ok", "refused")

\* Restart stops the core, unless that fails, and starts the binary configured
\* by then.  It fails too if somebody else has started the core.
RestartStops(a) ==
  /\ pc[a] \in {"stop", "stop_again"}
  /\ \/ core' = "stopped" /\ Goes(a, IF pc[a] = "stop" THEN "start" ELSE "start_again")
     \/ UNCHANGED core /\ Goes(a, IF pc[a] = "stop" THEN "rollback" ELSE "undone")
  /\ UNCHANGED <<files, config, lock, task, history>>

RestartStarts(a) ==
  /\ pc[a] \in {"start", "start_again"}
  /\ \/ /\ core = "stopped" /\ core' = Binary
        /\ Goes(a, IF pc[a] = "start" THEN "ok" ELSE "undone")
     \/ UNCHANGED core /\ Goes(a, IF pc[a] = "start" THEN "rollback" ELSE "undone")
  /\ UNCHANGED <<files, config, lock, task, history>>

\* Mutant: only the version is restored.
RollBackVersionOnly(a) ==
  /\ pc[a] = "rollback"
  /\ \/ active' = was[a].active /\ Goes(a, "stop_again")
     \/ UNCHANGED active /\ Goes(a, "kept")
  /\ UNCHANGED <<files, listed, path, core, lock, task, history>>

\* It is gone, or somebody has found it inactive and is about to remove it, or
\* has imported it anew and may take that back.
Deleted(v) ==
  /\ v # "none"
  /\ bin[v] = "none" \/ \E b \in Actors : pc[b] \in {"remove", "record"} /\ ver[b] = v

\* The old version and path are committed again, whatever has become of them.
RollBack(a) ==
  /\ pc[a] = "rollback"
  /\ \/ /\ active' = was[a].active /\ path' = was[a].path
        /\ raced' = Deleted(was[a].active)
        /\ Goes(a, "stop_again")
     \/ UNCHANGED <<active, path, raced>> /\ Goes(a, "kept")
  /\ UNCHANGED <<files, listed, core, lock, task, quiet>>

\* The activation is done, refused, taken back, or not even that.
Answers(a) ==
  /\ pc[a] \in {"ok", "refused", "undone", "kept"}
  /\ Ends(a)
  /\ quiet' = FALSE
  /\ UNCHANGED <<files, config, core, lock, task, raced>>

-----------------------------------------------------------------------------
(* Deletion and import *)

\* Mutant: the active version is not looked at.
DeletableAny(v) == bin[v] # "none"

Deletable(v) == active # v /\ bin[v] # "none"

\* DeleteMihomoVersion: the version is not active and there; then its directory
\* is removed.  (What the commit after it changes is only shown.)
Delete(a) ==
  /\ Free /\ lock' = a
  /\ \E v \in Versions : Deletable(v) /\ Begins(a, "remove", v, Nobody)
  /\ UNCHANGED <<files, config, core, task, raced>>

DeleteMihomoVersion(a) ==
  /\ pc[a] = "remove"
  /\ bin' = [bin EXCEPT ![ver[a]] = "none"]
  /\ lock' = "none" /\ Ends(a)
  /\ UNCHANGED <<unpacked, manual, legacy, config, core, task, history>>

UserPlacesBinary ==
  /\ manual = "none" /\ manual' \in Versions
  /\ UNCHANGED <<bin, unpacked, legacy, config, core, lock, task, actors, history>>

\* ImportManualMihomoBinary: the file is moved to its version's directory,
\* which has none yet, then recorded.
Import(a) ==
  /\ Free /\ lock' = a
  /\ manual # "none" /\ bin[manual] = "none"
  /\ Begins(a, "record", manual, Nobody)
  /\ bin' = [bin EXCEPT ![manual] = manual] /\ manual' = "none"
  /\ UNCHANGED <<unpacked, legacy, config, core, task, raced>>

\* When the commit fails the file is removed from where it was moved to.
ImportMihomoVersion(a) ==
  /\ pc[a] = "record"
  /\ \/ UNCHANGED bin
     \/ bin' = [bin EXCEPT ![ver[a]] = "none"]
  /\ lock' = "none" /\ Ends(a)
  /\ UNCHANGED <<unpacked, manual, legacy, config, core, task, history>>

-----------------------------------------------------------------------------
(* Downloads *)

\* RefreshMihomoVersionCatalog commits what a source lists, without the lock.  Here
\* a source lists all versions: one it does not list is one of before the refresh.
RefreshMihomoVersionCatalog ==
  /\ \E a \in Actors : Idle(a)
  /\ listed' = Versions
  /\ UNCHANGED <<files, active, path, core, lock, task, actors, history>>

\* startMihomoVersionDownload and handleMihomoUpgrade: one task at a time as far
\* as the progress shows, and a goroutine that downloads; an upgrade then also
\* activates, and shows no version.
StartDownload(a) ==
  /\ ~task.busy
  /\ \E v \in Versions, upgrade \in BOOLEAN :
       /\ Begins(a, "download", v, [Nobody EXCEPT !.running = upgrade])
       /\ task' = [busy |-> TRUE, version |-> IF upgrade THEN "none" ELSE v]
  /\ UNCHANGED <<files, config, core, lock, raced>>

Upgrading(a) == was[a].running

\* What the goroutine reports as it goes on.
Reports(a, busy) ==
  task' = [busy |-> busy, version |-> IF Upgrading(a) THEN task.version ELSE ver[a]]

\* downloadMihomoVersion: the version is in the catalogue; it is not downloaded
\* again, nor is its binary looked at, when it is there.
DownloadBegins(a) ==
  /\ pc[a] = "download" /\ Free
  /\ IF ver[a] \notin listed THEN Goes(a, "failed") /\ UNCHANGED <<lock, task>>
     ELSE IF bin[ver[a]] # "none"
     THEN /\ Reports(a, FALSE) /\ UNCHANGED lock
          /\ Goes(a, IF Upgrading(a) THEN "upgrade" ELSE "done")
     ELSE Reports(a, TRUE) /\ Goes(a, "fetch") /\ lock' = a
  /\ UNCHANGED <<files, config, core, history>>

DownloadFails(a) ==
  /\ pc[a] \in {"fetch", "verify"}
  /\ Goes(a, "failed") /\ lock' = "none" /\ unpacked' = "none"
  /\ UNCHANGED <<bin, manual, legacy, config, core, task, history>>

\* The archive has been fetched and unpacked.
Unpacked(a) ==
  /\ pc[a] = "fetch"
  /\ Reports(a, TRUE)
  /\ unpacked' \in Versions \cup {"broken"}
  /\ Goes(a, "verify")
  /\ UNCHANGED <<bin, manual, legacy, config, core, lock, history>>

\* Mutant: the binary runs, but is not asked for the right version.
Runs(v) == unpacked # "broken"

Verified(v) == unpacked = v

Downloaded(a) ==
  /\ pc[a] = "verify" /\ Verified(ver[a])
  /\ bin' = [bin EXCEPT ![ver[a]] = unpacked] /\ unpacked' = "none"
  /\ Reports(a, FALSE) /\ lock' = "none"
  /\ Goes(a, IF Upgrading(a) THEN "upgrade" ELSE "done")
  /\ UNCHANGED <<manual, legacy, config, core, history>>

\* DownloadMihomo activates with the lock taken again; a running core runs on.
Upgrade(a) == pc[a] = "upgrade" /\ Activated(a, "done", "failed")

\* Mutant: a failure is only logged.
FinishesSilently(a) ==
  /\ pc[a] \in {"done", "failed"}
  /\ task' = IF pc[a] = "done" THEN [task EXCEPT !.busy = FALSE] ELSE task
  /\ Ends(a)
  /\ UNCHANGED <<files, config, core, lock, history>>

\* The goroutine's last report is of whatever version is shown by then.
Finishes(a) ==
  /\ pc[a] \in {"done", "failed"}
  /\ task' = [task EXCEPT !.busy = FALSE]
  /\ Ends(a)
  /\ UNCHANGED <<files, config, core, lock, history>>

\* handleMihomoUpgradeProgress believes the directory rather than the reports.
ProgressAsked ==
  /\ task.busy /\ task.version # "none" /\ bin[task.version] # "none"
  /\ task' = [task EXCEPT !.busy = FALSE]
  /\ UNCHANGED <<files, config, core, lock, actors, history>>

-----------------------------------------------------------------------------
\* The user starts and stops the core, or it exits.
CoreChanges ==
  /\ core' = IF core = "stopped" THEN Binary ELSE "stopped"
  /\ quiet' = FALSE
  /\ UNCHANGED <<files, config, lock, task, actors, raced>>

ActorNext(a) ==
  \/ Activate(a) \/ ActivateMihomoVersion(a) \/ RestartStops(a) \/ RestartStarts(a)
  \/ RollBack(a) \/ Answers(a)
  \/ Delete(a) \/ DeleteMihomoVersion(a) \/ Import(a) \/ ImportMihomoVersion(a)
  \/ StartDownload(a) \/ DownloadBegins(a) \/ DownloadFails(a) \/ Unpacked(a)
  \/ Downloaded(a) \/ Upgrade(a) \/ Finishes(a)

Next ==
  \/ Migrate \/ Migrated \/ Serves \/ Crash
  \/ UserPlacesBinary \/ RefreshMihomoVersionCatalog \/ ProgressAsked \/ CoreChanges
  \/ \E a \in Actors : ActorNext(a)

Spec == Init /\ [][Next]_vars

-----------------------------------------------------------------------------
(* Properties *)

\* A version's directory holds that version, whole: whatever a source sends, and
\* wherever a download, an import or the migration of a former installation is
\* cut off, nothing half written or of another version is ever in its place, to
\* be started, or to be taken for downloaded later.
VersionsAreWhatTheySay ==
  \A v \in Versions : bin[v] \in {"none", v}

\* The active version is installed and is the one that is started, whichever
\* deletions, imports, downloads, failed commits and crashes there are; with one
\* exception, a version deleted between its replacement and the roll-back to it.
ActiveIsInstalled ==
  active # "none" /\ ~raced => bin[active] = active /\ path = active

\* An activation that nobody interferes with does what it answers.  Done: the
\* version is active, and a core that ran has been started from it.  Failed: the
\* former version is active again, unless that could not be recorded.
ActivationHolds ==
  quiet => \A a \in Actors :
    /\ pc[a] = "ok" =>
         active = ver[a] /\ core = IF was[a].running THEN ver[a] ELSE "stopped"
    /\ pc[a] = "kept" => active = ver[a]
    /\ pc[a] \in {"refused", "undone"} => active = was[a].active /\ path = was[a].path

\* The progress shows a task only while a goroutine works on it: however tasks
\* overlap, fail and are cut off, it never stays at a task that is over, which
\* would refuse every later one.
TaskShownIsAlive ==
  task.busy => \E a \in Actors :
                 pc[a] \in {"download", "fetch", "verify", "upgrade", "done", "failed"}
=============================================================================
