# mihomo-loongnix: TLA+ models and proofs

The program manages a proxy core (mihomo) on one host.  A root daemon, the
*manager*, owns the configuration, generates the core's own configuration file,
starts and stops the core, installs the routing rules TUN mode needs, and
answers requests on a local socket.  A terminal UI, a web gateway and a command
line are its clients.

## Inventory

| Component | State it keeps | Operations | Hard behaviours | What makes it correct |
| --- | --- | --- | --- | --- |
| Configuration store (`config_store.go`, `config.go`, `secrets.go`) | `globalConfig`; `config.yaml`; the private file; a version | load, update, replace against a version, flush of two files | death between two renames, errors reported after a rename, unreadable files, old files with secrets inline, clients with stale copies | a restart finds nothing older than what was committed; no lost update; no lost secret |
| TUN return-path rules (`tun_routing_linux.go`) | ip route and rules, an nft table or legacy iptables chains, a state file, a lock | set up, restore | any command may fail, death between two commands, reboot, other firewall tools, other people's tables | nothing in the kernel that the state file does not claim; success means complete, or clean; never wedged |
| Core as child process (`mihomo_process.go`) | the current command, `running`, an exit channel, one waiting goroutine per process | start, stop, restart | callers and goroutines interleave, one exit and several receivers, timeouts, exits at any moment | no process is lost; TUN is protected while a core is alive; every call returns |
| Manager control handlers (`manager_api.go`, `core_controller*.go`) | none of their own; the same setting in the configuration, the generated file and the core | core start and stop, TUN, proxy port | every step may fail, rollbacks that may fail, systemd restarting the core behind the manager's back, state queries that fail | an answer is true; a failure leaves no setting half applied; a core in TUN mode has its rules |
| Profiles (`manager_profiles.go`, `profile_converter.go`) | subscriptions, their cache files | add, activate, update, rename, delete | cache and configuration written separately, rollbacks | cache, configuration and core agree |
| Reconciler (`reconcile.go`, `daemon_handlers_config.go`) | a queue of 16, one worker; each request notes whether TUN changed | submit and wait at most 20 s, apply stage by stage | late answers, full queue, requests in another order than their commits, panics, a core others start and stop | the last commit is the one applied; an applied change stays; every caller returns |
| Log recorder (`manager_logging.go`) | an open file, a reader, sizes and backups | apply, rotate, close | rotation that fails half way, an old reader beside a new one | an enabled recorder records; nothing is written when disabled |
| Web service control (`manager_web.go`, `web_lock_linux.go`) | a systemd unit, a lock | start, stop, status | the CLI and the manager at once | one at a time; the answer is true (not modelled) |
| Web gateway (`internal/webgateway`) | the session map, one place each for a password check, a write and a delay test; per log stream a reader and a channel of 8 | login, visit, refresh, logout, close; log stream; forwarded write | expiry and limits during requests, slow and vanished browsers, a silent core, writes given up while the manager goes on | a session ends once and its streams with it; no line is lost silently; what the browser is told is true |
| Subscription pools and scheduler (`subscription_*.go`, `daemon_handlers_subscription.go`, `daemon_handlers_pool.go`) | subscriptions with cache and failure count; pools with members and an active one | import, create, delete, refresh, fail over; create, change, delete pools | downloads outside the lock, failover crossing edits, changes nobody applies | the core has read what the pools select; no edit makes the configuration invalid |
| Core versions (`mihomo_versions.go`, `daemon_handlers_mihomo.go`) | a directory per version, active version and path, a lock, the task shown | migrate, refresh the list, download, import, activate, delete, upgrade | replacing what runs, wrong or truncated archives, a failure half way, death of the manager | a directory holds what it is named for; the active version is installed; an activation does what it answers |
| Terminal UI (`ui/`) | what each page shows, a pending flag, the nodes being tested | load, select a node, test a node | answers drawn in any order, requests given up while the manager goes on | what is marked is what the core uses; no button is stuck |
| Web front end, scripts, transport | views only | | | out of scope, see below |

How they interact.  Handlers of the manager run under one mutex (`actionMu`);
each calls the configuration store, then regenerates the core's file from the
committed configuration, then talks to the core: through systemd or as a child
process, and through its HTTP controller.  Those that touch TUN call the
installer, which takes a file lock of its own, so that other processes (the
command line's `tun_diagnose`) may call it as well.  The waiting goroutine of a
child process calls the installer too, under no mutex.  The web gateway is a
process of its own that forwards requests to the manager's socket and relays its
log stream.  The handlers for pools, subscriptions, core versions and the
configuration as a whole do not hold `actionMu`; what they commit is applied by
the reconciler's worker.  They are built and tested, but the daemon's router does
not reach them at this commit.

## Plan

Modules, most important behaviour first; a module that is *done* has its runs
and, where it says so, its proofs.

1. `ConfigStore` - done, proved.  `TunRouting` - done, proved.  `CoreProcess` -
   done, proved.  `ManagerControl` - done, proved; it uses `TunRouting`'s promises (a setup is
   complete or has rolled back or left a part that a restore removes) for its
   variable `rules`, as `CoreProcess` does.
2. `Profiles` - done, proved: caches, configuration, generated file and core, with
   rollbacks.
3. `LogRecorder` - done, proved: rotation and enable/disable, with
   liveness of recording.
4. `WebGateway` - done, proved: sessions, log stream, forwarded writes.
5. `MihomoVersions` - done, proved: files, configuration, running core and the task shown.
6. `LatestWins`, an abstract specification, and `Reconciler`, which implements it -
   done, proved.
7. `Subscriptions` - done, proved; it takes what `Reconciler` promises as one step.
8. `NodesPage` - done, proved: the terminal UI's page of nodes, over the manager and the core.
9. Theorems: done for every safety invariant and every action property that a run
   checks, see *Proofs*.  Next the refinements of item 10.
10. Abstract specifications still worth stating: `TunRules` (installed, absent or
   claimed), which `TunRouting` implements and which `CoreProcess` and
   `ManagerControl` use; an atomic register for `ConfigStore` between crashes.

Every module has parameters as CONSTANTS with a named assumption, an `MC` module
and one or two `.cfg` files (`LatestWins` is used by `Reconciler` only), one action per step of the code, and no RECURSIVE
operator, so that it can be proved about.

## The modules

### ConfigStore

`mem` is `globalConfig`, `main` the public file, `sec` the private file.  A body
stands for everything in the public file, a secret for everything in the private
one.  `commitConfigLocked` computes the next configuration and hands it to
`Flush`, modelled by its two writes, each of which may fail before its rename
(nothing changed) or after it (changed, and an error all the same).
`LoadConfig` merges the files, flushes when there was no file or a secret was
inline (`Loads`), and falls back to defaults when the file cannot be read
(`degraded`).  `LoadUnreadableSecrets` goes on without the private file, with an
inline secret or without one: the code only warns.
`Crash` is possible everywhere.  `configMu` is held over the whole commit, so one
`flush` at most is in flight.

* `RestartKeepsCommitted`, `VersionIdentifiesContent`, `MigrationKeepsSecret` are
  the safety properties; the first two hold until a load was degraded.  The third
  says what may become of the private values while a load rewrites the files.  It has
  an exception too: when `config.yaml` has an inline secret and the private file
  cannot be read, the migration writes the inline secret over that file
  (`config.go:400-403` with `465-471`), and what it held is lost.  The property then
  only says that it is the inline secret the next load finds.

The comments of `commitConfigLocked` and `UpdateGlobalConfig` (`config_store.go:31`
and `48`) say that after a failure in any step memory *and disk* keep the old
value.  The disk does not: `writeRuntimeSecrets` may have replaced the private
file, or a rename may have been followed by a failing `chmod`.  That is why
`RestartKeepsCommitted` is not an equality: a restart may find the refused change.

Bounds: two clients, two bodies, two secrets beside the empty one, versions up
to 3.  Two clients and two bodies are what a lost update takes; three commits
allow a late failure, a retry and a restart in one behaviour.

### TunRouting

`policy` holds the route and the rules in the kernel, `legacy` the parts of the
legacy iptables set, `marks` the installations whose identifier is in the nft
table, `foreign` rules of somebody else in a table of the same name, `oldChains`
what an old version left.  `file` is the state file.  A call goes through the
steps of `setupTUNRoutingLocked` or `cleanupTUNRoutingLocked`; every command has
an outcome of its own.  A part of the legacy set is several commands, and counts
as there when some of it may be.  `Crash`, `Reboot`, `SwitchBackend` and
`ForeignTable` are the environment.  `verifyTUNRouting` runs commands and looks
at their exit status only, which is what `Activate` does.  Commands have no
timeout in the code, so a command that fails has done nothing.

* `ClaimedByFile`, `Reclaimable`, `SetupOkMeansComplete`, `RestoreOkMeansClean`:
  safety.  Where firewall objects are concerned they except behaviours in which
  the firewall tools changed under an installation (`switched`): the code cannot
  clean up with tools it does not have, and cleans only what it has tools for.
* `RestoreEventuallyCleans`: once commands work (`calm`) and restores are called
  again and again, everything goes.  Fairness: a call that has begun runs on
  (`WF_vars(Step)`), since its commands end; that restores are called is a
  premise of the property, not of the specification.

A comment (`tun_routing_linux.go:638`) says that a table of the same name that is
somebody else's cannot be removed.  It can: `add table` adds to a table that
exists, which then has the identifier and goes with the next cleanup.  The
properties name `foreign` where that matters.

Bounds: two policy rules (the code has five, all treated alike; two is what an
order and a half-done loop take) and two installations, so that an identifier
can be out of date.

### CoreProcess

Each process is a generation.  `mu` is the mutex, `running` and `cur` the fields
it protects, `waiter` the goroutine of a generation, `exited` its channel.
`Start` holds the mutex from its check to the spawn; the goroutine and `Stop`
hold it for one step.  `SettleTimer`, `TermTimeout` and `KillTimeout` may happen
whenever their wait lasts.  Installing and removing the rules is one step, which
may fail, because the installer's own lock serialises them.

* `NoOrphan`: a live process is the one `Stop` would signal.
* `RulesFollowCore`: a TUN core has its rules as long as it lives, if no removal
  from an earlier life was still to run when they were installed (`overlap` records
  that), and nothing stays behind when all is over.
* `CallsReturn`: every call returns.  Fairness: goroutines run and timers fire
  (weak fairness of `Run` and `Wait`), a killed process ends, and a mutex is
  handed to every waiter in the end (strong fairness of `Lock`, `ClearRunning`;
  Go's mutex is starvation-free).
* `TunProcessProtected` drops the condition.  It fails with one caller: a core
  crashes, its goroutine clears `running`, the caller starts a new core with its
  rules, and the goroutine removes them.

Bounds: two callers and two processes (`MaxGen`), what the overlap of an old and
a new life takes; the claim needs one caller only.

### ManagerControl

`cfg`, `gen` and `run` are the three copies of the settings, `core` the unit's
state with systemd's delayed restart, `rules` the installer's promise.  A handler
moves through its steps by `pc`; `kind`, `before`, `want` and `up` are its local
variables.  `Faults` are the kinds of failure; `seen`, `nf` and `blind` record
them.  A handler is *blind* once it took a core that is up, or that systemd is
about to restart, for a stopped one, because a state query or a health check
failed or came in the restart delay: the code discards these errors, its
documentation tells clients to look at `state_query_ok`.

* `OkAnswerHolds`: an answer 200 is true unless the handler was blind.
* `SingleFailureAgrees`: after any single failure the committed and the generated
  settings agree when the answer is out, and those of the core with them, unless the
  handler was blind.  One failed query is enough to blind it: a TUN change is then
  committed and generated, not reloaded, and answered 200 (`manager_api.go:321`).
* `SingleFailureProtects`: most single failures leave a TUN core protected; the
  property names those that do not.
  `TunCoreProtected`, the code's own rule, does not hold without them: when the
  readback times out after TUN was switched off, the rollback reloads TUN first and
  sets the rules up afterwards, when the installer refuses because a TUN device is
  there, and the error is dropped (`manager_api.go:308`).

Bounds: two ports, two failures in a behaviour.  One failure in a step and one
in the rollback is the worst a single request meets.  Requests follow each other
without bound.  `ProxyMode`, which a TUN request sets to `rule`, is `rule`
throughout: the daemon sees to it when it starts.

### Profiles

`mem` and `disk` are the profile part of the configuration, in memory and in
`config.yaml`: the entries in their order, the active one, and the pool's active
member.  `cache` holds the cache files, `gen` the profile that the generated core
configuration reads, `core` what a core that is up has loaded.  A request moves
through its steps by `pc`: it begins (an import and an update write a cache file
at once), commits, and when the active profile is concerned goes on to generate,
query and reload.  A step that fails leads to the steps that undo the earlier
ones; each has the outcomes *works*, *fails* and *late* (the effect is there and
an error is reported).  A commit is one step, for `ConfigStore` has its insides.
The code ignores the errors of a rollback, and `hidden` records that it has;
`crashed` records that the manager died within a request.  The core starts and
stops by itself, and so does the manager.

* `CacheMatchesProfile`, `GeneratedIsActive` and `AppliedReachesCore` relate the
  five places a profile is in: entry, cache, generated file, core, answer.
* `ErrorMeansUnchanged` and `RollbackReachesCore` are what an error answer means.
* `OthersUntouched` is an action property: a request changes its own profile only.

A comment in the rollback of an update (`manager_profiles.go:293`) says that disk
and core are guaranteed to agree after it.  They are not when the reload after the
old content is back fails as the first one did: its error is ignored, and the
state is `hidden` here.

Bounds: two identifiers, two names, two contents.  Two profiles are what an
active one beside another takes, with removals before, at and behind it; a third
makes the state space too large for a run of minutes.  Fetching and converting a
subscription come before any change and have no state.

### LogRecorder

`enabled`, `open`, `size` and `reader` are the recorder's fields, `files` the
current file and the older ones, `loop` and `cancelled` the goroutines.  Each
goroutine subscribes, scans, writes under the mutex, and backs off when something
failed.  `Shifted` is what a rotation has done to the files when it ends after
some of its renames.  The request that switches recording commits the setting,
applies it, waits for the old goroutine or two seconds, and takes the commit back
when the file cannot be opened; the daemon's start resumes what was enabled.
Lines have length 1, so that one longer than a file, which the code writes to a file
of its own over the limit (`manager_logging.go:199`), is outside the model; they are numbered round a circle that has one number more than
the files have room for, which keeps the state space finite without a bound on
the lines written.

* `NewestKept`: the files hold the last lines in their order and without a gap,
  however rotations have ended, and no file outgrows its limit.
* `SettingFollowed`: the setting is followed over failures and restarts.
* `ReadersStop`, `RecordingGoesOn`: liveness, once recording is off, and once the
  core serves its logs and the disk works (`calm`).  Fairness: goroutines run,
  timers fire, a cancelled stream ends; a line arrives in the end only when it is
  calm, for a core may be silent.

`RecordingGoesOn` has the premise that the recorder has a file.  After a rotation
that failed it has none, counts as enabled all the same, and `Apply` takes it for
done: it records nothing until it is switched off and on, which
`docs/UI_CONTROL_TREE.zh-CN.md` (`LOG-003`, the file grows with the traffic) does
not expect.

Bounds: two lines a file and two older files, so that a rename in the middle can
fail; two goroutines, an old one and the new.  An enabling that would need a third
is not modelled.

### WebGateway

`session` says of each token whether it was issued, is in the gateway's map or has
left it, `signals` how often its `Done` channel was closed, `age` whether it is
idle too long or past its end.  A handler is at `pc[q]` with the session `sid[q]` it
was admitted with; between two steps of one handler any other may end that
session.  The log stream is its handler (`Stop`, `Tick`, `TakeItem`, `Emit`: the
cases of its `select`), its reader (`ReadLine`, `Send`, `UpstreamBreaks`) and the
channel `items`.  Events are numbered as they are read; `seen` are those the
browser was sent.  A forwarded write is `job` as the manager has handled it and
`told` as the browser knows it; `ManagerActs` may come after `Answer`.  Of the
manager's handlers it keeps how they end: applied (200), refused with nothing done
or given up with effects (*partly*; both are 4xx, as the port handler's 400 of a
commit that failed late and its 409 after a rollback), or failed (5xx).  The gateway
hands both kinds of 4xx on as conflicts.

* `SessionsEndOnce`: `Done` is closed exactly once for a session that left the map
  (twice would panic), by whichever of logout, expiry, login and `Close` come together.
* `NothingLostSilently`: seen, about to be emitted, in the channel and in the
  reader's hand together are what was read, in order.
* `AnswersAreTrue`: a success was applied; a conflict is one the manager has given
  up and will do no more for, though effects may remain, as
  `docs/WEB_API.zh-CN.md:43` tells the clients; *busy* was never sent; what failed in
  the manager, or is still at work, is told as *unknown* and nothing else; and a second
  write reaches the manager beside the first only after *unknown* was answered.
* `StreamsEnd`: handler and reader end with the session, the gateway or the browser.

Fairness: a cancelled request or send returns, the `select` of a stream chooses its
stop or its ticker in the end (strong fairness: other cases may be ready as well),
and a write to the browser has a deadline.  Nothing is assumed of the manager, the
core or the browser.

Bounds: two handlers, one stream at a time (streams meet only in the sessions), two
tokens each issued once, one session at a time in the map so that the limit is met,
a channel of one and two lines.  Password and external mode are allowed at
once, and the limit of logins in a minute is a choice to refuse one.

### MihomoVersions

`bin` holds the binary in each version's directory, `unpacked` and `manual` those of
a download and of the user, `legacy` that of a former installation; `active`, `path`
and `listed` are committed; `core` is what runs; `lock` is `mihomoVersionOpMu`;
`task` is the progress shown.  An actor is a handler or a download's goroutine.  A
binary is the version it reports to be, or broken.  What an activation does outside
the lock (reading what to go back to, restarting, going back) are steps of their own.
`Crash` is possible everywhere.

* `VersionsAreWhatTheySay`: nothing half written or of another version is ever in a
  version's place, to be taken for downloaded later.
* `ActiveIsInstalled`: the active version is there and is what is started.
* `ActivationHolds`: an activation nobody interferes with (`quiet`) has done what it
  answers, or has restored what was.
* `TaskShownIsAlive`: what is shown as running is run by somebody; otherwise every
  later download would be refused.

What the model shows besides, and the properties except.  The way back of a failed
activation commits the old version without the lock, so that a version deleted
meanwhile becomes active again (`raced`).  An upgrade reports *done* before it
activates, so that a second task may start, whose progress the first one's last
report then ends.  An import whose commit fails removes the user's binary
(`mihomo_versions.go:518`).  An upgrade leaves a running core as it is.  A commit works
or fails here; one that is on disk and reports an error all the same is left to
`ConfigStore` and `Profiles`.

Bounds: sources list both versions; two versions and two actors, either of which is any of the others by
symmetry; an active version, another to replace it, and one actor in the way of
another are all that the hazards take.

### LatestWins and Reconciler

`LatestWins` is the abstract specification: a configuration is committed; the core
moves forward to one that is committed; whoever is answered *applied* is answered of
something that runs and never goes back.

In `Reconciler`, a version stands for a committed configuration and `tunAt` for its
TUN setting; `file` and `core` are the versions the generated file and the core are
of.  `queue` is `reconcileCh`, `worker` the step, the request and the result so far
of `reconcileLoop`.  A caller commits, sends (and blocks while the channel is
full), waits, times out.  The worker's stages follow `runReconcile`: generate, look
whether the core runs, set up TUN rules, reload or else restart, remove rules,
report; each may fail, and a panic ends the request but not the loop.  Others start
and stop the core.  It ends in two steps, as in `CoreProcess`: `CoreEnds` clears
`running`, and `RulesRemoved` is its waiter's removal of the rules it was started with,
at any time later, whoever has started the core by then.  `leaving` counts the waiters
that have still to do so; generations are not told apart here.

* `Refines`: with `committed <- version` and `running <- ` what the core runs or would
  be started from, `Reconciler` implements `LatestWins`, restarts and all.
* `SettledMeansLatest`: when nothing is under way and the last request was not
  refused, file and core are of the newest version.
* `TunCoreIsGuarded`: a core that has settled in TUN mode has its rules, unless a step
  failed, two TUN changes were under way at once, or the core was started while a
  waiter had still to remove the rules of an earlier life (`doubt`).
* `SubmittersReturn`: whoever has committed gets an answer.

`doubt` covers two faults of the code.  One is that of `CoreProcess`: the waiter
releases the mutex before it removes the rules (`mihomo_process.go:168-187`), so that a
`Start` in between loses those it has installed.  The other is in the requests.  A request remembers whether its commit turned
TUN on or off, while the configuration is read when the request is executed.  Two
quick opposite changes can be enqueued in the order other than that of their
commits: the first executed sees the newest setting and its own flag, the second
removes, or does not install, the rules the core now needs.  Nothing repairs it
before the next change of TUN.  Rules that the worker has installed, moreover, are
not removed when the core ends.

Fairness: the worker and a start go on (their requests to the core have deadlines; the
commands that install and remove rules have none, and are taken to end), and a channel
serves blocked senders in their order (strong fairness of `Submit`).  Callers' timers
are not needed: whoever waits gets the report of a worker that goes on.

Bounds: two callers, a queue of one and two commits after the first configuration, so
that requests can be sent in the other order than committed, a caller blocks on a full
queue, and TUN can be switched on and off again or off and on.  Three requests, with two
callers blocked at once, are beyond a run of minutes; the theorems cover the safety
properties for any number.  Two waiters at a time may have rules to remove, so that one
is left when the other is done.  TUN is on or off at first and may be switched by any
commit.  A client's base version is the one it has just read: an older one is refused.

### Subscriptions

`sub` says of each subscription whether it is there, has a cache, and how often it
has failed in a row; `list` and `pool` are the pools.  `loaded` is what the core has
read of each cache: nothing, the current content, an older one, or it is *unknown*
from a request for applying, or a change the code does not apply, to the next
application that works.  Workers are refreshes: each looks its subscription up, downloads
without the lock, looks it up again and stores the result, or counts a failure and
fails over.  Imports and edits come between any two of these steps.  `asked` is a
request at the reconciler.

* `CoreFollowsPools`: when nothing is asked or left unapplied, the core has read the current cache of
  what the enabled pools select, and nothing else.
* `EditsAreLegal`: every subscription can be deleted and every pool be given every
  list of members in every reachable configuration; `Validate` refuses the whole
  configuration otherwise, in every later commit.

What the code does not apply, and the property excepts: deletions of pools and
subscriptions, refreshes of a merging pool's members other than the active one, an
import into a merging pool, a refresh or an import that is cached but cannot be
saved.  Not harmful but surprising: an import over a subscription in another pool is
refused by `Validate` after its cache was overwritten; `POST apply` sets an index
that pools ignore; one enabled pool without a usable source keeps all changes from
being applied; a member's own interval stays in force for the members after it
(`subscription_scheduler.go:42`), and nobody calls the scheduler.

Bounds: two subscriptions, two workers, a pool of each mode, the code's threshold
of 3, so that failures add up and a success between them resets the count.  Subscriptions and workers are symmetric.  A subscription deleted and created
again is another one: what still refreshes the former does not find it.

### NodesPage

`now` is the node the core uses in each group; `mark`, `delay` and `group` are what
the page shows.  `load`, `select` and `test` are the goroutines the page has started,
each with its request's stage: asked, answered, then drawn by the event loop in any
order.  `select` holds the manager's part as well, since the manager goes on with a
selection whose client has waited 60 s (`heard`).  `had` and `agreed` are kept for the
properties only: what the core has ever used, and whether a confirmed switch still
holds.  tview's `SetOptions`, which every load calls, may drop the drop-down's handler;
the model lets the user choose another group all the same.

* `MarkIsTrue`: the mark is only ever on a node the core has really used, and what was
  confirmed stays shown while the core holds to it, unless a load was under way.
* `NoStuckTesting`: a node shown as being tested has a test that will end it.

The control tree wants core and page to agree after a switch, without the exception
(`docs/UI_CONTROL_TREE.zh-CN.md:144`).  The code does not give that: a load answered
before the switch and drawn after it puts the old mark back until the next refresh.
The answer of a switch that comes while another group is shown is not drawn at all
(`ui/nodes.go:209`).

Bounds: two groups, one of which the core switches by itself, two nodes of which one is
tested, for tests of different nodes share nothing; one load, and two selections, one of
them given up.  No fairness: that the buttons come back rests on the client's timeout
alone and is not checked.

## Runs

| Run | Expected | Shows |
| --- | --- | --- |
| `ConfigStore.cfg` | pass | restart, version check and migration over failing writes and kills |
| `TunRouting.cfg` | pass | ownership, completeness, cleanliness; restores work in the end |
| `CoreProcess.cfg` | pass | no lost process, protection, calls return |
| `CoreProcessClaim.cfg` | violation | an old goroutine removes a new core's rules |
| `ManagerControl.cfg` | pass | true answers, rollbacks that suffice against one failure |
| `Profiles.cfg` | pass | entry, cache, generated file and core agree over rollbacks and restarts |
| `LogRecorder.cfg` | pass | newest lines kept, setting followed, recording goes on and ends |
| `WebGateway.cfg` | pass | sessions end once, streams end, no line lost silently, true answers |
| `MihomoVersions.cfg` | pass | versions are what they say, the active one is installed, activation and progress |
| `Reconciler.cfg` | pass | implements `LatestWins`; nothing is forgotten; a settled TUN core has its rules; every caller returns |
| `Subscriptions.cfg` | pass | the core follows the pools; no edit makes them invalid |
| `NodesPage.cfg` | pass | the mark is true, a confirmed switch stays, no node is tested for ever |

Every property of a passing run has a mutant: a plausible wrong version of one
definition (they stand before the definition they replace, marked *Mutant*) under
which TLC finds the property violated.

## Proofs

`ConfigStoreProofs` proves, for all clients, bodies, secrets and versions, type
correctness, `RestartKeepsCommitted`, `VersionIdentifiesContent` and
`MigrationKeepsSecret`.  The inductive invariant adds what the steps in between
rely on: a flush in flight carries the next version (`FlushInFlight`), while a
load is under way memory is what the files merge to (`LoadAgrees`), memory is on
disk or one version behind it (`MemoryOnDisk`), and a client that knows the
version on disk knows its content (`ClientsBehind`): without it a commit whose
error came late, followed by a restart, could bring a version back with another
content.

`TunRoutingProofs` proves, for any set of policy rules and any number of
installations, type correctness, `ClaimedByFile`, `Reclaimable`,
`SetupOkMeansComplete` and `RestoreOkMeansClean`.  The invariant says what a
cleanup without errors has removed by each step (`CleanupProgress`), what a setup
has made sure of (`SetupProgress`), that the tools are those of the state file
(`SameTools`) and which branch runs with which (`ToolsOfStep`).

`CoreProcessProofs` proves, for any callers and any number of processes, type
correctness, `NoOrphan` and `RulesFollowCore`.  A `Start` holds the mutex from its
check to the spawn, and nothing runs meanwhile (`StartHoldsMutex`); a goroutine
waits for its process until it has reaped it, and only the current one may still
have `running` to clear (`WaiterKeepsProcess`): from these two no process is lost.
Whoever needs rules has them, and no removal is pending (`NeededRulesStay`), unless
two lives overlapped; rules that are there have somebody who will remove them
(`RulesAreOwned`).

`ManagerControlProofs` proves, for any ports, any kinds of failure and any number of
them, type correctness, `OkAnswerHolds`, `SingleFailureAgrees` and
`SingleFailureProtects`.  Answers are true since each step belongs to the request its
handler was asked for (`Whose`), the commit and the generated file are ahead of the
core in a fixed order (`Progress`), and a handler that is not blind leaves the reload
out only of a core that is stopped (`NotMisled`).  For a single failure the invariant
says what the three copies are at each step (`CopiesInStep`), what the core is as long
as nothing has failed (`UndisturbedCore`, `Undisturbed`), and that the one failure is
spent when a handler goes back (`BackOnce`): no rollback meets another one.  That the
generated configuration is the committed one, blind or not, needs less and is shown
apart (`GeneratedInStep`, `CommitInv`); `MisledByFailure` ties a blind handler to the failure that misled it.
`RulesInStep` adds which rules each step relies on.

The same module proves `SettingFollowed` of `LogRecorder`, the handler that switches
the recorder being one of the manager's, for any number of goroutines and any limits:
`RecorderInStep` says for each step of a request which of configuration, request and
recorder agree, and that the way back is to a recorder that is off.  Type correctness
there includes that at most one goroutine has not been told to end (`LoopsTyped`), and
`NoFileOutgrows` that the size counted in memory is that of the open file, over every
rotation that fails half way (`FilesTyped`, `ShiftedBounded`).  `NewestKept` follows from
`LinesInv`: each line is followed by its successor, within a file, from a file to the
next newer one and up to the last line written (`Ordered`), an older file is full or
empty (`FullOlder`), and the lines that the property counts are in files without a gap
between them (`Enough`).

`ProfilesProofs` proves, for any profiles, names and contents, type correctness and
the invariants of the run.  For `ErrorMeansUnchanged` the invariant says that memory
and disk differ only after an error nobody noticed (`DiskFollows`), that the snapshot
is in memory in every step after it was restored (`SnapshotKept`), that the cache file
is what it was in every step after it was undone (`FilesBack`), and that only an update
looks at the core once more (`OnlyUpdatesRebuild`).  `RollbackReachesCore` is inductive
as it stands.  For the others: a request is about a profile that its snapshot has, or
for an import has not (`RequestOK`); each entry has its file with its digest's content,
but for the entry of an update between the file's replacement and the commit or the
undoing (`CacheInStep`), and so has the snapshot while it may come back
(`SnapshotCached`); what an update puts back is what the old entry has the digest of
(`OldIsOld`); the generated file is the active profile's but between a commit and
the next generation (`GeneratedInStep`); a deleted profile is not the active one
(`DeletedGone`), which is why removing its file does not change what the core has
loaded.  Lemmas about sequences of entries say what removing, replacing and
appending one do, so that each edit of the configuration is characterised once
(`EditTyped`, `EditEntries`, `EditKeepsActive`, `EditOthers`).  `OthersUntouched`
holds of a rollback too since, at every step, memory and snapshot agree about the
profiles that the request does not name (`OthersKept`).  Type correctness includes that what is
committed passes `Validate` with the pool of its active profile.

`ClientProofs` proves of the web gateway, for any requests, tokens, events and places in the channel,
type correctness, `SessionsEndOnce`, `NothingLostSilently` and `AnswersAreTrue`.
Sessions leave the map in one step with their signal, whatever the step is
(`SessionsStep`).  Of the stream: one is relayed at a time and leaves nothing to the next
(`StreamsApart`), and what handler and reader hold goes with where they are
(`HeldByStep`).  Of a write: result and answer go with where its handler is, and each
of the two places is taken by one handler (`WritesOK`).

It also proves, for any groups, nodes, loads and selections, `MarkIsTrue` and
`NoStuckTesting` of `NodesPage`, the manager's other client.  The two depend on what
answers carry while they are under way (`ReadIsTrue`): a load that has been read, and
a selection that has been confirmed, name what the core has really used, and a load
read since a confirmed switch agrees with it for as long as the core does.

`MihomoVersionsProofs` proves, for any versions and any number of handlers and
goroutines, type correctness and the four invariants of the run.  The lock is held
between the halves of an operation (`WorkIsLocked`), version and path are committed and
restored together (`PathIsActive`), what is removed is not active
(`RemovedIsInactive`), the migration comes before everything else (`StartsFirst`), and
`Undisturbed` says how far an activation that is alone has come.

`ReconcilerProofs` proves, for any callers, any capacity of the channel and any number
of versions, type correctness, that `Reconciler` implements `LatestWins` (`Refines`),
`SettledMeansLatest` and `TunCoreIsGuarded`.  For the refinement nothing is newer than
what it was made from, and a request the worker has read the configuration for is
covered by the file (`Ordered`); then a commit is a commit, a generation, a reload or
a start of the core a step of `Apply`, a report one of `Answer`, and all else a stutter.
For the second, a request carries the name of a caller who waits (`Awaited`), what is not
in the file is on its way to the worker (`FileIsNewest`) and a core that has not loaded
the file is about to (`CoreIsNewest`).  For the third, a change of TUN under way
is to the setting of the newest version unless there is doubt (`ChangeIsCurrent`), and
file, core and rules follow the setting but for that change (`SettingFollows`); a
waiter with rules to remove finds no core that would lose them (`NoneLeaves`).

The same module proves, for any subscriptions, pools, workers and threshold, that every
configuration `Subscriptions` saves is valid, `EditsAreLegal` and `CoreFollowsPools`; the
reconciler is what applies them.  That edits are legal takes more than what `Validate` asks: a
pool with members has chosen one (`Chosen`), and pools and subscriptions that are gone
have left nothing (`Unlisted`, `Unused`).  What remains of a list without some of its
members is found by rank (`Ranks`, `WithoutIs`), so that a deletion and a move are
characterised once (`RemoveKeeps`, `AssignKeeps`).  That the core follows then is
inductive: for each change that is not applied, what the pools select is the same
before and after (`ImportFollows`, `FetchedFollows`), which for an import rests on
`Validate` letting a subscription be in one pool only (`UsersAre`).

The inductive invariants were checked by TLC on the runs' instances first.  The
assumptions are the constants' ones, which TLC evaluates in the runs: `ConstantsOK`,
`TunConstantsOK`, `CoreConstantsOK`, `ManagerConstantsOK`, `ProfileConstantsOK`,
`GatewayConstantsOK`, `VersionsConstantsOK`, `ReconcilerConstantsOK`,
`NodesPageConstantsOK`, `RecorderConstantsOK` and `SubscriptionsConstantsOK`.  They say that
bounds are numbers, that the names of *nobody* and *nothing* are no member's, and that
there is somebody to act where it matters.

Only model-checked are the liveness properties
`RestoreEventuallyCleans`, `CallsReturn`, `ReadersStop`, `RecordingGoesOn`,
`StreamsEnd` and `SubmittersReturn`, since the prover handles neither fairness nor
ENABLED.  The claim `TunProcessProtected` is false, as its run shows.  No module has a
RECURSIVE operator.

## Not modelled

Web service control (`manager_web.go`) is a sequence of `systemctl` calls under a
file lock, with nothing in the program to interleave with it.  The deployment
script could, and does not take the lock, though `docs/MANAGER_API.zh-CN.md` says
that the lock is shared.

The contents of generated files, of subscriptions and of messages: the models keep
what the properties tell apart.  Fetching and converting a subscription, the quotas
shown, PATCH of a subscription's name or address (a download under way when the
address changes stores the old address's content), a change of a pool's mode, the
choice among a version's assets, geo data and rule sets.  Of the gateway: static
files, headers, the allow-list of routes and the counting of logins.  The IPC
transport, whose requests and answers are the first and the last step of a
handler.  The handlers that only pass a question on to the core.  The terminal UI's
other pages, the front end and the scripts: views and sequential commands without
state that others depend on.  The manager with the core as a child process is `CoreProcess`
and `Reconciler`: the control handlers over it would be `ManagerControl` with other
start, stop and crash steps.
