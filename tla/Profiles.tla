------------------------------ MODULE Profiles ------------------------------
(***************************************************************************)
(* The profiles of the manager (mihomotui/manager_profiles.go, with the    *)
(* profile part of config.go, config_validate.go, subscription_pool.go and *)
(* mihomo_config.go).                                                      *)
(*                                                                         *)
(* A profile is an entry of the configuration and a cache file with its    *)
(* content.  Importing, activating, updating, renaming and deleting one    *)
(* each change the configuration in one commit; when the active profile is *)
(* concerned the configuration of the core is generated anew and a running *)
(* core told to reload it.  A step that fails is answered by undoing the   *)
(* earlier ones, and what fails while undoing is ignored.  actionMu is     *)
(* held from the first step of a request to the last, so there is at most  *)
(* one request; the core starts and stops, and the manager dies, whenever  *)
(* they want.                                                              *)
(*                                                                         *)
(* A commit is one step here (module ConfigStore has its insides): it is   *)
(* done, or fails with nothing changed, or fails when the file is already  *)
(* written.  Fetching comes before any change and is left out, and so are  *)
(* requests refused at once.                                               *)
(***************************************************************************)
EXTENDS Integers, Sequences

CONSTANTS
  Ids,       \* stable profile identifiers; bound on the profiles at one time
  Names,     \* display names
  Contents,  \* what a subscription can contain
  None       \* no profile, no file

ASSUME ProfileConstantsOK == None \notin Ids \cup Contents

VARIABLES
  mem,       \* the profile part of globalConfig
  disk,      \* the same in config.yaml
  cache,     \* the cache file of each profile
  gen,       \* the profile the generated core configuration reads
  core,      \* the core, and what it has loaded
  pc,        \* where the request is
  req,       \* the request
  before,    \* the snapshot taken at its start
  hidden,    \* history: an error was ignored, or reported after its commit
  crashed    \* history: the manager has died during a request

vars == <<mem, disk, cache, gen, core, pc, req, before, hidden, crashed>>

\* SubscriptionMeta: sum is the digest of the content, None without CacheFile.
Profile == [id : Ids, name : Names, sum : Contents \cup {None}]

\* active is ActiveSubscription + 1; pool is the ActiveMemberID of the only
\* pool, None when there is none.
Empty == [subs |-> <<>>, active |-> 0, pool |-> None]

Ops       == {"none", "import", "activate", "update", "rename", "delete"}
NoRequest == [op |-> "none", id |-> None, name |-> None, content |-> None, old |-> None]
Down      == [up |-> FALSE, id |-> None, content |-> None]

\* How a request has ended: changed without the core being concerned; applied
\* to the core, if there is one; the core overlooked; an error.
Answers == {"ok", "applied", "overlooked", "error"}
PCs == Answers \cup
       {"idle", "commit", "generate", "query", "reload", "restore",
        "regenerate", "restore_reload", "regenerate_reload", "reload_old", "undo", "rebuild", "requery", "reload_rebuilt"}

-----------------------------------------------------------------------------
(* The configuration *)

Has(cfg, id)   == \E i \in DOMAIN cfg.subs : cfg.subs[i].id = id
IndexOf(cfg, id) ==
  IF Has(cfg, id) THEN CHOOSE i \in DOMAIN cfg.subs : cfg.subs[i].id = id ELSE 0
Meta(cfg, id)  == cfg.subs[IndexOf(cfg, id)]

\* normalizeProfilePool: one pool, and its active member is the active profile.
normalizeProfilePool(subs, active) ==
  IF subs = <<>> THEN Empty
  ELSE [subs |-> subs, active |-> active,
        pool |-> IF active \in DOMAIN subs THEN subs[active].id ELSE None]

Without(subs, i) == SubSeq(subs, 1, i - 1) \o SubSeq(subs, i + 1, Len(subs))

\* Mutant: the index is moved when a later profile goes.
RemoveSubscriptionWrongSide(cfg, i) ==
  normalizeProfilePool(Without(cfg.subs, i),
    IF cfg.active < i /\ cfg.active > 0 THEN cfg.active - 1 ELSE cfg.active)

\* RemoveSubscription: the index follows the active profile; when that is the
\* one removed, the next takes its place, or the one before at the end.
RemoveSubscription(cfg, i) ==
  LET left == Without(cfg.subs, i)
  IN normalizeProfilePool(left,
       IF cfg.active > i \/ cfg.active > Len(left) THEN cfg.active - 1 ELSE cfg.active)

\* Validate, and the checks in the handlers' closures: identifiers and names
\* are unique, the index in range, the active member a profile.
Valid(cfg) ==
  /\ \A i, j \in DOMAIN cfg.subs :
       cfg.subs[i].id = cfg.subs[j].id \/ cfg.subs[i].name = cfg.subs[j].name => i = j
  /\ cfg.active \in 0 .. Len(cfg.subs)
  /\ cfg.pool # None => Has(cfg, cfg.pool)

\* What UpdateGlobalConfig's closure makes of the configuration.
Edit(cfg) ==
  LET i == IndexOf(cfg, req.id) IN
  CASE req.op = "import" ->
         normalizeProfilePool(
           Append(cfg.subs, [id |-> req.id, name |-> req.name, sum |-> req.content]),
           IF cfg.active = 0 THEN Len(cfg.subs) + 1 ELSE cfg.active)
    [] req.op = "activate" -> normalizeProfilePool(cfg.subs, i)
    [] req.op = "update"   -> [cfg EXCEPT !.subs[i].sum = req.content]
    [] req.op = "rename"   -> [cfg EXCEPT !.subs[i].name = req.name]
    [] req.op = "delete"   -> RemoveSubscription(cfg, i)

-----------------------------------------------------------------------------
\* Identifiers are random: an import never meets one that was used before.
Fresh(id) ==
  /\ ~Has(mem, id) /\ ~Has(disk, id)
  /\ cache[id] = None /\ gen # id /\ core.id # id

WellFormed(cfg) ==
  /\ cfg \in [subs : Seq(Profile), active : Nat, pool : Ids \cup {None}]
  /\ Valid(cfg)
  /\ cfg.pool = normalizeProfilePool(cfg.subs, cfg.active).pool

TypeOK ==
  /\ WellFormed(mem) /\ WellFormed(disk) /\ WellFormed(before)
  /\ cache \in [Ids -> Contents \cup {None}]
  /\ gen \in Ids \cup {None}
  /\ core \in [up : BOOLEAN, id : Ids \cup {None}, content : Contents \cup {None}]
  /\ pc \in PCs
  /\ req \in [op : Ops, id : Ids \cup {None}, name : Names \cup {None},
              content : Contents \cup {None}, old : Contents \cup {None}]
  /\ hidden \in BOOLEAN /\ crashed \in BOOLEAN

\* A new installation, or one with a profile of an old version: it has no
\* cache yet, and need not be active.
Init ==
  /\ \/ mem = Empty
     \/ \E id \in Ids, n \in Names, a \in {0, 1} :
          mem = normalizeProfilePool(<<[id |-> id, name |-> n, sum |-> None]>>, a)
  /\ disk = mem
  /\ cache = [id \in Ids |-> None]
  /\ gen = None
  /\ core = Down
  /\ pc = "idle" /\ req = NoRequest /\ before = Empty
  /\ hidden = FALSE /\ crashed = FALSE

-----------------------------------------------------------------------------
(* Requests, up to their commit *)

Begin(r) ==
  /\ pc = "idle"
  /\ req' = r
  /\ before' = mem
  /\ pc' = "commit"

\* The cache file is written first, under an identifier nobody knows yet, and
\* the entry gets a name no other has (uniqueSubscriptionName).
BeginImport(id, n, c) ==
  /\ Begin([NoRequest EXCEPT !.op = "import", !.id = id, !.name = n, !.content = c])
  /\ Fresh(id)
  /\ \A i \in DOMAIN mem.subs : mem.subs[i].name # n
  /\ cache' = [cache EXCEPT ![id] = c]
  /\ UNCHANGED <<mem, disk, gen, core, hidden, crashed>>

BeginActivate(id) ==
  /\ Begin([NoRequest EXCEPT !.op = "activate", !.id = id])
  /\ Has(mem, id) /\ IndexOf(mem, id) # mem.active
  /\ UNCHANGED <<mem, disk, cache, gen, core, hidden, crashed>>

\* The old content is kept if it can be read, and the cache file replaced.
BeginUpdate(id, c, readable) ==
  /\ Has(mem, id)
  /\ Begin([NoRequest EXCEPT !.op = "update", !.id = id, !.content = c,
              !.old = IF readable /\ Meta(mem, id).sum # None THEN cache[id] ELSE None])
  /\ cache' = [cache EXCEPT ![id] = c]
  /\ UNCHANGED <<mem, disk, gen, core, hidden, crashed>>

BeginRename(id, n) ==
  /\ Begin([NoRequest EXCEPT !.op = "rename", !.id = id, !.name = n])
  /\ Has(mem, id)
  /\ UNCHANGED <<mem, disk, cache, gen, core, hidden, crashed>>

\* The last profile stays as long as it is active and the core seen running.
BeginDelete(id, seen) ==
  /\ Begin([NoRequest EXCEPT !.op = "delete", !.id = id])
  /\ Has(mem, id)
  /\ seen => core.up
  /\ ~(Len(mem.subs) = 1 /\ mem.active = 1 /\ seen)
  /\ UNCHANGED <<mem, disk, cache, gen, core, hidden, crashed>>

-----------------------------------------------------------------------------
(* Committing *)

Goto(p) == pc' = p

\* A profile that is gone takes its cache file along, if it can be removed.
Succeed(p) ==
  /\ Goto(p)
  /\ cache' \in IF req.op = "delete" THEN {cache, [cache EXCEPT ![req.id] = None]}
                                     ELSE {cache}

WasActive == before.active # 0 /\ before.pool = req.id

\* Which changes concern the core.
Applies ==
  \/ req.op = "activate"
  \/ req.op = "import" /\ before.active = 0
  \/ req.op = "update" /\ WasActive
  \/ req.op = "delete" /\ WasActive /\ Len(before.subs) > 1

\* Mutant: the cache file goes with the commit, before the core is told.
CommitRemovesCache ==
  /\ pc = "commit"
  /\ Valid(Edit(mem))
  /\ mem' = Edit(mem) /\ disk' = Edit(mem)
  /\ cache' = IF req.op = "delete" THEN [cache EXCEPT ![req.id] = None] ELSE cache
  /\ Goto(IF Applies THEN "generate" ELSE "ok")
  /\ UNCHANGED <<gen, core, req, before, hidden, crashed>>

Commit ==
  /\ pc = "commit"
  /\ Valid(Edit(mem))
  /\ mem' = Edit(mem) /\ disk' = Edit(mem)
  /\ IF Applies THEN Goto("generate") /\ cache' = cache ELSE Succeed("ok")
  /\ UNCHANGED <<gen, core, req, before, hidden, crashed>>

\* Mutant: the files a request has written before its commit stay.
AfterFailedCommitForgets == Goto("error")

AfterFailedCommit == Goto(IF req.op \in {"import", "update"} THEN "undo" ELSE "error")

\* Refused, or nothing written.
CommitFails ==
  /\ pc = "commit"
  /\ AfterFailedCommit
  /\ UNCHANGED <<mem, disk, cache, gen, core, req, before, hidden, crashed>>

\* The new file is in place, and an error reported all the same.
CommitFailsLate ==
  /\ pc = "commit"
  /\ Valid(Edit(mem))
  /\ disk' = Edit(mem)
  /\ hidden' = TRUE
  /\ AfterFailedCommit
  /\ UNCHANGED <<mem, cache, gen, core, req, before, crashed>>

-----------------------------------------------------------------------------
(* Applying: applyProfileConfig *)

\* activePoolSubscriptions: the active member needs a cache file.
CanGenerate ==
  /\ mem.pool # None
  /\ Meta(mem, mem.pool).sum # None /\ cache[mem.pool] # None

\* GenerateMihomoConfig: the file is replaced, or an error; or both.
GenerateMihomoConfig(out) ==
  /\ out # "fails" => CanGenerate
  /\ gen' = IF out = "fails" THEN gen ELSE mem.pool

Outcomes == {"works", "fails", "late"}

\* What the core reads from the disk.
Loaded == [up |-> TRUE, id |-> gen, content |-> IF gen = None THEN None ELSE cache[gen]]

\* ReloadConfigs: an answer may be lost after the core has loaded the file.
ReloadConfigs(out) ==
  /\ out # "fails" => core.up /\ gen # None
  /\ core' = IF out = "fails" THEN core ELSE Loaded

Generate(out) ==
  /\ pc = "generate"
  /\ GenerateMihomoConfig(out)
  /\ Goto(IF out = "works" THEN "query" ELSE "restore")
  /\ UNCHANGED <<mem, disk, cache, core, req, before, hidden, crashed>>

\* Mutant: the core is left to find the new file itself.
QueryNoReload(seen) ==
  /\ pc = "query"
  /\ seen => core.up
  /\ Succeed(IF core.up /\ ~seen THEN "overlooked" ELSE "applied")
  /\ UNCHANGED <<mem, disk, gen, core, req, before, hidden, crashed>>

\* managerStatus: a core that is up may not be seen, for a query may fail.
Query(seen) ==
  /\ pc = "query"
  /\ seen => core.up
  /\ IF seen THEN Goto("reload") /\ cache' = cache
             ELSE Succeed(IF core.up THEN "overlooked" ELSE "applied")
  /\ UNCHANGED <<mem, disk, gen, core, req, before, hidden, crashed>>

Reload(out) ==
  /\ pc = "reload"
  /\ ReloadConfigs(out)
  /\ IF out = "works" THEN Succeed("applied") ELSE Goto("restore_reload") /\ cache' = cache
  /\ UNCHANGED <<mem, disk, gen, req, before, hidden, crashed>>

-----------------------------------------------------------------------------
(* Undoing.  The error of each of these steps is ignored. *)

\* Mutant: the generated file stays that of the rejected configuration.
RestoreConfigOnly(out, p, next) ==
  /\ pc = p
  /\ mem' = IF out = "works" THEN before ELSE mem
  /\ disk' = IF out = "fails" THEN disk ELSE before
  /\ hidden' = (hidden \/ out # "works")
  /\ Goto("undo")
  /\ UNCHANGED <<cache, gen, core, req, before, crashed>>

\* restoreConfigSnapshot commits the snapshot.
restoreConfigSnapshot(out, p, next) ==
  /\ pc = p
  /\ mem' = IF out = "works" THEN before ELSE mem
  /\ disk' = IF out = "fails" THEN disk ELSE before
  /\ hidden' = (hidden \/ out # "works")
  /\ Goto(next)
  /\ UNCHANGED <<cache, gen, core, req, before, crashed>>

\* Generating again.  A configuration without an active profile cannot be
\* generated, and the file then stays that of the rejected one.
RegenerateOld(out, p, next) ==
  /\ pc = p
  /\ GenerateMihomoConfig(out)
  /\ hidden' = (hidden \/ (out = "fails" /\ CanGenerate))
  /\ Goto(next)
  /\ UNCHANGED <<mem, disk, cache, core, req, before, crashed>>

ReloadOld(out, p, next) ==
  /\ pc = p
  /\ ReloadConfigs(out)
  /\ hidden' = (hidden \/ (out = "fails" /\ core.up))
  /\ Goto(next)
  /\ UNCHANGED <<mem, disk, cache, gen, req, before, crashed>>

\* Mutant: the old content is back in its file, and nobody reads it.
UndoFilesOnly(done) ==
  /\ pc = "undo"
  /\ cache' = IF done /\ (req.op = "import" \/ req.old # None)
                THEN [cache EXCEPT ![req.id] = req.old] ELSE cache
  /\ hidden' = (hidden \/ ~done \/ (req.op = "update" /\ req.old = None))
  /\ Goto("error")
  /\ UNCHANGED <<mem, disk, gen, core, req, before, crashed>>

\* The cache file of an import goes, the old content of an update comes back
\* unless it could not be read; and the core is configured once more.
Undo(done) ==
  /\ pc = "undo"
  /\ \/ /\ req.op = "import"
        /\ cache' = IF done THEN [cache EXCEPT ![req.id] = None] ELSE cache
        /\ hidden' = (hidden \/ ~done)
        /\ Goto("error")
     \/ /\ req.op = "update" /\ req.old # None
        /\ cache' = IF done THEN [cache EXCEPT ![req.id] = req.old] ELSE cache
        /\ hidden' = (hidden \/ ~done)
        /\ Goto("rebuild")
     \/ /\ req.op = "update" /\ req.old = None
        /\ hidden' = TRUE
        /\ Goto("error")
        /\ UNCHANGED cache
     \/ /\ req.op \notin {"import", "update"}
        /\ Goto("error")
        /\ UNCHANGED <<cache, hidden>>
  /\ UNCHANGED <<mem, disk, gen, core, req, before, crashed>>

QueryOld(seen) ==
  /\ pc = "requery"
  /\ seen => core.up
  /\ hidden' = (hidden \/ (core.up /\ ~seen))
  /\ Goto(IF seen THEN "reload_rebuilt" ELSE "error")
  /\ UNCHANGED <<mem, disk, cache, gen, core, req, before, crashed>>

Rollback ==
  \E out \in Outcomes :
    \/ restoreConfigSnapshot(out, "restore", "regenerate")
    \/ restoreConfigSnapshot(out, "restore_reload", "regenerate_reload")
    \/ RegenerateOld(out, "regenerate", "undo")
    \/ RegenerateOld(out, "regenerate_reload", "reload_old")
    \/ ReloadOld(out, "reload_old", "undo")
    \/ RegenerateOld(out, "rebuild", "requery")
    \/ ReloadOld(out, "reload_rebuilt", "error")

-----------------------------------------------------------------------------
Return ==
  /\ pc \in Answers
  /\ Goto("idle")
  /\ req' = NoRequest /\ before' = Empty
  /\ UNCHANGED <<mem, disk, cache, gen, core, hidden, crashed>>

\* The handlers that start the core, or change TUN or the port, generate too.
GenerateElsewhere ==
  /\ pc = "idle"
  /\ GenerateMihomoConfig("works")
  /\ UNCHANGED <<mem, disk, cache, core, pc, req, before, hidden, crashed>>

\* The manager dies and is started again.
Restart ==
  /\ Goto("idle")
  /\ mem' = disk
  /\ req' = NoRequest /\ before' = Empty
  /\ crashed' = (crashed \/ pc # "idle")
  /\ UNCHANGED <<disk, cache, gen, core, hidden>>

CoreStarts ==
  /\ ~core.up /\ gen # None
  /\ core' = Loaded
  /\ UNCHANGED <<mem, disk, cache, gen, pc, req, before, hidden, crashed>>

CoreStops ==
  /\ core.up
  /\ core' = Down
  /\ UNCHANGED <<mem, disk, cache, gen, pc, req, before, hidden, crashed>>

Request ==
  \/ \E id \in Ids, n \in Names, c \in Contents : BeginImport(id, n, c)
  \/ \E id \in Ids : BeginActivate(id)
  \/ \E id \in Ids, c \in Contents, readable \in BOOLEAN : BeginUpdate(id, c, readable)
  \/ \E id \in Ids, n \in Names : BeginRename(id, n)
  \/ \E id \in Ids, seen \in BOOLEAN : BeginDelete(id, seen)

Next ==
  \/ Request
  \/ Commit \/ CommitFails \/ CommitFailsLate
  \/ \E out \in Outcomes : Generate(out) \/ Reload(out)
  \/ \E seen \in BOOLEAN : Query(seen) \/ QueryOld(seen)
  \/ Rollback
  \/ \E done \in BOOLEAN : Undo(done)
  \/ Return
  \/ GenerateElsewhere
  \/ Restart \/ CoreStarts \/ CoreStops

Spec == Init /\ [][Next]_vars

-----------------------------------------------------------------------------
(* Properties *)

Idle == pc \in Answers \cup {"idle"}

\* Every profile with a cache has its file, and between two requests with the
\* content its digest was computed from, as long as no rollback has gone wrong
\* unnoticed and the manager has not died in between.
CacheMatchesProfile ==
  ~hidden =>
    \A cfg \in {mem, disk} : \A i \in DOMAIN cfg.subs :
      LET s == cfg.subs[i] IN
      s.sum # None => /\ cache[s.id] # None
                      /\ Idle /\ ~crashed => cache[s.id] = s.sum

\* Between two requests the generated configuration is that of the active
\* profile, if it can be generated at all: a rejected change leaves no trace
\* in it, and nothing the core might start from is older than the answer.
GeneratedIsActive ==
  Idle /\ ~hidden /\ ~crashed /\ CanGenerate => gen = mem.pool

\* "applied": a running core has loaded the active profile's present content,
\* and a core that starts later does.
AppliedReachesCore ==
  pc = "applied" => /\ gen = mem.pool
                    /\ core.up => core = Loaded

\* An error means that nothing has changed, unless a rollback went wrong.
ErrorMeansUnchanged ==
  pc = "error" /\ ~hidden =>
    /\ mem = before /\ disk = before
    /\ req.op = "import" => cache[req.id] = None
    /\ req.op = "update" => cache[req.id] = req.old

\* s is a profile of the configuration, and t one that comes after it, or s itself.
InOrder(cfg, s, t) ==
  \E i, j \in DOMAIN cfg.subs : i <= j /\ cfg.subs[i] = s /\ cfg.subs[j] = t

\* Entries are unique: these are the same other profiles in the same order.
SameOthers(a, b, id) ==
  \A s, t \in Profile : s.id # id /\ t.id # id => (InOrder(a, s, t) <=> InOrder(b, s, t))

\* A request touches the profile it names and no other: their entries, their
\* order and, as long as they stay, which of them is active.
OthersUntouched ==
  [][pc' # "idle" =>
       /\ SameOthers(mem', mem, req.id)
       /\ pc = "commit" /\ mem'.pool # mem.pool =>
               \/ mem.pool \in {None, req.id}
               \/ req.op = "activate" /\ mem'.pool = req.id]_vars

\* After an update that failed the core agrees with the disk, unless a step of
\* the rollback failed or did not see the core.
RollbackReachesCore ==
  pc = "error" /\ req.op = "update" /\ ~hidden => (core.up => core = Loaded)

=============================================================================
