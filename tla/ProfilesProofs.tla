--------------------------- MODULE ProfilesProofs ---------------------------
(***************************************************************************)
(* What an error answer of the profile handlers promises; that the cache   *)
(* files and the generated configuration keep up with the profiles; that   *)
(* an applied change has reached the core; and that a request leaves the   *)
(* other profiles alone: for any sets of profiles, names and contents.     *)
(***************************************************************************)
EXTENDS Profiles, SequenceTheorems, TLAPS

\* Where a request is, and the files it may have written.
Files ==
  /\ cache \in [Ids -> Contents \cup {None}]
  /\ pc # "idle" => req.id \in Ids /\ req.old \in Contents \cup {None}

\* Memory and disk differ only after an error nobody noticed.
DiskFollows == ~hidden => disk = mem

\* The steps of a rollback that come after the snapshot is restored.
Restored == {"regenerate", "regenerate_reload", "reload_old", "undo",
             "rebuild", "requery", "reload_rebuilt", "error"}

SnapshotKept ==
  ~hidden => (pc = "commit" \/ pc \in Restored => mem = before)

\* The steps of a rollback that come after the cache file is undone.
Undone == {"rebuild", "requery", "reload_rebuilt", "error"}

FilesBack ==
  ~hidden /\ pc \in Undone =>
    /\ req.op = "import" => cache[req.id] = None
    /\ req.op = "update" => cache[req.id] = req.old

\* Only an update is followed by a last look at the core.
OnlyUpdatesRebuild ==
  pc \in {"rebuild", "requery", "reload_rebuilt"} => req.op = "update"

IInv == Files /\ DiskFollows /\ SnapshotKept /\ FilesBack /\ OnlyUpdatesRebuild

-----------------------------------------------------------------------------
LEMMA InitIInv == Init => IInv
  BY DEF Init, IInv, Files, DiskFollows, SnapshotKept, FilesBack, OnlyUpdatesRebuild,
         Restored, Undone

\* A new request has its snapshot.
LEMMA RequestIInv == IInv /\ Request => IInv'
  <1> SUFFICES ASSUME IInv, Request PROVE IInv'
    OBVIOUS
  <1> USE DEF IInv, Files, DiskFollows, SnapshotKept, FilesBack, OnlyUpdatesRebuild,
              Restored, Undone, Begin, NoRequest
  <1>1. CASE \E id \in Ids, n \in Names, c \in Contents : BeginImport(id, n, c)
    BY <1>1 DEF BeginImport
  <1>2. CASE \E id \in Ids : BeginActivate(id)
    BY <1>2 DEF BeginActivate
  <1>3. CASE \E id \in Ids, c \in Contents, readable \in BOOLEAN : BeginUpdate(id, c, readable)
    BY <1>3 DEF BeginUpdate
  <1>4. CASE \E id \in Ids, n \in Names : BeginRename(id, n)
    BY <1>4 DEF BeginRename
  <1>5. CASE \E id \in Ids, seen \in BOOLEAN : BeginDelete(id, seen)
    BY <1>5 DEF BeginDelete
  <1> QED
    BY <1>1, <1>2, <1>3, <1>4, <1>5 DEF Request

\* A step of a rollback restores the snapshot or ignores an error.
LEMMA RollbackIInv == IInv /\ Rollback => IInv'
  <1> SUFFICES ASSUME IInv, NEW out \in Outcomes,
                      \/ restoreConfigSnapshot(out, "restore", "regenerate")
                      \/ restoreConfigSnapshot(out, "restore_reload", "regenerate_reload")
                      \/ RegenerateOld(out, "regenerate", "undo")
                      \/ RegenerateOld(out, "regenerate_reload", "reload_old")
                      \/ ReloadOld(out, "reload_old", "undo")
                      \/ RegenerateOld(out, "rebuild", "requery")
                      \/ ReloadOld(out, "reload_rebuilt", "error")
               PROVE IInv'
    BY DEF Rollback
  <1> USE DEF IInv, Files, DiskFollows, SnapshotKept, FilesBack, OnlyUpdatesRebuild,
              Restored, Undone, Goto
  <1>1. CASE \/ restoreConfigSnapshot(out, "restore", "regenerate")
             \/ restoreConfigSnapshot(out, "restore_reload", "regenerate_reload")
    BY <1>1 DEF restoreConfigSnapshot, Outcomes
  <1>2. CASE \/ RegenerateOld(out, "regenerate", "undo")
             \/ RegenerateOld(out, "regenerate_reload", "reload_old")
             \/ RegenerateOld(out, "rebuild", "requery")
    BY <1>2 DEF RegenerateOld
  <1>3. CASE \/ ReloadOld(out, "reload_old", "undo")
             \/ ReloadOld(out, "reload_rebuilt", "error")
    BY <1>3 DEF ReloadOld
  <1> QED
    BY <1>1, <1>2, <1>3

LEMMA StepIInv == IInv /\ [Next]_vars => IInv'
  <1> SUFFICES ASSUME IInv, [Next]_vars PROVE IInv'
    OBVIOUS
  <1> USE DEF IInv, Files, DiskFollows, SnapshotKept, FilesBack, OnlyUpdatesRebuild,
              Restored, Undone, Goto
  <1>1. CASE Request
    BY <1>1, RequestIInv
  <1>2. CASE Commit
    <2>1. cache' \in [Ids -> Contents \cup {None}]
      BY <1>2 DEF Commit, Succeed
    <2>2. pc' \in {"generate", "ok"} /\ disk' = mem' /\ UNCHANGED <<req, hidden>>
      BY <1>2 DEF Commit, Succeed
    <2> QED
      BY <2>1, <2>2, <1>2 DEF Commit
  <1>3. CASE CommitFails \/ CommitFailsLate
    BY <1>3 DEF CommitFails, CommitFailsLate, AfterFailedCommit
  <1>4. CASE \E out \in Outcomes : Generate(out)
    BY <1>4 DEF Generate
  <1>5. CASE \E out \in Outcomes : Reload(out)
    <2>1. cache' \in [Ids -> Contents \cup {None}]
      BY <1>5 DEF Reload, Succeed
    <2>2. /\ pc' \in {"applied", "restore_reload"}
          /\ UNCHANGED <<mem, disk, req, hidden>> /\ pc = "reload"
      BY <1>5 DEF Reload, Succeed
    <2> QED
      BY <2>1, <2>2
  <1>6. CASE \E seen \in BOOLEAN : Query(seen)
    <2>1. cache' \in [Ids -> Contents \cup {None}]
      BY <1>6 DEF Query, Succeed
    <2>2. /\ pc' \in {"applied", "overlooked", "reload"}
          /\ UNCHANGED <<mem, disk, req, hidden>> /\ pc = "query"
      BY <1>6 DEF Query, Succeed
    <2> QED
      BY <2>1, <2>2
  <1>7. CASE \E seen \in BOOLEAN : QueryOld(seen)
    BY <1>7 DEF QueryOld
  <1>8. CASE Rollback
    BY <1>8, RollbackIInv
  <1>9. CASE \E done \in BOOLEAN : Undo(done)
    <2> SUFFICES ASSUME NEW done \in BOOLEAN, Undo(done) PROVE IInv'
      BY <1>9
    <2>1. /\ pc = "undo" /\ req.id \in Ids /\ UNCHANGED <<mem, disk, before, req>>
          /\ req.old \in Contents \cup {None}
      BY DEF Undo
    <2>2. CASE ~done \/ hidden
      <3>1. cache' \in [Ids -> Contents \cup {None}] /\ pc' \in {"rebuild", "error"}
        BY <2>1, <2>2 DEF Undo
      <3> QED
        BY <2>1, <2>2, <3>1 DEF Undo
    <2>3. CASE done /\ ~hidden
      BY <2>1, <2>3 DEF Undo
    <2> QED
      BY <2>2, <2>3
  <1>10. CASE Return \/ GenerateElsewhere \/ Restart
    BY <1>10 DEF Return, GenerateElsewhere, Restart
  <1>11. CASE CoreStarts \/ CoreStops \/ UNCHANGED vars
    BY <1>11 DEF CoreStarts, CoreStops, vars
  <1> QED
    BY <1>1, <1>2, <1>3, <1>4, <1>5, <1>6, <1>7, <1>8, <1>9, <1>10, <1>11 DEF Next

\* An error answer means that configuration, disk and cache files are those of
\* before the request, unless a step of the rollback has failed.
THEOREM ErrorMeansUnchangedHolds == Spec => []ErrorMeansUnchanged
  <1>1. IInv => ErrorMeansUnchanged
    BY DEF IInv, DiskFollows, SnapshotKept, FilesBack, Restored, Undone, ErrorMeansUnchanged
  <1> QED
    BY <1>1, InitIInv, StepIInv, PTL DEF Spec

-----------------------------------------------------------------------------
\* No step makes a core that agrees with the disk after a failed update
\* disagree with it, or ends the rollback without having told it.
LEMMA StepReachesCore == RollbackReachesCore /\ [Next]_vars => RollbackReachesCore'
  <1> SUFFICES ASSUME RollbackReachesCore, [Next]_vars,
                      pc' = "error", req'.op = "update", ~hidden', core'.up
               PROVE core' = Loaded'
    BY DEF RollbackReachesCore
  <1> USE DEF RollbackReachesCore, Goto, Loaded
  <1>1. CASE Request
    BY <1>1 DEF Request, BeginImport, BeginActivate, BeginUpdate, BeginRename, BeginDelete, Begin
  <1>2. CASE Commit \/ CommitFails \/ CommitFailsLate
    BY <1>2 DEF Commit, CommitFails, CommitFailsLate, AfterFailedCommit, Succeed
  <1>3. CASE \/ \E out \in Outcomes : Generate(out) \/ Reload(out)
             \/ \E seen \in BOOLEAN : Query(seen)
    BY <1>3 DEF Generate, Reload, Query, Succeed
  <1>4. CASE \E seen \in BOOLEAN : QueryOld(seen)
    BY <1>4 DEF QueryOld
  <1>5. CASE Rollback
    <2> SUFFICES ASSUME NEW out \in Outcomes, ReloadOld(out, "reload_rebuilt", "error")
                 PROVE core' = Loaded'
      BY <1>5 DEF Rollback, restoreConfigSnapshot, RegenerateOld, ReloadOld
    <2> QED
      BY DEF ReloadOld, ReloadConfigs
  <1>6. CASE \E done \in BOOLEAN : Undo(done)
    BY <1>6 DEF Undo
  <1>7. CASE Return \/ GenerateElsewhere \/ Restart
    BY <1>7 DEF Return, GenerateElsewhere, Restart
  <1>8. CASE CoreStarts \/ CoreStops
    BY <1>8 DEF CoreStarts, CoreStops, Down
  <1>9. CASE UNCHANGED vars
    BY <1>9 DEF vars
  <1> QED
    BY <1>1, <1>2, <1>3, <1>4, <1>5, <1>6, <1>7, <1>8, <1>9 DEF Next

\* After a failed update a running core agrees with the disk, unless a step of
\* the rollback has failed or overlooked it.
THEOREM RollbackReachesCoreHolds == Spec => []RollbackReachesCore
  <1>1. Init => RollbackReachesCore
    BY DEF Init, RollbackReachesCore
  <1> QED
    BY <1>1, StepReachesCore, PTL DEF Spec

-----------------------------------------------------------------------------
(* Cache files and the generated configuration *)

\* What the handlers have checked before they change anything.
RequestOK ==
  /\ pc # "idle" =>
       /\ req.op \in Ops \ {"none"} /\ req.id \in Ids
       /\ req.op = "import" => req.content \in Contents /\ req.name \in Names /\ ~Has(before, req.id)
       /\ req.op = "update" => req.content \in Contents
       /\ req.op = "rename" => req.name \in Names
       /\ req.op # "import" => Has(before, req.id)
  /\ pc = "commit" => mem = before
  /\ pc = "commit" /\ req.op \in {"import", "update"} => cache[req.id] = req.content

\* A profile that has been deleted is not the active one.
DeletedGone ==
  req.op = "delete" /\ pc \in {"generate", "query", "reload"} => ~Has(mem, req.id)

\* Where an update has replaced the cache file and not, or no longer, the entry.
Replaced == {"commit", "regenerate", "regenerate_reload", "reload_old", "undo"}

CacheInStep ==
  ~hidden =>
    \A i \in DOMAIN mem.subs :
      mem.subs[i].sum # None =>
        /\ cache[mem.subs[i].id] # None
        /\ \/ crashed
           \/ cache[mem.subs[i].id] = mem.subs[i].sum
           \/ req.op = "update" /\ mem.subs[i].id = req.id /\ pc \in Replaced

\* Where a request may yet go back to the snapshot.
Restorable == {"generate", "query", "reload", "restore", "restore_reload"}

\* The same for the snapshot, until it is restored.
SnapshotCached ==
  ~hidden /\ pc \in Restorable =>
    \A i \in DOMAIN before.subs :
      before.subs[i].sum # None =>
        /\ cache[before.subs[i].id] # None
        /\ \/ crashed
           \/ cache[before.subs[i].id] = before.subs[i].sum
           \/ req.op = "update" /\ before.subs[i].id = req.id

\* What an update puts back is what the old entry has the digest of.
OldIsOld ==
  ~hidden /\ ~crashed /\ pc # "idle" /\ req.op = "update" /\ req.old # None =>
    \A i \in DOMAIN before.subs : before.subs[i].id = req.id => before.subs[i].sum = req.old

\* The active profile has been fetched.
Fetched(cfg) == cfg.active \in DOMAIN cfg.subs /\ cfg.subs[cfg.active].sum # None

\* Where the core is about to be told, or has been told, of the new configuration.
Applying == {"query", "reload", "applied", "overlooked"}

\* Where a request has not generated, or has generated again.
Regenerated == {"idle", "commit", "ok", "reload_old", "undo", "rebuild", "requery",
                "reload_rebuilt", "error"}

GeneratedInStep ==
  /\ pc \in Applying => gen = mem.pool
  /\ ~hidden /\ ~crashed /\ pc \in Regenerated /\ Fetched(mem) => gen = mem.pool

ContentInv ==
  /\ TypeOK /\ RequestOK /\ DeletedGone /\ CacheInStep /\ SnapshotCached /\ OldIsOld
  /\ GeneratedInStep /\ AppliedReachesCore

-----------------------------------------------------------------------------
(* Sequences of profiles *)

\* The sequence without its i-th element.
LEMMA WithoutProperties ==
  ASSUME NEW S, NEW s \in Seq(S), NEW i \in 1 .. Len(s)
  PROVE  /\ Without(s, i) \in Seq(S)
         /\ Len(Without(s, i)) = Len(s) - 1
         /\ \A j \in 1 .. Len(s) - 1 : Without(s, i)[j] = IF j < i THEN s[j] ELSE s[j + 1]
  <1> DEFINE a == SubSeq(s, 1, i - 1)
             b == SubSeq(s, i + 1, Len(s))
  <1>1. Len(s) \in Nat /\ i \in 1 .. Len(s)
    BY LenProperties
  <1>2. /\ a \in Seq(S) /\ Len(a) = i - 1
        /\ \A j \in 1 .. i - 1 : a[j] = s[j]
    BY <1>1, SubSeqProperties
  <1>3. b \in Seq(S) /\ Len(b) = Len(s) - i
    <2>1. \A k \in i + 1 .. Len(s) : k \in 1 .. Len(s)
      BY <1>1
    <2>2. b \in Seq(S) /\ Len(b) = IF i + 1 <= Len(s) THEN Len(s) - (i + 1) + 1 ELSE 0
      BY <1>1, <2>1, SubSeqProperties
    <2> QED
      BY <1>1, <2>2
  <1>4. \A j \in 1 .. Len(s) - i : b[j] = s[i + j]
    BY <1>1, <1>3
  <1> HIDE DEF a, b
  <1>5. a \o b \in Seq(S) /\ Len(a \o b) = Len(a) + Len(b)
    BY <1>2, <1>3, ConcatProperties
  <1>6. \A j \in 1 .. Len(a) + Len(b) : (a \o b)[j] = IF j <= Len(a) THEN a[j] ELSE b[j - Len(a)]
    BY <1>2, <1>3, ConcatProperties
  <1>7. \A j \in 1 .. Len(s) - 1 : (a \o b)[j] = IF j < i THEN s[j] ELSE s[j + 1]
    <2> TAKE j \in 1 .. Len(s) - 1
    <2>1. CASE j < i
      <3>1. j \in 1 .. Len(a) + Len(b) /\ j <= Len(a) /\ j \in 1 .. i - 1
        BY <1>1, <1>2, <1>3, <2>1
      <3> QED
        BY <1>2, <1>6, <2>1, <3>1
    <2>2. CASE ~(j < i)
      <3>1. j \in 1 .. Len(a) + Len(b) /\ ~(j <= Len(a)) /\ j - Len(a) \in 1 .. Len(s) - i
            /\ i + (j - Len(a)) = j + 1
        BY <1>1, <1>2, <1>3, <2>2
      <3> QED
        BY <1>4, <1>6, <2>2, <3>1
    <2> QED
      BY <2>1, <2>2
  <1>8. Len(a \o b) = Len(s) - 1
    BY <1>1, <1>2, <1>3, <1>5
  <1>9. Without(s, i) = a \o b
    BY DEF Without, a, b
  <1> QED
    BY <1>5, <1>7, <1>8, <1>9, Zenon

\* Identifiers are unique: a profile is found by its own.
LEMMA MetaIsEntry ==
  ASSUME NEW cfg, WellFormed(cfg), NEW i \in DOMAIN cfg.subs
  PROVE  /\ IndexOf(cfg, cfg.subs[i].id) = i
         /\ Has(cfg, cfg.subs[i].id)
  BY DEF WellFormed, Valid, IndexOf, Has

LEMMA IndexIsEntry ==
  ASSUME NEW cfg, NEW id, Has(cfg, id)
  PROVE  IndexOf(cfg, id) \in DOMAIN cfg.subs /\ cfg.subs[IndexOf(cfg, id)].id = id
  BY DEF IndexOf, Has

LEMMA EntriesAreProfiles ==
  ASSUME NEW subs \in Seq(Profile), NEW i \in DOMAIN subs
  PROVE  /\ i \in 1 .. Len(subs) /\ subs[i] \in Profile
         /\ subs[i].id \in Ids /\ subs[i].name \in Names /\ subs[i].sum \in Contents \cup {None}
  <1>1. i \in 1 .. Len(subs)
    BY LenProperties
  <1>2. subs[i] \in Profile
    BY <1>1, ElementOfSeq
  <1> QED
    BY <1>1, <1>2 DEF Profile

\* The active member of the pool is the active profile.
LEMMA PoolIsActive ==
  ASSUME NEW cfg, WellFormed(cfg)
  PROVE  /\ cfg.subs \in Seq(Profile) /\ cfg.active \in Nat
         /\ cfg.pool = IF cfg.active \in DOMAIN cfg.subs THEN cfg.subs[cfg.active].id ELSE None
         /\ cfg.pool # None => cfg.pool \in Ids /\ Has(cfg, cfg.pool)
         /\ Fetched(cfg) <=> cfg.pool # None /\ Meta(cfg, cfg.pool).sum # None
  <1>1. cfg.subs \in Seq(Profile) /\ cfg.active \in Nat
    BY DEF WellFormed
  <1>2. cfg.pool = IF cfg.active \in DOMAIN cfg.subs THEN cfg.subs[cfg.active].id ELSE None
    BY <1>1 DEF WellFormed, normalizeProfilePool, Empty
  <1>3. \A i \in DOMAIN cfg.subs : cfg.subs[i] \in Profile /\ cfg.subs[i].id \in Ids
    BY <1>1, EntriesAreProfiles
  <1> QED
    BY <1>1, <1>2, <1>3, MetaIsEntry, ProfileConstantsOK DEF Fetched, Meta

-----------------------------------------------------------------------------
(* What a commit makes of the configuration *)

\* The new entry of an import.
NewEntry == [id |-> req.id, name |-> req.name, sum |-> req.content]

\* The entry whose index is i, after an update or under its new name.
Updated(i) == [mem.subs[i] EXCEPT !.sum = req.content]
Renamed(i) == [mem.subs[i] EXCEPT !.name = req.name]

Replace(cfg, i, e) == [cfg EXCEPT !.subs = [cfg.subs EXCEPT ![i] = e]]

\* The configuration before a commit, and what the request does to it.
LEMMA EditCases ==
  ASSUME TypeOK, RequestOK, pc = "commit"
  PROVE  LET i == IndexOf(mem, req.id) IN
         /\ WellFormed(mem) /\ mem.subs \in Seq(Profile) /\ mem.active \in 0 .. Len(mem.subs)
         /\ req.op # "import" => i \in 1 .. Len(mem.subs) /\ mem.subs[i].id = req.id
         /\ req.op = "import" =>
              Edit(mem) = normalizeProfilePool(Append(mem.subs, NewEntry),
                            IF mem.active = 0 THEN Len(mem.subs) + 1 ELSE mem.active)
         /\ req.op = "activate" => Edit(mem) = normalizeProfilePool(mem.subs, i)
         /\ req.op = "update" => Edit(mem) = Replace(mem, i, Updated(i))
         /\ req.op = "rename" => Edit(mem) = Replace(mem, i, Renamed(i))
         /\ req.op = "delete" => Edit(mem) = RemoveSubscription(mem, i)
  <1> DEFINE i == IndexOf(mem, req.id)
  <1>1. WellFormed(mem) /\ mem.subs \in Seq(Profile) /\ mem.active \in 0 .. Len(mem.subs)
    BY DEF TypeOK, WellFormed, Valid
  <1>2. req.op # "import" => i \in 1 .. Len(mem.subs) /\ mem.subs[i].id = req.id
    BY <1>1, IndexIsEntry, LenProperties DEF RequestOK
  <1>3. req.op \in Ops \ {"none"}
    BY DEF RequestOK
  <1>4. req.op = "import" => Edit(mem) = normalizeProfilePool(Append(mem.subs, NewEntry),
                               IF mem.active = 0 THEN Len(mem.subs) + 1 ELSE mem.active)
    BY DEF Edit, NewEntry
  <1>5. req.op = "activate" => Edit(mem) = normalizeProfilePool(mem.subs, i)
    BY DEF Edit
  <1>6. req.op = "update" => Edit(mem) = [mem EXCEPT !.subs[i].sum = req.content]
    BY DEF Edit
  <1>7. req.op = "rename" => Edit(mem) = [mem EXCEPT !.subs[i].name = req.name]
    BY DEF Edit
  <1>8. req.op = "delete" => Edit(mem) = RemoveSubscription(mem, i)
    BY DEF Edit
  <1> HIDE DEF i
  <1>9. /\ [mem EXCEPT !.subs[i].sum = req.content] = Replace(mem, i, Updated(i))
        /\ [mem EXCEPT !.subs[i].name = req.name] = Replace(mem, i, Renamed(i))
    BY DEF Updated, Renamed, Replace
  <1> QED
    BY <1>1, <1>2, <1>4, <1>5, <1>6, <1>7, <1>8, <1>9 DEF i

ConfigType == [subs : Seq(Profile), active : Nat, pool : Ids \cup {None}]

\* A pool that has been normalized stays as it is.
LEMMA NormalizedPool ==
  ASSUME NEW subs \in Seq(Profile), NEW active \in Nat
  PROVE  LET cfg == normalizeProfilePool(subs, active) IN
         /\ cfg \in ConfigType
         /\ cfg.subs = subs
         /\ cfg.active = IF subs = <<>> THEN 0 ELSE active
         /\ cfg.pool = normalizeProfilePool(cfg.subs, cfg.active).pool
  <1>1. <<>> \in Seq(Profile)
    OBVIOUS
  <1>2. \A a \in DOMAIN subs : subs[a].id \in Ids
    BY EntriesAreProfiles
  <1> QED
    BY <1>1, <1>2 DEF normalizeProfilePool, Empty, ConfigType

\* The pool's active member depends on the identifiers and the index only.
LEMMA SameIdsSamePool ==
  ASSUME NEW subs \in Seq(Profile), NEW new \in Seq(Profile), NEW active \in Nat,
         Len(new) = Len(subs), \A j \in DOMAIN subs : new[j].id = subs[j].id
  PROVE  normalizeProfilePool(new, active).pool = normalizeProfilePool(subs, active).pool
  <1>1. DOMAIN new = DOMAIN subs /\ (new = <<>> <=> subs = <<>>)
    BY LenProperties, EmptySeq
  <1> QED
    BY <1>1 DEF normalizeProfilePool, Empty

LEMMA EntryReplaced ==
  ASSUME NEW cfg, WellFormed(cfg), NEW i \in 1 .. Len(cfg.subs),
         NEW e \in Profile, e.id = cfg.subs[i].id
  PROVE  LET new == Replace(cfg, i, e) IN
         /\ new \in ConfigType
         /\ new.active = cfg.active /\ new.pool = cfg.pool
         /\ Len(new.subs) = Len(cfg.subs)
         /\ \A j \in 1 .. Len(cfg.subs) : new.subs[j] = IF j = i THEN e ELSE cfg.subs[j]
         /\ new.pool = normalizeProfilePool(new.subs, new.active).pool
  <1> DEFINE new == Replace(cfg, i, e)
             subs == [cfg.subs EXCEPT ![i] = e]
  <1>1. /\ cfg \in ConfigType /\ cfg.subs \in Seq(Profile) /\ cfg.active \in Nat
        /\ cfg.pool = normalizeProfilePool(cfg.subs, cfg.active).pool
    BY DEF WellFormed, ConfigType
  <1>2. /\ subs \in Seq(Profile) /\ Len(subs) = Len(cfg.subs)
        /\ \A j \in 1 .. Len(cfg.subs) : subs[j] = IF j = i THEN e ELSE cfg.subs[j]
    BY <1>1, ExceptSeq
  <1> HIDE DEF subs
  <1>3. new.subs = subs /\ new.active = cfg.active /\ new.pool = cfg.pool /\ new \in ConfigType
    BY <1>1, <1>2 DEF ConfigType, Replace, subs
  <1> HIDE DEF new
  <1>4. \A j \in DOMAIN cfg.subs : subs[j].id = cfg.subs[j].id
    BY <1>1, <1>2, LenProperties
  <1>5. normalizeProfilePool(subs, cfg.active).pool = normalizeProfilePool(cfg.subs, cfg.active).pool
    BY <1>1, <1>2, <1>4, SameIdsSamePool
  <1> QED
    BY <1>1, <1>2, <1>3, <1>5 DEF new

\* A committed configuration is of its type, and its pool normalized.
LEMMA EditTyped ==
  ASSUME TypeOK, RequestOK, pc = "commit"
  PROVE  /\ Edit(mem) \in ConfigType
         /\ Edit(mem).pool = normalizeProfilePool(Edit(mem).subs, Edit(mem).active).pool
  <1> DEFINE i == IndexOf(mem, req.id)
  <1>1. /\ WellFormed(mem) /\ mem.subs \in Seq(Profile) /\ mem.active \in 0 .. Len(mem.subs)
        /\ mem.active \in Nat /\ Len(mem.subs) \in Nat
    BY EditCases, LenProperties
  <1>2. req.op # "import" => i \in 1 .. Len(mem.subs) /\ mem.subs[i].id = req.id
    BY EditCases
  <1>3. req.op # "import" => mem.subs[i] \in Profile
    BY <1>1, <1>2, ElementOfSeq
  <1>4. CASE req.op = "import"
    <2>1. NewEntry \in Profile
      BY <1>4 DEF RequestOK, NewEntry, Profile
    <2> DEFINE new == Append(mem.subs, NewEntry)
    <2>2. new \in Seq(Profile)
      BY <1>1, <2>1
    <2> HIDE DEF new
    <2>3. PICK a \in Nat : Edit(mem) = normalizeProfilePool(new, a)
      BY <1>1, <1>4, EditCases DEF new
    <2> QED
      BY <2>2, <2>3, NormalizedPool
  <1>5. CASE req.op = "activate"
    BY <1>1, <1>2, <1>5, NormalizedPool, EditCases
  <1>6. CASE req.op = "update"
    <2>1. Updated(i) \in Profile /\ Updated(i).id = mem.subs[i].id
      BY <1>3, <1>6 DEF RequestOK, Updated, Profile
    <2> QED
      BY <1>1, <1>2, <1>6, <2>1, EntryReplaced, EditCases
  <1>7. CASE req.op = "rename"
    <2>1. Renamed(i) \in Profile /\ Renamed(i).id = mem.subs[i].id
      BY <1>3, <1>7 DEF RequestOK, Renamed, Profile
    <2> QED
      BY <1>1, <1>2, <1>7, <2>1, EntryReplaced, EditCases
  <1>8. CASE req.op = "delete"
    <2>1. Without(mem.subs, i) \in Seq(Profile) /\ Len(Without(mem.subs, i)) = Len(mem.subs) - 1
      BY <1>1, <1>2, <1>8, WithoutProperties
    <2> QED
      BY <1>1, <1>2, <1>8, <2>1, NormalizedPool, EditCases DEF RemoveSubscription
  <1> QED
    BY <1>4, <1>5, <1>6, <1>7, <1>8 DEF RequestOK, Ops

\* An entry after a commit is one of before it, or the one that the request has fetched.
LEMMA EditEntries ==
  ASSUME TypeOK, RequestOK, pc = "commit", NEW j \in DOMAIN Edit(mem).subs
  PROVE  \/ \E k \in DOMAIN mem.subs :
              /\ Edit(mem).subs[j].id = mem.subs[k].id /\ Edit(mem).subs[j].sum = mem.subs[k].sum
              /\ req.op \in {"update", "delete"} => mem.subs[k].id # req.id
         \/ /\ req.op \in {"import", "update"}
            /\ Edit(mem).subs[j].id = req.id /\ Edit(mem).subs[j].sum = req.content
  <1> DEFINE i == IndexOf(mem, req.id)
  <1>1. /\ WellFormed(mem) /\ mem.subs \in Seq(Profile) /\ mem.active \in Nat /\ Len(mem.subs) \in Nat
        /\ DOMAIN mem.subs = 1 .. Len(mem.subs)
    BY EditCases, LenProperties
  <1>2. req.op # "import" => i \in 1 .. Len(mem.subs) /\ mem.subs[i].id = req.id
    BY EditCases
  <1>3. req.op # "import" => \A k \in DOMAIN mem.subs : k # i => mem.subs[k].id # req.id
    BY <1>1, <1>2, MetaIsEntry
  <1>4. req.op # "import" => mem.subs[i] \in Profile
    BY <1>1, <1>2, ElementOfSeq
  <1> HIDE DEF i
  <1>5. CASE req.op = "import"
    <2> DEFINE new == Append(mem.subs, NewEntry)
    <2>1. NewEntry \in Profile
      BY <1>5 DEF RequestOK, NewEntry, Profile
    <2>2. /\ new \in Seq(Profile) /\ DOMAIN new = 1 .. Len(mem.subs) + 1
          /\ \A k \in 1 .. Len(mem.subs) : new[k] = mem.subs[k]
          /\ new[Len(mem.subs) + 1] = NewEntry
      BY <1>1, <2>1, AppendProperties
    <2> HIDE DEF new
    <2>3. PICK a \in Nat : Edit(mem) = normalizeProfilePool(new, a)
      BY <1>1, <1>5, EditCases DEF new
    <2>4. Edit(mem).subs = new
      BY <2>2, <2>3, NormalizedPool
    <2>5. j \in 1 .. Len(mem.subs) + 1
      BY <2>2, <2>4
    <2>6. CASE j \in 1 .. Len(mem.subs)
      BY <1>1, <1>5, <2>2, <2>4, <2>6
    <2>7. CASE j = Len(mem.subs) + 1
      BY <1>5, <2>2, <2>4, <2>7 DEF NewEntry
    <2> QED
      BY <1>1, <2>5, <2>6, <2>7
  <1>6. CASE req.op = "activate"
    <2>1. Edit(mem).subs = mem.subs
      BY <1>1, <1>2, <1>6, NormalizedPool, EditCases DEF i
    <2> QED
      BY <1>6, <2>1
  <1>7. CASE req.op = "update"
    <2>1. /\ Updated(i) \in Profile /\ Updated(i).id = req.id /\ Updated(i).sum = req.content
      BY <1>2, <1>4, <1>7 DEF RequestOK, Updated, Profile
    <2>2. Edit(mem) = Replace(mem, i, Updated(i))
      BY <1>7, EditCases DEF i
    <2>3. /\ Edit(mem) \in ConfigType /\ Len(Edit(mem).subs) = Len(mem.subs)
          /\ \A k \in 1 .. Len(mem.subs) : Edit(mem).subs[k] = IF k = i THEN Updated(i) ELSE mem.subs[k]
      BY <1>1, <1>2, <1>7, <2>1, <2>2, EntryReplaced
    <2>4. j \in 1 .. Len(mem.subs)
      BY <2>3, LenProperties DEF ConfigType
    <2> QED
      BY <1>1, <1>3, <1>7, <2>1, <2>3, <2>4
  <1>8. CASE req.op = "rename"
    <2>1. /\ Renamed(i) \in Profile /\ Renamed(i).id = mem.subs[i].id /\ Renamed(i).sum = mem.subs[i].sum
      BY <1>4, <1>8 DEF RequestOK, Renamed, Profile
    <2>2. Edit(mem) = Replace(mem, i, Renamed(i))
      BY <1>8, EditCases DEF i
    <2>3. /\ Edit(mem) \in ConfigType /\ Len(Edit(mem).subs) = Len(mem.subs)
          /\ \A k \in 1 .. Len(mem.subs) : Edit(mem).subs[k] = IF k = i THEN Renamed(i) ELSE mem.subs[k]
      BY <1>1, <1>2, <1>8, <2>1, <2>2, EntryReplaced
    <2>4. j \in 1 .. Len(mem.subs)
      BY <2>3, LenProperties DEF ConfigType
    <2> QED
      BY <1>1, <1>8, <2>1, <2>3, <2>4
  <1>9. CASE req.op = "delete"
    <2> DEFINE left == Without(mem.subs, i)
    <2>1. /\ left \in Seq(Profile) /\ Len(left) = Len(mem.subs) - 1
          /\ \A k \in 1 .. Len(mem.subs) - 1 : left[k] = IF k < i THEN mem.subs[k] ELSE mem.subs[k + 1]
      BY <1>1, <1>2, <1>9, WithoutProperties
    <2> HIDE DEF left
    <2>2. PICK a \in Nat : Edit(mem) = normalizeProfilePool(left, a)
      BY <1>1, <1>2, <1>9, <2>1, EditCases DEF RemoveSubscription, left, i
    <2>3. Edit(mem).subs = left
      BY <2>1, <2>2, NormalizedPool
    <2>4. j \in 1 .. Len(mem.subs) - 1
      BY <2>1, <2>3, LenProperties
    <2>5. CASE j < i
      BY <1>1, <1>2, <1>3, <1>9, <2>1, <2>3, <2>4, <2>5
    <2>6. CASE ~(j < i)
      <3>1. j + 1 \in 1 .. Len(mem.subs) /\ j + 1 # i /\ left[j] = mem.subs[j + 1]
        BY <1>1, <1>2, <1>9, <2>1, <2>4, <2>6
      <3> QED
        BY <1>1, <1>3, <1>9, <2>3, <3>1
    <2> QED
      BY <2>5, <2>6
  <1> QED
    BY <1>5, <1>6, <1>7, <1>8, <1>9 DEF RequestOK, Ops

\* A change that does not concern the core leaves the active profile and its content alone.
LEMMA EditKeepsActive ==
  ASSUME TypeOK, RequestOK, pc = "commit", ~Applies, Fetched(Edit(mem))
  PROVE  Fetched(mem) /\ Edit(mem).pool = mem.pool
  <1> DEFINE i == IndexOf(mem, req.id)
  <1>1. /\ WellFormed(mem) /\ mem.subs \in Seq(Profile) /\ mem.active \in 0 .. Len(mem.subs)
        /\ mem.active \in Nat /\ Len(mem.subs) \in Nat
        /\ DOMAIN mem.subs = 1 .. Len(mem.subs)
    BY EditCases, LenProperties
  <1>2. req.op # "import" => i \in 1 .. Len(mem.subs) /\ mem.subs[i].id = req.id
    BY EditCases
  <1>3. /\ mem.pool = IF mem.active \in DOMAIN mem.subs THEN mem.subs[mem.active].id ELSE None
        /\ before = mem
    BY <1>1, PoolIsActive DEF RequestOK
  <1>4. /\ Edit(mem).subs \in Seq(Profile) /\ Edit(mem).active \in DOMAIN Edit(mem).subs
        /\ Edit(mem).pool = Edit(mem).subs[Edit(mem).active].id
        /\ DOMAIN Edit(mem).subs = 1 .. Len(Edit(mem).subs)
        /\ Edit(mem).subs[Edit(mem).active].sum # None
    BY EditTyped, LenProperties DEF Fetched, ConfigType, normalizeProfilePool, Empty
  <1>5. req.op # "import" => mem.subs[i] \in Profile
    BY <1>1, <1>2, ElementOfSeq
  <1> HIDE DEF i
  <1> SUFFICES /\ mem.active \in DOMAIN mem.subs
               /\ Edit(mem).subs[Edit(mem).active].id = mem.subs[mem.active].id
               /\ Edit(mem).subs[Edit(mem).active].sum = mem.subs[mem.active].sum
    BY <1>3, <1>4 DEF Fetched
  <1>6. CASE req.op = "import"
    <2> DEFINE new == Append(mem.subs, NewEntry)
    <2>1. mem.active \in 1 .. Len(mem.subs)
      BY <1>1, <1>3, <1>6 DEF Applies
    <2>2. NewEntry \in Profile
      BY <1>6 DEF RequestOK, NewEntry, Profile
    <2>3. new \in Seq(Profile) /\ new # <<>> /\ new[mem.active] = mem.subs[mem.active]
      BY <1>1, <2>1, <2>2, AppendProperties
    <2> HIDE DEF new
    <2>4. Edit(mem) = normalizeProfilePool(new, mem.active)
      BY <1>1, <1>6, <2>1, EditCases DEF new
    <2>5. Edit(mem).subs = new /\ Edit(mem).active = mem.active
      BY <1>1, <2>3, <2>4, NormalizedPool
    <2> QED
      BY <1>1, <2>1, <2>3, <2>5
  <1>7. CASE req.op = "activate"
    BY <1>7 DEF Applies
  <1>8. CASE req.op = "update"
    <2>1. /\ Updated(i) \in Profile /\ Updated(i).id = mem.subs[i].id
      BY <1>5, <1>8 DEF RequestOK, Updated, Profile
    <2>2. Edit(mem) = Replace(mem, i, Updated(i))
      BY <1>8, EditCases DEF i
    <2>3. /\ Len(Edit(mem).subs) = Len(mem.subs) /\ Edit(mem).active = mem.active
          /\ \A k \in 1 .. Len(mem.subs) : Edit(mem).subs[k] = IF k = i THEN Updated(i) ELSE mem.subs[k]
      BY <1>1, <1>2, <1>8, <2>1, <2>2, EntryReplaced
    <2>4. mem.active \in 1 .. Len(mem.subs)
      BY <1>4, <2>3
    <2>5. mem.active # i
      BY <1>1, <1>2, <1>3, <1>8, <2>4 DEF Applies, WasActive
    <2> QED
      BY <1>1, <2>3, <2>4, <2>5
  <1>9. CASE req.op = "rename"
    <2>1. /\ Renamed(i) \in Profile /\ Renamed(i).id = mem.subs[i].id /\ Renamed(i).sum = mem.subs[i].sum
      BY <1>5, <1>9 DEF RequestOK, Renamed, Profile
    <2>2. Edit(mem) = Replace(mem, i, Renamed(i))
      BY <1>9, EditCases DEF i
    <2>3. /\ Len(Edit(mem).subs) = Len(mem.subs) /\ Edit(mem).active = mem.active
          /\ \A k \in 1 .. Len(mem.subs) : Edit(mem).subs[k] = IF k = i THEN Renamed(i) ELSE mem.subs[k]
      BY <1>1, <1>2, <1>9, <2>1, <2>2, EntryReplaced
    <2>4. mem.active \in 1 .. Len(mem.subs)
      BY <1>4, <2>3
    <2> QED
      BY <1>1, <2>1, <2>3, <2>4
  <1>10. CASE req.op = "delete"
    <2> DEFINE left == Without(mem.subs, i)
               a == IF mem.active > i \/ mem.active > Len(left) THEN mem.active - 1 ELSE mem.active
    <2>1. /\ left \in Seq(Profile) /\ Len(left) = Len(mem.subs) - 1
          /\ \A k \in 1 .. Len(mem.subs) - 1 : left[k] = IF k < i THEN mem.subs[k] ELSE mem.subs[k + 1]
      BY <1>1, <1>2, <1>10, WithoutProperties
    <2>2. Edit(mem) = normalizeProfilePool(left, a)
      BY <1>10, EditCases DEF RemoveSubscription, i
    <2> HIDE DEF left
    <2>3. a \in Nat
      BY <1>1, <1>2, <1>10, <2>1
    <2> HIDE DEF a
    <2>4. Edit(mem).subs = left /\ Edit(mem).active = IF left = <<>> THEN 0 ELSE a
      BY <2>1, <2>2, <2>3, NormalizedPool
    <2>5. Edit(mem).active = a /\ a \in 1 .. Len(mem.subs) - 1
      BY <1>4, <2>1, <2>4
    <2>6. mem.active \in 1 .. Len(mem.subs)
      BY <1>1, <2>5 DEF a
    <2>7. mem.active # i
      BY <1>1, <1>2, <1>3, <1>10, <2>5, <2>6 DEF Applies, WasActive
    <2>8. left[a] = mem.subs[mem.active]
      BY <1>1, <1>2, <1>10, <2>1, <2>5, <2>6, <2>7 DEF a
    <2> QED
      BY <1>1, <2>4, <2>5, <2>6, <2>8
  <1> QED
    BY <1>6, <1>7, <1>8, <1>9, <1>10 DEF RequestOK, Ops

-----------------------------------------------------------------------------
(* Types *)

LEMMA EmptyIsWellFormed == WellFormed(Empty)
  <1>1. <<>> \in Seq(Profile) /\ Len(<<>>) = 0
    OBVIOUS
  <1> QED
    BY <1>1 DEF WellFormed, Valid, Empty, normalizeProfilePool, Has

LEMMA InitType == Init => TypeOK
  <1> SUFFICES ASSUME Init PROVE TypeOK
    OBVIOUS
  <1>1. WellFormed(mem)
    <2>1. CASE mem = Empty
      BY <2>1, EmptyIsWellFormed
    <2>2. ASSUME NEW id \in Ids, NEW n \in Names, NEW a \in {0, 1},
                 mem = normalizeProfilePool(<<[id |-> id, name |-> n, sum |-> None]>>, a)
          PROVE  WellFormed(mem)
      <3> DEFINE p == [id |-> id, name |-> n, sum |-> None]
      <3>1. p \in Profile /\ p.id = id
        BY DEF Profile
      <3> HIDE DEF p
      <3>2. /\ <<p>> \in Seq(Profile) /\ <<p>> # <<>> /\ Len(<<p>>) = 1 /\ DOMAIN <<p>> = {1}
            /\ <<p>>[1] = p
        BY <3>1
      <3> DEFINE s == <<p>>
      <3>3. mem = normalizeProfilePool(s, a) /\ a \in Nat
        BY <2>2 DEF p
      <3> HIDE DEF s
      <3>4. s \in Seq(Profile) /\ s # <<>> /\ Len(s) = 1 /\ DOMAIN s = {1} /\ s[1].id = id
        BY <3>1, <3>2 DEF s
      <3>5. /\ mem \in ConfigType /\ mem.subs = s /\ mem.active = a
            /\ mem.pool = normalizeProfilePool(s, a).pool
        BY <3>3, <3>4, NormalizedPool
      <3>6. mem.pool # None => Has(mem, mem.pool)
        BY <3>4, <3>5 DEF normalizeProfilePool, Has
      <3>7. \A i, j \in DOMAIN s : i = j
        BY <3>4
      <3> QED
        BY <3>4, <3>5, <3>6, <3>7 DEF WellFormed, Valid, ConfigType
    <2> QED
      BY <2>1, <2>2 DEF Init
  <1>2. WellFormed(disk) /\ WellFormed(before)
    BY <1>1, EmptyIsWellFormed DEF Init
  <1>3. /\ cache \in [Ids -> Contents \cup {None}] /\ gen \in Ids \cup {None}
        /\ core \in [up : BOOLEAN, id : Ids \cup {None}, content : Contents \cup {None}]
        /\ req \in [op : Ops, id : Ids \cup {None}, name : Names \cup {None},
                    content : Contents \cup {None}, old : Contents \cup {None}]
    BY DEF Init, Down, NoRequest, Ops
  <1>4. pc \in PCs /\ hidden \in BOOLEAN /\ crashed \in BOOLEAN
    BY DEF Init, PCs
  <1> QED
    BY <1>1, <1>2, <1>3, <1>4 DEF TypeOK

\* Every copy of the configuration is one that was there, or what a commit makes of it.
LEMMA StepWellFormed ==
  ASSUME TypeOK, RequestOK, [Next]_vars
  PROVE  WellFormed(mem') /\ WellFormed(disk') /\ WellFormed(before')
  <1> DEFINE Known == {mem, disk, before, Empty}
  <1>1. \A cfg \in Known : WellFormed(cfg)
    BY EmptyIsWellFormed DEF TypeOK
  <1>2. pc = "commit" /\ Valid(Edit(mem)) => WellFormed(Edit(mem))
    BY EditTyped DEF WellFormed, ConfigType
  <1>3. \/ mem' \in Known /\ disk' \in Known /\ before' \in Known
        \/ /\ pc = "commit" /\ Valid(Edit(mem)) /\ before' \in Known
           /\ mem' \in Known \cup {Edit(mem)} /\ disk' = Edit(mem)
    <2>1. CASE Request
      BY <2>1 DEF Request, Begin, BeginImport, BeginActivate, BeginUpdate, BeginRename, BeginDelete
    <2>2. CASE Commit \/ CommitFails \/ CommitFailsLate
      BY <2>2 DEF Commit, CommitFails, CommitFailsLate
    <2>3. CASE \E out \in Outcomes : Generate(out) \/ Reload(out)
      BY <2>3 DEF Generate, Reload
    <2>4. CASE \E seen \in BOOLEAN : Query(seen) \/ QueryOld(seen)
      BY <2>4 DEF Query, QueryOld
    <2>5. CASE Rollback
      BY <2>5 DEF Rollback, restoreConfigSnapshot, RegenerateOld, ReloadOld
    <2>6. CASE \E done \in BOOLEAN : Undo(done)
      BY <2>6 DEF Undo
    <2>7. CASE Return \/ GenerateElsewhere \/ Restart \/ CoreStarts \/ CoreStops \/ UNCHANGED vars
      BY <2>7 DEF Return, GenerateElsewhere, Restart, CoreStarts, CoreStops, vars
    <2> QED
      BY <2>1, <2>2, <2>3, <2>4, <2>5, <2>6, <2>7 DEF Next
  <1> HIDE DEF Known
  <1>4. CASE mem' \in Known /\ disk' \in Known /\ before' \in Known
    BY <1>1, <1>4
  <1>5. CASE /\ pc = "commit" /\ Valid(Edit(mem)) /\ before' \in Known
             /\ mem' \in Known \cup {Edit(mem)} /\ disk' = Edit(mem)
    BY <1>1, <1>2, <1>5
  <1> QED
    BY <1>3, <1>4, <1>5

\* The request and its snapshot stay as they are until the answer is out.
LEMMA StepKeepsRequest ==
  ASSUME [Next]_vars
  PROVE  \/ Request
         \/ pc' = "idle" /\ req' = NoRequest /\ before' = Empty
         \/ /\ UNCHANGED <<req, before>>
            /\ pc = "idle" <=> pc' = "idle"
            /\ pc' = "commit" => UNCHANGED <<pc, mem, cache>>
  <1> USE DEF Goto
  <1>1. CASE Commit \/ CommitFails \/ CommitFailsLate
    BY <1>1 DEF Commit, CommitFails, CommitFailsLate, AfterFailedCommit, Succeed
  <1>2. CASE \E out \in Outcomes : Generate(out) \/ Reload(out)
    BY <1>2 DEF Generate, Reload, Succeed
  <1>3. CASE \E seen \in BOOLEAN : Query(seen) \/ QueryOld(seen)
    BY <1>3 DEF Query, QueryOld, Succeed
  <1>4. CASE Rollback
    BY <1>4 DEF Rollback, restoreConfigSnapshot, RegenerateOld, ReloadOld
  <1>5. CASE \E done \in BOOLEAN : Undo(done)
    BY <1>5 DEF Undo
  <1>6. CASE Return \/ GenerateElsewhere \/ Restart
    BY <1>6 DEF Return, GenerateElsewhere, Restart
  <1>7. CASE CoreStarts \/ CoreStops \/ UNCHANGED vars
    BY <1>7 DEF CoreStarts, CoreStops, vars
  <1> QED
    BY <1>1, <1>2, <1>3, <1>4, <1>5, <1>6, <1>7 DEF Next

LEMMA StepRequestOK ==
  ASSUME TypeOK, RequestOK, [Next]_vars
  PROVE  RequestOK'
  <1>1. CASE Request
    <2> USE DEF Request, RequestOK, Begin, NoRequest, Ops
    <2>1. CASE \E id \in Ids, n \in Names, c \in Contents : BeginImport(id, n, c)
      BY <2>1 DEF BeginImport, Fresh, TypeOK, Has
    <2>2. CASE \E id \in Ids : BeginActivate(id)
      BY <2>2 DEF BeginActivate, Has
    <2>3. CASE \E id \in Ids, c \in Contents, readable \in BOOLEAN : BeginUpdate(id, c, readable)
      BY <2>3 DEF BeginUpdate, TypeOK, Has
    <2>4. CASE \E id \in Ids, n \in Names : BeginRename(id, n)
      BY <2>4 DEF BeginRename, Has
    <2>5. CASE \E id \in Ids, seen \in BOOLEAN : BeginDelete(id, seen)
      BY <2>5 DEF BeginDelete, Has
    <2> QED
      BY <1>1, <2>1, <2>2, <2>3, <2>4, <2>5
  <1>2. CASE pc' = "idle" /\ req' = NoRequest /\ before' = Empty
    BY <1>2 DEF RequestOK
  <1>3. CASE /\ UNCHANGED <<req, before>>
             /\ pc = "idle" <=> pc' = "idle"
             /\ pc' = "commit" => UNCHANGED <<pc, mem, cache>>
    BY <1>3 DEF RequestOK, Has
  <1> QED
    BY <1>1, <1>2, <1>3, StepKeepsRequest

LEMMA RequestTyped ==
  ASSUME TypeOK, Request
  PROVE  req' \in [op : Ops, id : Ids \cup {None}, name : Names \cup {None},
                   content : Contents \cup {None}, old : Contents \cup {None}]
  <1> USE DEF Request, Begin, NoRequest, Ops
  <1>1. CASE \E id \in Ids, n \in Names, c \in Contents : BeginImport(id, n, c)
    BY <1>1 DEF BeginImport
  <1>2. CASE \E id \in Ids : BeginActivate(id)
    BY <1>2 DEF BeginActivate
  <1>3. CASE \E id \in Ids, c \in Contents, readable \in BOOLEAN : BeginUpdate(id, c, readable)
    BY <1>3 DEF BeginUpdate, TypeOK
  <1>4. CASE \E id \in Ids, n \in Names : BeginRename(id, n)
    BY <1>4 DEF BeginRename
  <1>5. CASE \E id \in Ids, seen \in BOOLEAN : BeginDelete(id, seen)
    BY <1>5 DEF BeginDelete
  <1> QED
    BY <1>1, <1>2, <1>3, <1>4, <1>5

\* The generated file and the core only ever get what is there.
LEMMA StepCore ==
  ASSUME [Next]_vars
  PROVE  /\ gen' \in {gen, mem.pool}
         /\ core' \in {core, Loaded, Down}
         /\ pc' \in PCs \cup {pc}
         /\ hidden' \in BOOLEAN \cup {hidden}
         /\ crashed' \in BOOLEAN \cup {crashed}
  <1> USE DEF Goto, PCs, Answers
  <1>1. CASE Request
    BY <1>1 DEF Request, Begin, BeginImport, BeginActivate, BeginUpdate, BeginRename, BeginDelete
  <1>2. CASE Commit \/ CommitFails \/ CommitFailsLate
    BY <1>2 DEF Commit, CommitFails, CommitFailsLate, AfterFailedCommit, Succeed
  <1>3. CASE \E out \in Outcomes : Generate(out) \/ Reload(out)
    BY <1>3 DEF Generate, Reload, Succeed, GenerateMihomoConfig, ReloadConfigs
  <1>4. CASE \E seen \in BOOLEAN : Query(seen) \/ QueryOld(seen)
    BY <1>4 DEF Query, QueryOld, Succeed
  <1>5. CASE Rollback
    BY <1>5 DEF Rollback, restoreConfigSnapshot, RegenerateOld, ReloadOld, GenerateMihomoConfig,
                ReloadConfigs
  <1>6. CASE \E done \in BOOLEAN : Undo(done)
    BY <1>6 DEF Undo
  <1>7. CASE Return \/ GenerateElsewhere \/ Restart
    BY <1>7 DEF Return, GenerateElsewhere, Restart, GenerateMihomoConfig
  <1>8. CASE CoreStarts \/ CoreStops \/ UNCHANGED vars
    BY <1>8 DEF CoreStarts, CoreStops, vars
  <1> QED
    BY <1>1, <1>2, <1>3, <1>4, <1>5, <1>6, <1>7, <1>8 DEF Next

LEMMA StepType == IInv /\ TypeOK /\ RequestOK /\ [Next]_vars => TypeOK'
  <1> SUFFICES ASSUME IInv, TypeOK, RequestOK, [Next]_vars PROVE TypeOK'
    OBVIOUS
  <1>1. WellFormed(mem)' /\ WellFormed(disk)' /\ WellFormed(before)'
    BY StepWellFormed
  <1>2. cache' \in [Ids -> Contents \cup {None}]
    BY StepIInv DEF IInv, Files
  <1>3. gen' \in Ids \cup {None}
    BY StepCore, PoolIsActive DEF TypeOK
  <1>4. core' \in [up : BOOLEAN, id : Ids \cup {None}, content : Contents \cup {None}]
    <2>1. (IF gen = None THEN None ELSE cache[gen]) \in Contents \cup {None}
      BY DEF TypeOK
    <2>2. Loaded \in [up : BOOLEAN, id : Ids \cup {None}, content : Contents \cup {None}]
      BY <2>1 DEF Loaded, TypeOK
    <2>3. Down \in [up : BOOLEAN, id : Ids \cup {None}, content : Contents \cup {None}]
      BY DEF Down
    <2> QED
      BY <2>2, <2>3, StepCore DEF TypeOK
  <1>5. req' \in [op : Ops, id : Ids \cup {None}, name : Names \cup {None},
                  content : Contents \cup {None}, old : Contents \cup {None}]
    BY RequestTyped, StepKeepsRequest DEF TypeOK, NoRequest, Ops
  <1>6. pc' \in PCs /\ hidden' \in BOOLEAN /\ crashed' \in BOOLEAN
    BY StepCore DEF TypeOK
  <1> QED
    BY <1>1, <1>2, <1>3, <1>4, <1>5, <1>6 DEF TypeOK

-----------------------------------------------------------------------------
(* Steps *)

\* A profile is no longer there once its deletion is committed.
LEMMA DeletedByEdit ==
  ASSUME TypeOK, RequestOK, pc = "commit", req.op = "delete"
  PROVE  ~Has(Edit(mem), req.id)
  BY EditEntries DEF Has

LEMMA StepDeletedGone ==
  ASSUME TypeOK, RequestOK, DeletedGone, [Next]_vars
  PROVE  DeletedGone'
  <1> SUFFICES ASSUME pc' \in {"generate", "query", "reload"}, req'.op = "delete"
               PROVE  ~Has(mem', req'.id)
    BY DEF DeletedGone, Has
  <1> USE DEF Goto
  <1>1. CASE Commit
    BY <1>1, DeletedByEdit DEF Commit
  <1>2. CASE \E out \in Outcomes : Generate(out) \/ Reload(out)
    BY <1>2 DEF Generate, Reload, Succeed, DeletedGone
  <1>3. CASE \E seen \in BOOLEAN : Query(seen) \/ QueryOld(seen)
    BY <1>3 DEF Query, QueryOld, Succeed, DeletedGone
  <1>4. CASE Request
    BY <1>4 DEF Request, Begin, BeginImport, BeginActivate, BeginUpdate, BeginRename, BeginDelete
  <1>5. CASE CommitFails \/ CommitFailsLate
    BY <1>5 DEF CommitFails, CommitFailsLate, AfterFailedCommit
  <1>6. CASE Rollback
    BY <1>6 DEF Rollback, restoreConfigSnapshot, RegenerateOld, ReloadOld
  <1>7. CASE \E done \in BOOLEAN : Undo(done)
    BY <1>7 DEF Undo
  <1>8. CASE Return \/ GenerateElsewhere \/ Restart
    BY <1>8 DEF Return, GenerateElsewhere, Restart
  <1>9. CASE CoreStarts \/ CoreStops \/ UNCHANGED vars
    BY <1>9 DEF CoreStarts, CoreStops, vars, DeletedGone
  <1> QED
    BY <1>1, <1>2, <1>3, <1>4, <1>5, <1>6, <1>7, <1>8, <1>9 DEF Next

\* An error that was ignored, and a death, stay noticed.
LEMMA StepForgetsNothing ==
  ASSUME TypeOK, [Next]_vars
  PROVE  (hidden => hidden') /\ (crashed => crashed')
  <1> USE DEF TypeOK
  <1>1. CASE Request
    BY <1>1 DEF Request, Begin, BeginImport, BeginActivate, BeginUpdate, BeginRename, BeginDelete
  <1>2. CASE Commit \/ CommitFails \/ CommitFailsLate
    BY <1>2 DEF Commit, CommitFails, CommitFailsLate
  <1>3. CASE \E out \in Outcomes : Generate(out) \/ Reload(out)
    BY <1>3 DEF Generate, Reload
  <1>4. CASE \E seen \in BOOLEAN : Query(seen) \/ QueryOld(seen)
    BY <1>4 DEF Query, QueryOld
  <1>5. CASE Rollback
    BY <1>5 DEF Rollback, restoreConfigSnapshot, RegenerateOld, ReloadOld
  <1>6. CASE \E done \in BOOLEAN : Undo(done)
    BY <1>6 DEF Undo
  <1>7. CASE Return \/ GenerateElsewhere \/ Restart \/ CoreStarts \/ CoreStops \/ UNCHANGED vars
    BY <1>7 DEF Return, GenerateElsewhere, Restart, CoreStarts, CoreStops, vars
  <1> QED
    BY <1>1, <1>2, <1>3, <1>4, <1>5, <1>6, <1>7 DEF Next

LEMMA StepOldIsOld ==
  ASSUME TypeOK, CacheInStep, OldIsOld, [Next]_vars
  PROVE  OldIsOld'
  <1> SUFFICES ASSUME ~hidden', ~crashed', pc' # "idle", req'.op = "update", req'.old # None,
                      NEW i \in DOMAIN before'.subs, before'.subs[i].id = req'.id
               PROVE  before'.subs[i].sum = req'.old
    BY DEF OldIsOld
  <1>1. CASE Request
    <2>1. ~hidden /\ ~crashed
      BY StepForgetsNothing
    <2>2. PICK id \in Ids, c \in Contents, readable \in BOOLEAN : BeginUpdate(id, c, readable)
      BY <1>1 DEF Request, Begin, NoRequest, BeginImport, BeginActivate, BeginRename, BeginDelete
    <2>3. /\ pc = "idle" /\ before' = mem /\ req'.id = id
          /\ req'.old = IF readable /\ Meta(mem, id).sum # None THEN cache[id] ELSE None
      BY <2>2 DEF BeginUpdate, Begin, NoRequest
    <2>4. Meta(mem, id).sum # None /\ req'.old = cache[id]
      BY <2>3
    <2>5. Meta(mem, id) = mem.subs[i]
      BY <2>1, <2>3, MetaIsEntry DEF Meta, TypeOK
    <2> QED
      BY <2>1, <2>3, <2>4, <2>5 DEF CacheInStep, Replaced
  <1>2. CASE UNCHANGED <<req, before>> /\ (pc = "idle" <=> pc' = "idle")
    <2>1. (hidden => hidden') /\ (crashed => crashed')
      BY StepForgetsNothing
    <2> QED
      BY <1>2, <2>1 DEF OldIsOld
  <1> QED
    BY <1>1, <1>2, StepKeepsRequest

\* The snapshot's profiles have their files as long as it may be restored.
LEMMA StepSnapshotCached ==
  ASSUME IInv, TypeOK, RequestOK, CacheInStep, SnapshotCached, [Next]_vars
  PROVE  SnapshotCached'
  <1> SUFFICES ASSUME ~hidden', ~hidden, pc' \in Restorable
               PROVE  SnapshotCached'
    BY StepForgetsNothing DEF SnapshotCached
  <1>0. crashed => crashed'
    BY StepForgetsNothing
  <1>1. CASE Commit
    <2>1. /\ pc = "commit" /\ mem = before /\ before' = before /\ req' = req
          /\ cache' = cache /\ crashed' = crashed
      <3>1. pc' \in {"generate", "ok"}
        BY <1>1 DEF Commit, Succeed, Goto
      <3> QED
        BY <1>1, <3>1 DEF Commit, Succeed, Goto, RequestOK, Restorable
    <2> QED
      BY <2>1 DEF CacheInStep, SnapshotCached, Restorable
  <1>2. CASE UNCHANGED <<req, before, cache>> /\ pc \in Restorable
    BY <1>0, <1>2 DEF SnapshotCached
  <1>3. Commit \/ (UNCHANGED <<req, before, cache>> /\ pc \in Restorable)
    <2> USE DEF Goto, Restorable
    <2>1. CASE Request
      BY <2>1 DEF Request, Begin, BeginImport, BeginActivate, BeginUpdate, BeginRename, BeginDelete
    <2>2. CASE CommitFails \/ CommitFailsLate
      BY <2>2 DEF CommitFails, CommitFailsLate, AfterFailedCommit
    <2>3. CASE \E out \in Outcomes : Generate(out) \/ Reload(out)
      BY <2>3 DEF Generate, Reload, Succeed
    <2>4. CASE \E seen \in BOOLEAN : Query(seen) \/ QueryOld(seen)
      BY <2>4 DEF Query, QueryOld, Succeed
    <2>5. CASE Rollback
      BY <2>5 DEF Rollback, restoreConfigSnapshot, RegenerateOld, ReloadOld
    <2>6. CASE \E done \in BOOLEAN : Undo(done)
      BY <2>6 DEF Undo
    <2>7. CASE Return \/ GenerateElsewhere \/ Restart
      BY <2>7 DEF Return, GenerateElsewhere, Restart
    <2>8. CASE CoreStarts \/ CoreStops \/ UNCHANGED vars
      BY <2>8 DEF CoreStarts, CoreStops, vars
    <2> QED
      BY <2>1, <2>2, <2>3, <2>4, <2>5, <2>6, <2>7, <2>8 DEF Next
  <1> QED
    BY <1>1, <1>2, <1>3

\* The profiles in memory have their files.
LEMMA StepCacheInStep ==
  ASSUME IInv, TypeOK, RequestOK, DeletedGone, CacheInStep, SnapshotCached, OldIsOld, [Next]_vars
  PROVE  CacheInStep'
  <1> SUFFICES ASSUME ~hidden', ~hidden PROVE CacheInStep'
    BY StepForgetsNothing DEF CacheInStep
  <1>0. /\ crashed => crashed'
        /\ disk = mem /\ (pc \in Restored => mem = before)
    BY StepForgetsNothing DEF IInv, DiskFollows, SnapshotKept
  <1>E. \A i \in DOMAIN mem.subs : mem.subs[i].id \in Ids
    BY EntriesAreProfiles DEF TypeOK, WellFormed
  <1>1. CASE Request
    <2>1. CASE \E id \in Ids, n \in Names, c \in Contents : BeginImport(id, n, c)
      BY <1>E, <2>1 DEF BeginImport, Begin, Fresh, Has, CacheInStep, Replaced, TypeOK
    <2>2. CASE \E id \in Ids, c \in Contents, readable \in BOOLEAN : BeginUpdate(id, c, readable)
      <3> PICK id \in Ids, c \in Contents, readable \in BOOLEAN : BeginUpdate(id, c, readable)
        BY <2>2
      <3>1. /\ pc = "idle" /\ pc' = "commit" /\ UNCHANGED <<mem, crashed>>
            /\ req'.op = "update" /\ req'.id = id
            /\ cache' = [cache EXCEPT ![id] = c] /\ c # None
        BY ProfileConstantsOK DEF BeginUpdate, Begin, NoRequest
      <3> QED
        BY <1>E, <3>1 DEF CacheInStep, Replaced, TypeOK
    <2>3. CASE /\ pc = "idle" /\ UNCHANGED <<mem, cache, crashed>>
      BY <2>3 DEF CacheInStep, Replaced
    <2> QED
      BY <1>1, <2>1, <2>2, <2>3
      DEF Request, Begin, BeginActivate, BeginRename, BeginDelete
  <1>2. CASE Commit
    <2>1. /\ pc = "commit" /\ mem' = Edit(mem) /\ UNCHANGED <<req, crashed>>
          /\ \/ cache' = cache
             \/ req.op = "delete" /\ cache' = [cache EXCEPT ![req.id] = None]
      BY <1>2 DEF Commit, Succeed
    <2>2. SUFFICES ASSUME NEW j \in DOMAIN Edit(mem).subs, Edit(mem).subs[j].sum # None
                   PROVE  LET s == Edit(mem).subs[j] IN
                          cache'[s.id] # None /\ (crashed \/ cache'[s.id] = s.sum)
      BY <2>1 DEF CacheInStep
    <2>3. CASE /\ req.op \in {"import", "update"}
               /\ Edit(mem).subs[j].id = req.id /\ Edit(mem).subs[j].sum = req.content
      BY <2>1, <2>2, <2>3 DEF RequestOK
    <2>4. ASSUME NEW k \in DOMAIN mem.subs,
                 Edit(mem).subs[j].id = mem.subs[k].id, Edit(mem).subs[j].sum = mem.subs[k].sum,
                 req.op \in {"update", "delete"} => mem.subs[k].id # req.id
          PROVE  LET s == mem.subs[k] IN cache'[s.id] # None /\ (crashed \/ cache'[s.id] = s.sum)
      <3>1. LET s == mem.subs[k] IN cache[s.id] # None /\ (crashed \/ cache[s.id] = s.sum)
        BY <2>2, <2>4 DEF CacheInStep
      <3>2. cache'[mem.subs[k].id] = cache[mem.subs[k].id]
        BY <1>E, <2>1, <2>4 DEF TypeOK
      <3> QED
        BY <3>1, <3>2
    <2> QED
      BY <2>1, <2>3, <2>4, EditEntries
  <1>3. CASE CommitFails
    BY <1>3 DEF CommitFails, AfterFailedCommit, Goto, CacheInStep, Replaced
  <1>4. CASE CommitFailsLate
    BY <1>4 DEF CommitFailsLate
  <1>5. CASE \/ \E out \in Outcomes : Generate(out) \/ Reload(out)
             \/ \E seen \in BOOLEAN : Query(seen)
    <2>1. /\ pc \in {"generate", "query", "reload"} /\ UNCHANGED <<mem, req, crashed>>
          /\ \/ cache' = cache
             \/ /\ req.op = "delete" /\ pc \in {"query", "reload"}
                /\ cache' = [cache EXCEPT ![req.id] = None]
      BY <1>5 DEF Generate, Reload, Query, Succeed
    <2>2. req.op = "delete" => \A i \in DOMAIN mem.subs : mem.subs[i].id # req.id
      BY <2>1 DEF DeletedGone, Has
    <2>3. \A i \in DOMAIN mem.subs : cache'[mem.subs[i].id] = cache[mem.subs[i].id]
      BY <1>E, <2>1, <2>2 DEF TypeOK
    <2> QED
      BY <2>1, <2>3 DEF CacheInStep, Replaced
  <1>6. CASE \E seen \in BOOLEAN : QueryOld(seen)
    BY <1>6 DEF QueryOld, CacheInStep, Replaced
  <1>7. CASE Rollback
    <2> PICK out \in Outcomes :
          \/ restoreConfigSnapshot(out, "restore", "regenerate")
          \/ restoreConfigSnapshot(out, "restore_reload", "regenerate_reload")
          \/ RegenerateOld(out, "regenerate", "undo")
          \/ RegenerateOld(out, "regenerate_reload", "reload_old")
          \/ ReloadOld(out, "reload_old", "undo")
          \/ RegenerateOld(out, "rebuild", "requery")
          \/ ReloadOld(out, "reload_rebuilt", "error")
      BY <1>7 DEF Rollback
    <2>1. CASE \/ restoreConfigSnapshot(out, "restore", "regenerate")
               \/ restoreConfigSnapshot(out, "restore_reload", "regenerate_reload")
      <3>1. /\ pc \in Restorable /\ pc' \in Replaced /\ mem' = before
            /\ UNCHANGED <<cache, req, crashed>>
        BY <2>1 DEF restoreConfigSnapshot, Goto, Restorable, Replaced
      <3> QED
        BY <3>1 DEF SnapshotCached, CacheInStep
    <2>2. CASE ~(\/ restoreConfigSnapshot(out, "restore", "regenerate")
                 \/ restoreConfigSnapshot(out, "restore_reload", "regenerate_reload"))
      <3>1. /\ pc \in Replaced => pc' \in Replaced
            /\ UNCHANGED <<mem, cache, req, crashed>>
        BY <2>2 DEF RegenerateOld, ReloadOld, Goto, Replaced
      <3> QED
        BY <3>1 DEF CacheInStep
    <2> QED
      BY <2>1, <2>2
  <1>8. CASE \E done \in BOOLEAN : Undo(done)
    <2> PICK done \in BOOLEAN : Undo(done)
      BY <1>8
    <2>0. /\ pc = "undo" /\ UNCHANGED <<mem, req, crashed>> /\ mem = before
          /\ req.id \in Ids
      BY <1>0 DEF Undo, Restored, RequestOK
    <2>1. CASE req.op = "import"
      <3>1. \A i \in DOMAIN mem.subs : cache'[mem.subs[i].id] = cache[mem.subs[i].id]
        BY <1>E, <2>0, <2>1 DEF Undo, RequestOK, Has, TypeOK
      <3> QED
        BY <2>0, <2>1, <3>1 DEF CacheInStep
    <2>2. CASE req.op = "update"
      <3>1. req.old # None /\ cache' = [cache EXCEPT ![req.id] = req.old]
        BY <2>0, <2>2 DEF Undo
      <3>2. \A i \in DOMAIN mem.subs :
               /\ mem.subs[i].id = req.id => cache'[mem.subs[i].id] = req.old
               /\ mem.subs[i].id # req.id => cache'[mem.subs[i].id] = cache[mem.subs[i].id]
        BY <1>E, <3>1 DEF TypeOK
      <3>3. crashed \/ \A i \in DOMAIN mem.subs : mem.subs[i].id = req.id => mem.subs[i].sum = req.old
        BY <2>0, <2>2, <3>1 DEF OldIsOld
      <3> QED
        BY <2>0, <3>1, <3>2, <3>3 DEF CacheInStep
    <2>3. CASE req.op \notin {"import", "update"}
      BY <2>0, <2>3 DEF Undo, CacheInStep
    <2> QED
      BY <2>1, <2>2, <2>3
  <1>9. CASE Return \/ GenerateElsewhere \/ Restart
    BY <1>0, <1>9 DEF Return, GenerateElsewhere, Restart, Goto, Answers, CacheInStep, Replaced
  <1>10. CASE CoreStarts \/ CoreStops \/ UNCHANGED vars
    BY <1>10 DEF CoreStarts, CoreStops, vars, CacheInStep
  <1> QED
    BY <1>1, <1>2, <1>3, <1>4, <1>5, <1>6, <1>7, <1>8, <1>9, <1>10 DEF Next

\* A profile in memory that has been fetched can be generated from.
LEMMA FetchedCanGenerate ==
  ASSUME TypeOK, CacheInStep, ~hidden, Fetched(mem)
  PROVE  CanGenerate
  <1>1. mem.pool # None /\ Meta(mem, mem.pool).sum # None /\ Has(mem, mem.pool)
    BY PoolIsActive DEF TypeOK
  <1>2. /\ IndexOf(mem, mem.pool) \in DOMAIN mem.subs
        /\ mem.subs[IndexOf(mem, mem.pool)].id = mem.pool
    BY <1>1, IndexIsEntry
  <1> QED
    BY <1>1, <1>2 DEF CacheInStep, CanGenerate, Meta

\* The file generated is that of the profile active in memory.
LEMMA StepGeneratedInStep ==
  ASSUME IInv, TypeOK, RequestOK, CacheInStep, GeneratedInStep, [Next]_vars
  PROVE  GeneratedInStep'
  <1>0. (hidden => hidden') /\ (crashed => crashed')
    BY StepForgetsNothing
  <1>1. CASE Request
    <2>1. pc = "idle" /\ pc' = "commit" /\ UNCHANGED <<mem, gen>>
      BY <1>1 DEF Request, Begin, BeginImport, BeginActivate, BeginUpdate, BeginRename, BeginDelete
    <2> QED
      BY <1>0, <2>1 DEF GeneratedInStep, Applying, Regenerated, Fetched
  <1>2. CASE Commit
    <2>1. /\ pc = "commit" /\ mem' = Edit(mem) /\ gen' = gen
          /\ pc' = IF Applies THEN "generate" ELSE "ok"
      BY <1>2 DEF Commit, Succeed, Goto
    <2>2. CASE Applies
      BY <2>1, <2>2 DEF GeneratedInStep, Applying, Regenerated
    <2>3. CASE ~Applies
      <3>1. Fetched(mem)' = Fetched(Edit(mem))
        BY <2>1 DEF Fetched
      <3> QED
        BY <1>0, <2>1, <2>3, <3>1, EditKeepsActive DEF GeneratedInStep, Applying, Regenerated
    <2> QED
      BY <2>2, <2>3
  <1>3. CASE CommitFails \/ CommitFailsLate
    <2>1. /\ pc = "commit" /\ UNCHANGED <<mem, gen>> /\ pc' \in {"undo", "error"}
      BY <1>3 DEF CommitFails, CommitFailsLate, AfterFailedCommit, Goto
    <2> QED
      BY <1>0, <2>1 DEF GeneratedInStep, Applying, Regenerated, Fetched
  <1>4. CASE \E out \in Outcomes : Generate(out)
    <2>1. /\ mem' = mem /\ pc' \in {"query", "restore"}
          /\ pc' = "query" => gen' = mem.pool
      BY <1>4 DEF Generate, GenerateMihomoConfig, Goto
    <2> QED
      BY <2>1 DEF GeneratedInStep, Applying, Regenerated
  <1>5. CASE \E out \in Outcomes : Reload(out)
    <2>1. /\ pc = "reload" /\ UNCHANGED <<mem, gen>> /\ pc' \in {"applied", "restore_reload"}
      BY <1>5 DEF Reload, Succeed, Goto
    <2> QED
      BY <2>1 DEF GeneratedInStep, Applying, Regenerated
  <1>6. CASE \E seen \in BOOLEAN : Query(seen)
    <2>1. /\ pc = "query" /\ UNCHANGED <<mem, gen>> /\ pc' \in {"reload", "applied", "overlooked"}
      BY <1>6 DEF Query, Succeed, Goto
    <2> QED
      BY <2>1 DEF GeneratedInStep, Applying, Regenerated
  <1>7. CASE \E seen \in BOOLEAN : QueryOld(seen)
    <2>1. /\ pc = "requery" /\ UNCHANGED <<mem, gen>> /\ pc' \in {"reload_rebuilt", "error"}
      BY <1>7 DEF QueryOld, Goto
    <2> QED
      BY <1>0, <2>1 DEF GeneratedInStep, Applying, Regenerated, Fetched
  <1>8. CASE Rollback
    <2> PICK out \in Outcomes :
          \/ restoreConfigSnapshot(out, "restore", "regenerate")
          \/ restoreConfigSnapshot(out, "restore_reload", "regenerate_reload")
          \/ RegenerateOld(out, "regenerate", "undo")
          \/ RegenerateOld(out, "regenerate_reload", "reload_old")
          \/ ReloadOld(out, "reload_old", "undo")
          \/ RegenerateOld(out, "rebuild", "requery")
          \/ ReloadOld(out, "reload_rebuilt", "error")
      BY <1>8 DEF Rollback
    <2>1. CASE \/ restoreConfigSnapshot(out, "restore", "regenerate")
               \/ restoreConfigSnapshot(out, "restore_reload", "regenerate_reload")
      BY <2>1 DEF restoreConfigSnapshot, Goto, GeneratedInStep, Applying, Regenerated
    <2>2. CASE \/ RegenerateOld(out, "regenerate", "undo")
               \/ RegenerateOld(out, "regenerate_reload", "reload_old")
               \/ RegenerateOld(out, "rebuild", "requery")
      <3>1. /\ mem' = mem /\ pc' \in {"undo", "reload_old", "requery"}
            /\ out # "fails" => gen' = mem.pool
            /\ out = "fails" /\ CanGenerate => hidden'
        BY <2>2 DEF RegenerateOld, GenerateMihomoConfig, Goto
      <3>2. ~hidden' /\ Fetched(mem) => gen' = mem.pool
        BY <1>0, <3>1, FetchedCanGenerate
      <3> QED
        BY <3>1, <3>2 DEF GeneratedInStep, Applying, Fetched
    <2>3. CASE \/ ReloadOld(out, "reload_old", "undo")
               \/ ReloadOld(out, "reload_rebuilt", "error")
      <3>1. /\ pc \in Regenerated /\ pc' \in {"undo", "error"} /\ UNCHANGED <<mem, gen>>
        BY <2>3 DEF ReloadOld, Goto, Regenerated
      <3> QED
        BY <1>0, <3>1 DEF GeneratedInStep, Applying, Fetched
    <2> QED
      BY <2>1, <2>2, <2>3
  <1>9. CASE \E done \in BOOLEAN : Undo(done)
    <2>1. /\ pc = "undo" /\ UNCHANGED <<mem, gen>> /\ pc' \in {"rebuild", "error"}
      BY <1>9 DEF Undo, Goto
    <2> QED
      BY <1>0, <2>1 DEF GeneratedInStep, Applying, Regenerated, Fetched
  <1>10. CASE Return
    <2>1. /\ pc \in Applying \cup {"ok", "error"} /\ UNCHANGED <<mem, gen>> /\ pc' = "idle"
      BY <1>10 DEF Return, Goto, Answers, Applying
    <2> QED
      BY <1>0, <2>1 DEF GeneratedInStep, Applying, Regenerated, Fetched
  <1>11. CASE GenerateElsewhere
    <2>1. UNCHANGED <<mem, pc>> /\ gen' = mem.pool
      BY <1>11 DEF GenerateElsewhere, GenerateMihomoConfig
    <2> QED
      BY <2>1 DEF GeneratedInStep
  <1>12. CASE Restart
    <2>1. /\ mem' = disk /\ gen' = gen /\ pc' = "idle" /\ hidden' = hidden
          /\ ~crashed' => pc = "idle"
      BY <1>12 DEF Restart, Goto
    <2>2. ~hidden' => mem' = mem
      BY <1>0, <2>1 DEF IInv, DiskFollows
    <2> QED
      BY <1>0, <2>1, <2>2 DEF GeneratedInStep, Applying, Regenerated, Fetched
  <1>13. CASE CoreStarts \/ CoreStops \/ UNCHANGED vars
    <2>1. UNCHANGED <<mem, gen, pc, hidden, crashed>>
      BY <1>13 DEF CoreStarts, CoreStops, vars
    <2> QED
      BY <2>1 DEF GeneratedInStep, Fetched
  <1> QED
    BY <1>1, <1>2, <1>3, <1>4, <1>5, <1>6, <1>7, <1>8, <1>9, <1>10, <1>11, <1>12, <1>13 DEF Next

\* A core that has been told keeps up, and one that starts reads the new file.
LEMMA StepAppliedReachesCore ==
  ASSUME TypeOK, RequestOK, DeletedGone, GeneratedInStep, GeneratedInStep', AppliedReachesCore,
         [Next]_vars
  PROVE  AppliedReachesCore'
  <1> SUFFICES ASSUME pc' = "applied" PROVE core'.up => core' = Loaded'
    BY DEF AppliedReachesCore, GeneratedInStep, Applying
  <1> USE DEF Goto
  <1>1. CASE \E out \in Outcomes : Reload(out)
    <2>1. /\ pc = "reload" /\ core' = Loaded /\ UNCHANGED <<mem, gen>>
          /\ \/ cache' = cache
             \/ req.op = "delete" /\ cache' = [cache EXCEPT ![req.id] = None]
      BY <1>1 DEF Reload, ReloadConfigs, Succeed
    <2>2. gen = mem.pool /\ (mem.pool # None => mem.pool \in Ids /\ Has(mem, mem.pool))
      BY <2>1, PoolIsActive DEF GeneratedInStep, Applying, TypeOK
    <2>3. gen # None => cache'[gen] = cache[gen]
      BY <2>1, <2>2 DEF DeletedGone, TypeOK
    <2> QED
      BY <2>1, <2>3 DEF Loaded
  <1>2. CASE \E seen \in BOOLEAN : Query(seen)
    BY <1>2 DEF Query, Succeed
  <1>3. CASE CoreStarts
    BY <1>3 DEF CoreStarts, Loaded
  <1>4. CASE CoreStops
    BY <1>4 DEF CoreStops, Down
  <1>5. CASE UNCHANGED vars
    BY <1>5 DEF vars, AppliedReachesCore, Loaded
  <1>6. CASE Request
    BY <1>6 DEF Request, Begin, BeginImport, BeginActivate, BeginUpdate, BeginRename, BeginDelete
  <1>7. CASE Commit \/ CommitFails \/ CommitFailsLate
    BY <1>7 DEF Commit, CommitFails, CommitFailsLate, AfterFailedCommit, Succeed
  <1>8. CASE \/ \E out \in Outcomes : Generate(out)
             \/ \E seen \in BOOLEAN : QueryOld(seen)
             \/ \E done \in BOOLEAN : Undo(done)
    BY <1>8 DEF Generate, QueryOld, Undo
  <1>9. CASE Rollback
    BY <1>9 DEF Rollback, restoreConfigSnapshot, RegenerateOld, ReloadOld
  <1>10. CASE Return \/ GenerateElsewhere \/ Restart
    BY <1>10 DEF Return, GenerateElsewhere, Restart, Answers
  <1> QED
    BY <1>1, <1>2, <1>3, <1>4, <1>5, <1>6, <1>7, <1>8, <1>9, <1>10 DEF Next

-----------------------------------------------------------------------------
(* The invariant, and what follows from it *)

LEMMA InitContent == Init => ContentInv
  <1> SUFFICES ASSUME Init PROVE ContentInv
    OBVIOUS
  <1>1. TypeOK
    BY InitType
  <1>2. \A i \in DOMAIN mem.subs : mem.subs[i].sum = None
    <2>1. CASE mem = Empty
      BY <2>1 DEF Empty
    <2>2. ASSUME NEW id \in Ids, NEW n \in Names, NEW a \in {0, 1},
                 mem = normalizeProfilePool(<<[id |-> id, name |-> n, sum |-> None]>>, a)
          PROVE  \A i \in DOMAIN mem.subs : mem.subs[i].sum = None
      <3> DEFINE subs == <<[id |-> id, name |-> n, sum |-> None]>>
      <3>1. subs[1].sum = None /\ \A i \in DOMAIN subs : i = 1
        OBVIOUS
      <3>2. mem.subs = subs
        BY <2>2, <3>1 DEF normalizeProfilePool
      <3> QED
        BY <3>1, <3>2
    <2> QED
      BY <2>1, <2>2 DEF Init
  <1>3. pc = "idle" /\ req.op = "none"
    BY DEF Init, NoRequest
  <1>4. CacheInStep /\ ~Fetched(mem)
    BY <1>2 DEF CacheInStep, Fetched
  <1> QED
    BY <1>1, <1>3, <1>4
    DEF ContentInv, RequestOK, DeletedGone, SnapshotCached, Restorable, OldIsOld,
        GeneratedInStep, Applying, AppliedReachesCore

LEMMA StepContent == IInv /\ ContentInv /\ [Next]_vars => ContentInv'
  <1> SUFFICES ASSUME IInv, ContentInv, [Next]_vars PROVE ContentInv'
    OBVIOUS
  <1>1. /\ TypeOK /\ RequestOK /\ DeletedGone /\ CacheInStep /\ SnapshotCached /\ OldIsOld
        /\ GeneratedInStep /\ AppliedReachesCore
    BY DEF ContentInv
  <1>2. TypeOK' /\ RequestOK' /\ DeletedGone'
    BY <1>1, StepType, StepRequestOK, StepDeletedGone
  <1>3. CacheInStep' /\ SnapshotCached' /\ OldIsOld'
    BY <1>1, StepCacheInStep, StepSnapshotCached, StepOldIsOld
  <1>4. GeneratedInStep'
    BY <1>1, StepGeneratedInStep
  <1>5. AppliedReachesCore'
    BY <1>1, <1>4, StepAppliedReachesCore
  <1> QED
    BY <1>2, <1>3, <1>4, <1>5 DEF ContentInv

LEMMA ContentHolds == Spec => [](IInv /\ ContentInv)
  BY InitIInv, StepIInv, InitContent, StepContent, PTL DEF Spec

\* Every variable keeps its type: in particular memory, disk and snapshot are
\* configurations Validate accepts, with the pool of their active profile.
THEOREM TypeCorrect == Spec => []TypeOK
  <1>1. ContentInv => TypeOK
    BY DEF ContentInv
  <1> QED
    BY <1>1, ContentHolds, PTL

\* A profile with a digest has its cache file, and between two requests with
\* the content of the digest, unless a rollback failed unnoticed or the
\* manager died in a request.
THEOREM CacheMatchesProfileHolds == Spec => []CacheMatchesProfile
  <1>1. IInv /\ ContentInv => CacheMatchesProfile
    <2> SUFFICES ASSUME IInv, CacheInStep, ~hidden, NEW i \in DOMAIN mem.subs,
                        mem.subs[i].sum # None
                 PROVE  /\ cache[mem.subs[i].id] # None
                        /\ Idle /\ ~crashed => cache[mem.subs[i].id] = mem.subs[i].sum
      BY DEF CacheMatchesProfile, ContentInv, IInv, DiskFollows
    <2> QED
      BY DEF CacheInStep, Idle, Answers, Replaced
  <1> QED
    BY <1>1, ContentHolds, PTL

\* Between two requests the generated configuration is that of the active
\* profile, if that can be generated.
THEOREM GeneratedIsActiveHolds == Spec => []GeneratedIsActive
  <1>1. ContentInv => GeneratedIsActive
    <2> SUFFICES ASSUME TypeOK, GeneratedInStep, Idle, ~hidden, ~crashed, CanGenerate
                 PROVE  gen = mem.pool
      BY DEF GeneratedIsActive, ContentInv
    <2>1. Fetched(mem)
      BY PoolIsActive DEF CanGenerate, TypeOK
    <2> QED
      BY <2>1 DEF GeneratedInStep, Idle, Answers, Applying, Regenerated
  <1> QED
    BY <1>1, ContentHolds, PTL

\* A change that is answered "applied" has reached a running core, and a core
\* that starts afterwards.
THEOREM AppliedReachesCoreHolds == Spec => []AppliedReachesCore
  <1>1. ContentInv => AppliedReachesCore
    BY DEF ContentInv
  <1> QED
    BY <1>1, ContentHolds, PTL

-----------------------------------------------------------------------------
(* The other profiles *)

\* Where the others go from one configuration to another, in the same order.
Moves(a, b, id, f) ==
  /\ \A i \in DOMAIN a.subs :
       a.subs[i].id # id => f[i] \in DOMAIN b.subs /\ b.subs[f[i]] = a.subs[i]
  /\ \A i, j \in DOMAIN a.subs :
       a.subs[i].id # id /\ a.subs[j].id # id /\ i <= j => f[i] <= f[j]

LEMMA MovedBothWays ==
  ASSUME NEW a, NEW b, NEW id, NEW f, NEW g, Moves(a, b, id, f), Moves(b, a, id, g)
  PROVE  SameOthers(a, b, id)
  <1> SUFFICES ASSUME NEW s \in Profile, NEW t \in Profile, s.id # id, t.id # id
               PROVE  InOrder(a, s, t) <=> InOrder(b, s, t)
    BY DEF SameOthers
  <1>1. ASSUME InOrder(a, s, t) PROVE InOrder(b, s, t)
    BY <1>1 DEF InOrder, Moves
  <1>2. ASSUME InOrder(b, s, t) PROVE InOrder(a, s, t)
    BY <1>2 DEF InOrder, Moves
  <1> QED
    BY <1>1, <1>2

\* Nothing moves: the others are where they were.
LEMMA SamePlaces ==
  ASSUME NEW a, NEW b, NEW id,
         \A i \in DOMAIN a.subs : a.subs[i].id # id => i \in DOMAIN b.subs /\ b.subs[i] = a.subs[i],
         \A i \in DOMAIN b.subs : b.subs[i].id # id => i \in DOMAIN a.subs /\ a.subs[i] = b.subs[i]
  PROVE  SameOthers(a, b, id)
  <1> SUFFICES ASSUME NEW s \in Profile, NEW t \in Profile, s.id # id, t.id # id
               PROVE  InOrder(a, s, t) <=> InOrder(b, s, t)
    BY DEF SameOthers
  <1> QED
    BY DEF InOrder

LEMMA EditOthers ==
  ASSUME TypeOK, RequestOK, pc = "commit"
  PROVE  SameOthers(Edit(mem), mem, req.id)
  <1> DEFINE i == IndexOf(mem, req.id)
  <1>1. /\ WellFormed(mem) /\ mem.subs \in Seq(Profile) /\ mem.active \in Nat /\ Len(mem.subs) \in Nat
        /\ DOMAIN mem.subs = 1 .. Len(mem.subs)
    BY EditCases, LenProperties
  <1>2. req.op # "import" => i \in 1 .. Len(mem.subs) /\ mem.subs[i].id = req.id
    BY EditCases
  <1>3. req.op # "import" => mem.subs[i] \in Profile
    BY <1>1, <1>2, ElementOfSeq
  <1> HIDE DEF i
  <1>4. CASE req.op = "import"
    <2> DEFINE new == Append(mem.subs, NewEntry)
    <2>1. NewEntry \in Profile /\ NewEntry.id = req.id
      BY <1>4 DEF RequestOK, NewEntry, Profile
    <2>2. /\ new \in Seq(Profile) /\ DOMAIN new = 1 .. Len(mem.subs) + 1
          /\ \A k \in 1 .. Len(mem.subs) : new[k] = mem.subs[k]
          /\ new[Len(mem.subs) + 1] = NewEntry
      BY <1>1, <2>1, AppendProperties
    <2> HIDE DEF new
    <2>3. PICK a \in Nat : Edit(mem) = normalizeProfilePool(new, a)
      BY <1>1, <1>4, EditCases DEF new
    <2>4. Edit(mem).subs = new
      BY <2>2, <2>3, NormalizedPool
    <2>5. \A k \in DOMAIN new : k \in DOMAIN mem.subs \/ new[k].id = req.id
      BY <1>1, <2>1, <2>2
    <2>6. \A k \in DOMAIN mem.subs : k \in DOMAIN new /\ new[k] = mem.subs[k]
      BY <1>1, <2>2
    <2> QED
      BY <2>4, <2>5, <2>6, SamePlaces
  <1>5. CASE req.op = "activate"
    <2>1. Edit(mem).subs = mem.subs
      BY <1>1, <1>2, <1>5, NormalizedPool, EditCases DEF i
    <2> QED
      BY <2>1, SamePlaces
  <1>6. CASE req.op \in {"update", "rename"}
    <2>1. PICK e \in Profile : e.id = req.id /\ Edit(mem) = Replace(mem, i, e)
      <3>1. CASE req.op = "update"
        <4>1. Updated(i) \in Profile /\ Updated(i).id = req.id
          BY <1>2, <1>3, <3>1 DEF RequestOK, Updated, Profile
        <4> QED
          BY <3>1, <4>1, EditCases DEF i
      <3>2. CASE req.op = "rename"
        <4>1. Renamed(i) \in Profile /\ Renamed(i).id = req.id
          BY <1>2, <1>3, <3>2 DEF RequestOK, Renamed, Profile
        <4> QED
          BY <3>2, <4>1, EditCases DEF i
      <3> QED
        BY <1>6, <3>1, <3>2
    <2>2. /\ Edit(mem) \in ConfigType /\ Len(Edit(mem).subs) = Len(mem.subs)
          /\ \A k \in 1 .. Len(mem.subs) : Edit(mem).subs[k] = IF k = i THEN e ELSE mem.subs[k]
      BY <1>1, <1>2, <1>6, <2>1, EntryReplaced
    <2>3. DOMAIN Edit(mem).subs = DOMAIN mem.subs
      BY <1>1, <2>2, LenProperties DEF ConfigType
    <2> QED
      BY <1>1, <1>2, <1>6, <2>1, <2>2, <2>3, SamePlaces
  <1>7. CASE req.op = "delete"
    <2> DEFINE left == Without(mem.subs, i)
               n == Len(mem.subs)
               f == [k \in 1 .. n |-> IF k < i THEN k ELSE k - 1]
               g == [k \in 1 .. n - 1 |-> IF k < i THEN k ELSE k + 1]
    <2>1. /\ left \in Seq(Profile) /\ Len(left) = n - 1
          /\ \A k \in 1 .. n - 1 : left[k] = IF k < i THEN mem.subs[k] ELSE mem.subs[k + 1]
      BY <1>1, <1>2, <1>7, WithoutProperties
    <2>2. DOMAIN left = 1 .. n - 1 /\ n \in Nat /\ i \in 1 .. n /\ mem.subs[i].id = req.id
      BY <1>1, <1>2, <1>7, <2>1, LenProperties
    <2> HIDE DEF left
    <2>3. Edit(mem).subs = left
      <3>1. PICK a \in Nat : Edit(mem) = normalizeProfilePool(left, a)
        BY <1>1, <1>2, <1>7, <2>1, EditCases DEF RemoveSubscription, left, i
      <3> QED
        BY <2>1, <3>1, NormalizedPool
    <2> HIDE DEF n
    <2>4. DOMAIN mem.subs = 1 .. n
      BY <1>1 DEF n
    <2>5. Moves(mem, Edit(mem), req.id, f)
      <3>1. ASSUME NEW k \in 1 .. n, mem.subs[k].id # req.id
            PROVE  f[k] \in 1 .. n - 1 /\ left[f[k]] = mem.subs[k]
        <4>1. k # i
          BY <2>2, <3>1
        <4>2. CASE k < i
          BY <2>1, <2>2, <4>2
        <4>3. CASE k > i
          <5>1. f[k] = k - 1 /\ k - 1 \in 1 .. n - 1 /\ ~(k - 1 < i) /\ k - 1 + 1 = k
            BY <2>2, <4>3
          <5> QED
            BY <2>1, <5>1
        <4> QED
          BY <2>2, <4>1, <4>2, <4>3
      <3>2. ASSUME NEW k \in 1 .. n, NEW l \in 1 .. n, k # i, l # i, k <= l
            PROVE  f[k] <= f[l]
        BY <2>2, <3>2
      <3> QED
        BY <2>2, <2>3, <2>4, <3>1, <3>2 DEF Moves
    <2>6. Moves(Edit(mem), mem, req.id, g)
      <3>1. ASSUME NEW k \in 1 .. n - 1 PROVE g[k] \in 1 .. n /\ mem.subs[g[k]] = left[k]
        BY <2>1, <2>2
      <3>2. ASSUME NEW k \in 1 .. n - 1, NEW l \in 1 .. n - 1, k <= l PROVE g[k] <= g[l]
        BY <2>2, <3>2
      <3> QED
        BY <2>2, <2>3, <2>4, <3>1, <3>2 DEF Moves
    <2> QED
      BY <2>5, <2>6, MovedBothWays
  <1> QED
    BY <1>4, <1>5, <1>6, <1>7 DEF RequestOK, Ops

\* The active profile stays as long as it is there, unless another one is activated.
LEMMA EditPool ==
  ASSUME TypeOK, RequestOK, pc = "commit", Edit(mem).pool # mem.pool,
         mem.pool \notin {None, req.id}
  PROVE  req.op = "activate" /\ Edit(mem).pool = req.id
  <1> DEFINE i == IndexOf(mem, req.id)
  <1>1. /\ WellFormed(mem) /\ mem.subs \in Seq(Profile) /\ mem.active \in Nat /\ Len(mem.subs) \in Nat
        /\ DOMAIN mem.subs = 1 .. Len(mem.subs)
    BY EditCases, LenProperties
  <1>2. req.op # "import" => i \in 1 .. Len(mem.subs) /\ mem.subs[i].id = req.id
    BY EditCases
  <1>3. mem.active \in 1 .. Len(mem.subs) /\ mem.pool = mem.subs[mem.active].id
    BY <1>1, PoolIsActive
  <1>4. req.op # "import" => mem.subs[i] \in Profile
    BY <1>1, <1>2, ElementOfSeq
  <1> HIDE DEF i
  <1>5. CASE req.op = "import"
    <2> DEFINE new == Append(mem.subs, NewEntry)
    <2>1. NewEntry \in Profile
      BY <1>5 DEF RequestOK, NewEntry, Profile
    <2>2. /\ new \in Seq(Profile) /\ new # <<>> /\ mem.active \in DOMAIN new
          /\ new[mem.active] = mem.subs[mem.active]
      BY <1>1, <1>3, <2>1, AppendProperties
    <2> HIDE DEF new
    <2>3. Edit(mem) = normalizeProfilePool(new, mem.active)
      BY <1>1, <1>3, <1>5, EditCases DEF new
    <2> QED
      BY <1>3, <2>2, <2>3 DEF normalizeProfilePool
  <1>6. CASE req.op = "activate"
    <2>1. Edit(mem) = normalizeProfilePool(mem.subs, i) /\ mem.subs # <<>>
      BY <1>1, <1>3, <1>6, EditCases DEF i
    <2> QED
      BY <1>1, <1>2, <1>6, <2>1 DEF normalizeProfilePool
  <1>7. CASE req.op = "update"
    <2>1. Updated(i) \in Profile /\ Updated(i).id = mem.subs[i].id
      BY <1>4, <1>7 DEF RequestOK, Updated, Profile
    <2> QED
      BY <1>1, <1>2, <1>7, <2>1, EntryReplaced, EditCases DEF i
  <1>8. CASE req.op = "rename"
    <2>1. Renamed(i) \in Profile /\ Renamed(i).id = mem.subs[i].id
      BY <1>4, <1>8 DEF RequestOK, Renamed, Profile
    <2> QED
      BY <1>1, <1>2, <1>8, <2>1, EntryReplaced, EditCases DEF i
  <1>9. CASE req.op = "delete"
    <2> DEFINE left == Without(mem.subs, i)
               a == IF mem.active > i \/ mem.active > Len(left) THEN mem.active - 1 ELSE mem.active
    <2>1. /\ left \in Seq(Profile) /\ Len(left) = Len(mem.subs) - 1
          /\ \A k \in 1 .. Len(mem.subs) - 1 : left[k] = IF k < i THEN mem.subs[k] ELSE mem.subs[k + 1]
      BY <1>1, <1>2, <1>9, WithoutProperties
    <2>2. Edit(mem) = normalizeProfilePool(left, a)
      BY <1>9, EditCases DEF RemoveSubscription, i
    <2> HIDE DEF left
    <2>3. mem.active # i
      BY <1>2, <1>3, <1>9
    <2>4. a \in 1 .. Len(mem.subs) - 1 /\ left[a] = mem.subs[mem.active]
      <3>1. i \in 1 .. Len(mem.subs)
        BY <1>2, <1>9
      <3>2. CASE mem.active > i
        <4>1. a = mem.active - 1 /\ a \in 1 .. Len(mem.subs) - 1 /\ ~(a < i) /\ a + 1 = mem.active
          BY <1>1, <1>3, <3>1, <3>2
        <4> QED
          BY <2>1, <4>1
      <3>3. CASE mem.active < i
        <4>1. a = mem.active /\ a \in 1 .. Len(mem.subs) - 1 /\ a < i
          BY <1>1, <1>3, <2>1, <3>1, <3>3
        <4> QED
          BY <2>1, <4>1
      <3> QED
        BY <1>3, <2>3, <3>1, <3>2, <3>3
    <2> HIDE DEF a
    <2>5. a \in DOMAIN left /\ left # <<>>
      BY <2>1, <2>4, LenProperties
    <2> QED
      BY <1>3, <2>2, <2>4, <2>5 DEF normalizeProfilePool
  <1> QED
    BY <1>5, <1>6, <1>7, <1>8, <1>9 DEF RequestOK, Ops

\* What a request may change and go back from: its own profile.
OthersKept == pc # "idle" => SameOthers(mem, before, req.id)

\* What a step does to memory.
LEMMA StepMemory ==
  ASSUME [Next]_vars, pc' # "idle"
  PROVE  \/ pc = "idle" /\ mem' = mem /\ before' = mem
         \/ /\ pc # "idle" /\ UNCHANGED <<req, before>>
            /\ \/ mem' = mem
               \/ pc = "commit" /\ mem' = Edit(mem)
               \/ pc # "commit" /\ mem' = before
  <1> USE DEF Goto
  <1>1. CASE Request
    BY <1>1 DEF Request, Begin, BeginImport, BeginActivate, BeginUpdate, BeginRename, BeginDelete
  <1>2. CASE Commit \/ CommitFails \/ CommitFailsLate
    BY <1>2 DEF Commit, CommitFails, CommitFailsLate
  <1>3. CASE \/ \E out \in Outcomes : Generate(out) \/ Reload(out)
             \/ \E seen \in BOOLEAN : Query(seen) \/ QueryOld(seen)
             \/ \E done \in BOOLEAN : Undo(done)
    BY <1>3 DEF Generate, Reload, Query, QueryOld, Undo
  <1>4. CASE Rollback
    BY <1>4 DEF Rollback, restoreConfigSnapshot, RegenerateOld, ReloadOld
  <1>5. CASE Return \/ GenerateElsewhere \/ Restart
    BY <1>5 DEF Return, GenerateElsewhere, Restart
  <1>6. CASE CoreStarts \/ CoreStops \/ UNCHANGED vars
    BY <1>6 DEF CoreStarts, CoreStops, vars
  <1> QED
    BY <1>1, <1>2, <1>3, <1>4, <1>5, <1>6 DEF Next

LEMMA StepOthers ==
  ASSUME TypeOK, RequestOK, OthersKept, [Next]_vars, pc' # "idle"
  PROVE  OthersKept' /\ SameOthers(mem', mem, req.id)
  <1>1. \A a, id : SameOthers(a, a, id)
    BY DEF SameOthers
  <1>2. \A a, b, id : SameOthers(a, b, id) => SameOthers(b, a, id)
    BY DEF SameOthers
  <1>3. CASE pc = "idle"
    BY <1>1, <1>3, StepMemory DEF OthersKept
  <1>4. CASE pc = "commit"
    <2>1. mem = before /\ UNCHANGED <<req, before>> /\ mem' \in {mem, Edit(mem)}
      BY <1>4, StepMemory DEF RequestOK
    <2> QED
      BY <1>1, <1>4, <2>1, EditOthers DEF OthersKept
  <1>5. CASE pc \notin {"idle", "commit"}
    BY <1>1, <1>2, <1>5, StepMemory DEF OthersKept
  <1> QED
    BY <1>3, <1>4, <1>5

\* A request, its commit and its rollback leave every other profile as it is, in the
\* same order, and active if it was, unless another one is activated.
THEOREM OthersUntouchedHolds == Spec => OthersUntouched
  <1>1. Init => OthersKept
    BY DEF Init, OthersKept
  <1>2. ContentInv /\ OthersKept /\ [Next]_vars => OthersKept'
    <2> SUFFICES ASSUME ContentInv, OthersKept, [Next]_vars, pc' # "idle" PROVE OthersKept'
      BY DEF OthersKept
    <2> QED
      BY StepOthers DEF ContentInv
  <1>3. ContentInv /\ OthersKept /\ [Next]_vars =>
          [pc' # "idle" =>
             /\ SameOthers(mem', mem, req.id)
             /\ pc = "commit" /\ mem'.pool # mem.pool =>
                     \/ mem.pool \in {None, req.id}
                     \/ req.op = "activate" /\ mem'.pool = req.id]_vars
    <2> SUFFICES ASSUME ContentInv, OthersKept, [Next]_vars, pc' # "idle"
                 PROVE  /\ SameOthers(mem', mem, req.id)
                        /\ pc = "commit" /\ mem'.pool # mem.pool =>
                                \/ mem.pool \in {None, req.id}
                                \/ req.op = "activate" /\ mem'.pool = req.id
      OBVIOUS
    <2>1. TypeOK /\ RequestOK
      BY DEF ContentInv
    <2>2. SameOthers(mem', mem, req.id)
      BY <2>1, StepOthers
    <2>3. pc = "commit" /\ mem'.pool # mem.pool => mem' = Edit(mem)
      BY StepMemory
    <2> QED
      BY <2>1, <2>2, <2>3, EditPool
  <1> QED
    BY <1>1, <1>2, <1>3, ContentHolds, PTL DEF Spec, OthersUntouched

=============================================================================
