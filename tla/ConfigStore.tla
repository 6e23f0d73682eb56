---------------------------- MODULE ConfigStore ----------------------------
(***************************************************************************)
(* The manager's configuration store (mihomotui/config_store.go, with      *)
(* LoadConfig and Flush of config.go and the private file of secrets.go).  *)
(*                                                                         *)
(* The configuration lives in three places: the process's globalConfig,    *)
(* the public file config.yaml and the private file holding the secrets.   *)
(* A commit writes the private file, then the public one, and only then    *)
(* replaces globalConfig; it holds configMu throughout, so at most one     *)
(* flush is in flight.  Clients outside the process keep the version and   *)
(* the content they last read and commit whole configurations against it.  *)
(* The process may be killed between any two of these steps.               *)
(*                                                                         *)
(* A body stands for everything the public file keeps, a secret for        *)
(* everything the private file keeps; only bodies Validate accepts are     *)
(* committed.                                                              *)
(***************************************************************************)
EXTENDS Integers

CONSTANTS
  Clients,      \* processes that read and replace the whole configuration
  Bodies,       \* contents of the public file
  DefaultBody,  \* the content of defaultConfig()
  Secrets,      \* contents of the private file
  NoSecret,     \* the empty secret: no private file, or an empty field in it
  MaxVersion    \* bound: no commit starts once Version has reached it

ASSUME ConstantsOK ==
  /\ DefaultBody \in Bodies
  /\ NoSecret \notin Secrets
  /\ MaxVersion \in Nat

SecretValue == Secrets \cup {NoSecret}

\* Config: the fields a commit may change.  The public file additionally may
\* hold a secret inline: versions before the split wrote it there.
Config     == [ver : Nat, body : Bodies, sec : SecretValue]
PublicFile == [present : BOOLEAN, ver : Nat, body : Bodies, inline : SecretValue]
Snapshot   == [ver : Nat, body : Bodies]

VARIABLES
  mem,       \* globalConfig, meaningful while proc = "up"
  main,      \* config.yaml
  sec,       \* the private file
  proc,      \* "down", "loading" (inside LoadConfig's own Flush) or "up"
  flush,     \* the Flush in flight and what it was called for
  base,      \* what each client last read
  degraded   \* history: some load replaced unreadable content by defaults

vars == <<mem, main, sec, proc, flush, base, degraded>>

defaultConfig == [ver |-> 0, body |-> DefaultBody, sec |-> NoSecret]
NoFlush       == [pc |-> "idle", why |-> "commit", next |-> defaultConfig]

\* publicConfigForDisk: the public file never keeps a secret again.
publicConfigForDisk(cfg) ==
  [present |-> TRUE, ver |-> cfg.ver, body |-> cfg.body, inline |-> NoSecret]

\* loadRuntimeSecrets: a non-empty private value wins over the inline one.
MergedSecret == IF sec = NoSecret THEN main.inline ELSE sec

\* What LoadConfig makes of the two files when both can be read.
Merged ==
  IF main.present
  THEN [ver |-> main.ver, body |-> main.body, sec |-> MergedSecret]
  ELSE defaultConfig

TypeOK ==
  /\ mem \in Config
  /\ main \in PublicFile
  /\ sec \in SecretValue
  /\ proc \in {"down", "loading", "up"}
  /\ flush \in [pc : {"idle", "secrets", "main"}, why : {"commit", "load", "unread"},
                next : Config]
  /\ base \in [Clients -> Snapshot]
  /\ degraded \in BOOLEAN

(***************************************************************************)
(* Initially the process is not running.  The disk is that of a fresh      *)
(* installation, or was written by a version that kept the secret inline.  *)
(***************************************************************************)
Init ==
  /\ mem = defaultConfig
  /\ main \in [present : BOOLEAN, ver : {0}, body : Bodies, inline : SecretValue]
  /\ ~main.present => main.body = DefaultBody /\ main.inline = NoSecret
  /\ sec = NoSecret
  /\ proc = "down"
  /\ flush = NoFlush
  /\ base = [c \in Clients |-> [ver |-> 0, body |-> main.body]]
  /\ degraded = FALSE

-----------------------------------------------------------------------------
(* Loading *)

\* LoadConfig flushes only a fresh default and a file with an inline secret.
LoadNeedsFlush == ~main.present \/ main.inline # NoSecret

\* A load that needs it flushes what it has read before it returns.
Loads(cfg, flushes, step, why) ==
  /\ proc = "down"
  /\ mem' = cfg
  /\ IF flushes
       THEN /\ proc' = "loading"
            /\ flush' = [pc |-> step, why |-> why, next |-> cfg]
       ELSE /\ proc' = "up"
            /\ flush' = flush
  /\ UNCHANGED <<main, sec, base>>

\* Mutant: the public file is rewritten without the private one.
LoadConfigMainOnly ==
  /\ Loads(Merged, LoadNeedsFlush, "main", "load")
  /\ UNCHANGED degraded

LoadConfig ==
  /\ Loads(Merged, LoadNeedsFlush, "secrets", "load")
  /\ UNCHANGED degraded

\* config.yaml exists but cannot be read or parsed: the defaults stand in for
\* it and the file stays as it is.
LoadUnreadableMain ==
  /\ proc = "down"
  /\ main.present
  /\ mem' = defaultConfig
  /\ proc' = "up"
  /\ degraded' = TRUE
  /\ UNCHANGED <<main, sec, flush, base>>

\* The private file cannot be read: a warning, and its values are missing.  An
\* inline secret is moved all the same, over the file that was not read.
LoadUnreadableSecrets ==
  /\ main.present /\ sec # NoSecret
  /\ Loads([ver |-> main.ver, body |-> main.body, sec |-> main.inline],
           main.inline # NoSecret, "secrets", "unread")
  /\ degraded' = TRUE

-----------------------------------------------------------------------------
(* Committing *)

\* GlobalConfig() and the read half of a client's read-modify-write.
Read(c) ==
  /\ proc = "up" /\ flush.pc = "idle"
  /\ base' = [base EXCEPT ![c] = [ver |-> mem.ver, body |-> mem.body]]
  /\ UNCHANGED <<mem, main, sec, proc, flush, degraded>>

\* Mutant: the version is not incremented.
commitConfigLockedSameVersion(b, s) ==
  /\ proc = "up" /\ flush.pc = "idle"
  /\ mem.ver < MaxVersion
  /\ flush' = [pc |-> "secrets", why |-> "commit",
               next |-> [ver |-> mem.ver, body |-> b, sec |-> s]]
  /\ UNCHANGED <<mem, main, sec, proc, base, degraded>>

\* commitConfigLocked up to the call of Flush.
commitConfigLocked(b, s) ==
  /\ proc = "up" /\ flush.pc = "idle"
  /\ mem.ver < MaxVersion
  /\ flush' = [pc |-> "secrets", why |-> "commit",
               next |-> [ver |-> mem.ver + 1, body |-> b, sec |-> s]]
  /\ UNCHANGED <<mem, main, sec, proc, base, degraded>>

\* UpdateGlobalConfig(fn): fn edits a clone of the current configuration, to
\* (b, s); a nil or failing fn commits nothing.
UpdateGlobalConfig(b, s) == commitConfigLocked(b, s)

\* ReplaceGlobalConfig(req): req must carry the current version; an empty
\* secret keeps the current one.
ReplaceGlobalConfig(c, b, s) ==
  /\ base[c].ver = mem.ver
  /\ commitConfigLocked(b, IF s = NoSecret THEN mem.sec ELSE s)

-----------------------------------------------------------------------------
(* Flush.  writePrivateFileAtomically replaces its file by rename and then   *)
(* tightens its mode: it can fail before the rename (file unchanged) and     *)
(* after it (file replaced, the caller sees an error all the same).          *)

WriteOutcomes == [replaced : BOOLEAN, ok : BOOLEAN] \ {[replaced |-> FALSE, ok |-> TRUE]}

\* A finished load uses what it read whether or not its Flush succeeded; a
\* commit leaves globalConfig alone when Flush fails.
FlushEnds ==
  /\ flush' = NoFlush
  /\ proc' = "up"

writeRuntimeSecrets(out) ==
  /\ flush.pc = "secrets"
  /\ sec' = IF out.replaced THEN flush.next.sec ELSE sec
  /\ IF out.ok
       THEN flush' = [flush EXCEPT !.pc = "main"] /\ proc' = proc
       ELSE FlushEnds
  /\ UNCHANGED <<mem, main, base, degraded>>

\* Mutant: memory is replaced whether or not the write succeeded.
writeMainConfigSwapsAnyway(out) ==
  /\ flush.pc = "main"
  /\ main' = IF out.replaced THEN publicConfigForDisk(flush.next) ELSE main
  /\ mem' = flush.next
  /\ FlushEnds
  /\ UNCHANGED <<sec, base, degraded>>

writeMainConfig(out) ==
  /\ flush.pc = "main"
  /\ main' = IF out.replaced THEN publicConfigForDisk(flush.next) ELSE main
  /\ mem' = IF out.ok THEN flush.next ELSE mem
  /\ FlushEnds
  /\ UNCHANGED <<sec, base, degraded>>

\* The process dies at any point; the files keep what the renames left there.
Crash ==
  /\ proc # "down"
  /\ proc' = "down"
  /\ mem' = defaultConfig
  /\ flush' = NoFlush
  /\ UNCHANGED <<main, sec, base, degraded>>

-----------------------------------------------------------------------------
Next ==
  \/ LoadConfig \/ LoadUnreadableMain \/ LoadUnreadableSecrets
  \/ \E c \in Clients : Read(c)
  \/ \E b \in Bodies, s \in SecretValue : UpdateGlobalConfig(b, s)
  \/ \E c \in Clients, b \in Bodies, s \in SecretValue : ReplaceGlobalConfig(c, b, s)
  \/ \E out \in WriteOutcomes : writeRuntimeSecrets(out) \/ writeMainConfig(out)
  \/ Crash

Spec == Init /\ [][Next]_vars

-----------------------------------------------------------------------------
(* Properties *)

\* The configuration a restart would load is never older than the committed
\* one the process works with: config.yaml carries the version in memory, with
\* the content in memory, or the version right after it (a commit whose error
\* came after the rename).  It fails if memory is replaced before the file, or
\* a failed commit is kept in memory.  (commitConfigLocked: flush, then swap.)
RestartKeepsCommitted ==
  proc = "up" /\ ~degraded =>
    IF main.present
    THEN \/ main.ver = mem.ver /\ main.body = mem.body
         \/ main.ver = mem.ver + 1
    ELSE mem = defaultConfig

\* The version check of ReplaceGlobalConfig is enough against lost updates: a
\* client whose version is the current one has read the current content, over
\* failed commits and restarts, as long as no load fell back to defaults (a
\* fallback restarts the numbering at 0).
VersionIdentifiesContent ==
  proc = "up" /\ ~degraded =>
    \A c \in Clients : base[c].ver = mem.ver => base[c].body = mem.body

\* Moving an inline secret of an old config.yaml to the private file loses no
\* secret at any point of LoadConfig: whatever write fails, and wherever the
\* process dies, the next load finds the secret this one would have.  (Flush
\* writes the private file before the public one.)  Only a load that could not
\* read the private file may put something else in its place, and that is then
\* the inline secret; its values are lost (config.go:400-403, 465-471).
MigrationKeepsSecret ==
  [][proc = "loading" /\ main.inline # NoSecret =>
       \/ MergedSecret' = MergedSecret
       \/ flush.why = "unread" /\ MergedSecret' = main.inline]_vars

=============================================================================
