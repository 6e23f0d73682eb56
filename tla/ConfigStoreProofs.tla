------------------------- MODULE ConfigStoreProofs -------------------------
(* Proofs about ConfigStore, for any sets of clients, bodies and secrets.    *)
EXTENDS ConfigStore, TLAPS

\* A flush in flight belongs to a live process: a commit carries the next
\* version, a load what the files already hold.
FlushInFlight ==
  /\ flush.pc # "idle" => proc # "down"
  /\ proc = "loading" =>
       flush.pc # "idle" /\ flush.why \in {"load", "unread"} /\ flush.next = mem
  /\ flush.pc # "idle" /\ proc = "up" => flush.why = "commit" /\ flush.next.ver = mem.ver + 1

\* What a load has in memory agrees with the files it came from, secret
\* included, until its own Flush has replaced them; a load that could not read
\* the private file has the inline secret.  A file that is not there has none.
LoadAgrees ==
  /\ ~main.present => main.inline = NoSecret
  /\ proc = "loading" =>
       /\ main.present =>
            mem.sec = IF flush.why = "unread" THEN main.inline ELSE MergedSecret
       /\ flush.pc = "main" => sec = flush.next.sec

\* Memory against config.yaml.
MemoryOnDisk ==
  proc # "down" =>
    IF main.present
    THEN \/ main.ver = mem.ver /\ main.body = mem.body
         \/ proc = "up" /\ main.ver = mem.ver + 1
    ELSE mem = defaultConfig

\* No client holds a version that config.yaml, or memory, has not reached, and
\* the version it shares with them has one content.
ClientsBehind ==
  \A c \in Clients :
    /\ IF main.present
       THEN /\ base[c].ver <= main.ver
            /\ base[c].ver = main.ver => base[c].body = main.body
       ELSE base[c].ver = 0 /\ base[c].body = DefaultBody
    /\ proc # "down" =>
         /\ base[c].ver <= mem.ver
         /\ base[c].ver = mem.ver => base[c].body = mem.body

\* The inductive invariant; the part about versions holds until a load falls
\* back to defaults.
IInv ==
  /\ TypeOK
  /\ FlushInFlight
  /\ LoadAgrees
  /\ ~degraded => MemoryOnDisk /\ ClientsBehind

-----------------------------------------------------------------------------
\* The initial states satisfy the inductive invariant.
LEMMA InitIInv == Init => IInv
  <1> SUFFICES ASSUME Init PROVE IInv
    OBVIOUS
  <1> USE ConstantsOK DEF Init, SecretValue, defaultConfig
  <1>1. TypeOK
    <2>1. main \in PublicFile
      BY DEF PublicFile
    <2>2. mem \in Config /\ flush.pc = "idle" /\ flush \in [pc : {"idle", "secrets", "main"},
              why : {"commit", "load", "unread"}, next : Config]
      BY DEF Config, NoFlush
    <2>3. base \in [Clients -> Snapshot]
      <3>1. [ver |-> 0, body |-> main.body] \in Snapshot
        BY <2>1 DEF PublicFile, Snapshot
      <3> QED
        BY <3>1
    <2> QED
      BY <2>1, <2>2, <2>3 DEF TypeOK
  <1>2. FlushInFlight /\ LoadAgrees /\ MemoryOnDisk
    BY DEF FlushInFlight, LoadAgrees, MemoryOnDisk, NoFlush
  <1>3. ClientsBehind
    <2>1. main.ver = 0 /\ proc = "down" /\ (~main.present => main.body = DefaultBody)
      OBVIOUS
    <2>2. ASSUME NEW c \in Clients
          PROVE base[c].ver = 0 /\ base[c].body = main.body
      <3>1. base[c] = [ver |-> 0, body |-> main.body]
        BY Zenon
      <3> QED
        BY <3>1
    <2> HIDE DEF Init
    <2>3. 0 <= main.ver /\ ~(0 > main.ver)
      BY <2>1
    <2>4. ASSUME NEW c \in Clients
          PROVE base[c].ver <= main.ver /\ (base[c].ver = main.ver => base[c].body = main.body)
      BY <2>1, <2>2
    <2> QED
      BY <2>1, <2>2, <2>4, Zenon DEF ClientsBehind
  <1> QED
    BY <1>1, <1>2, <1>3 DEF IInv

\* Every step preserves the types.
LEMMA NextTypeOK == TypeOK /\ [Next]_vars => TypeOK'
  <1> SUFFICES ASSUME TypeOK, [Next]_vars PROVE TypeOK'
    OBVIOUS
  <1> USE ConstantsOK DEF TypeOK, Config, PublicFile, Snapshot, SecretValue,
          defaultConfig, NoFlush
  <1>1. CASE LoadConfig
    <2>1. Merged \in Config
      BY DEF Merged, MergedSecret
    <2>2. mem' \in Config /\ proc' \in {"down", "loading", "up"}
      BY <1>1, <2>1 DEF LoadConfig, Loads
    <2>3. flush' \in [pc : {"idle", "secrets", "main"}, why : {"commit", "load", "unread"}, next : Config]
      BY <1>1, <2>1 DEF LoadConfig, Loads
    <2> QED
      BY <1>1, <2>2, <2>3 DEF LoadConfig, Loads
  <1>2. CASE LoadUnreadableMain \/ LoadUnreadableSecrets
    <2>1. mem' \in Config
      BY <1>2 DEF LoadUnreadableMain, LoadUnreadableSecrets, Loads
    <2>2. flush' \in [pc : {"idle", "secrets", "main"}, why : {"commit", "load", "unread"}, next : Config]
      BY <1>2 DEF LoadUnreadableMain, LoadUnreadableSecrets, Loads
    <2> QED
      BY <1>2, <2>1, <2>2 DEF LoadUnreadableMain, LoadUnreadableSecrets, Loads
  <1>3. ASSUME NEW c \in Clients, Read(c) PROVE TypeOK'
    BY <1>3 DEF Read
  <1>4. ASSUME NEW b \in Bodies, NEW s \in SecretValue, commitConfigLocked(b, s)
        PROVE TypeOK'
    BY <1>4 DEF commitConfigLocked
  <1>5. ASSUME NEW out \in WriteOutcomes, writeRuntimeSecrets(out) PROVE TypeOK'
    BY <1>5 DEF writeRuntimeSecrets, FlushEnds, WriteOutcomes
  <1>6. ASSUME NEW out \in WriteOutcomes, writeMainConfig(out) PROVE TypeOK'
    <2>1. publicConfigForDisk(flush.next) \in PublicFile
      BY DEF publicConfigForDisk
    <2> QED
      BY <1>6, <2>1 DEF writeMainConfig, FlushEnds, WriteOutcomes
  <1>7. CASE Crash
    BY <1>7 DEF Crash
  <1>8. CASE UNCHANGED vars
    BY <1>8 DEF vars
  <1>9. ASSUME NEW c \in Clients, NEW b \in Bodies, NEW s \in SecretValue,
               ReplaceGlobalConfig(c, b, s)
        PROVE TypeOK'
    BY <1>4, <1>9 DEF ReplaceGlobalConfig
  <1> QED
    BY <1>1, <1>2, <1>3, <1>4, <1>5, <1>6, <1>7, <1>8, <1>9
       DEF Next, UpdateGlobalConfig

\* Every step preserves the inductive invariant.
LEMMA NextIInv == IInv /\ [Next]_vars => IInv'
  <1> SUFFICES ASSUME IInv, [Next]_vars PROVE IInv'
    OBVIOUS
  <1>0. TypeOK /\ TypeOK'
    BY NextTypeOK DEF IInv
  <1> USE <1>0
  <1> USE DEF IInv, FlushInFlight, LoadAgrees, MergedSecret
  <1>1. CASE LoadConfig
    <2>1. FlushInFlight' /\ LoadAgrees'
      BY <1>1 DEF LoadConfig, Loads, Merged, TypeOK
    <2>2. ASSUME ~degraded PROVE MemoryOnDisk'
      BY <1>1, <2>2 DEF LoadConfig, Loads, Merged, MemoryOnDisk
    <2>3. ASSUME ~degraded PROVE ClientsBehind'
      BY <1>1, <2>3 DEF LoadConfig, Loads, Merged, ClientsBehind, defaultConfig
    <2> QED
      BY <1>1, <2>1, <2>2, <2>3 DEF LoadConfig, Loads
  <1>2. CASE LoadUnreadableMain \/ LoadUnreadableSecrets
    BY <1>2 DEF LoadUnreadableMain, LoadUnreadableSecrets, Loads, TypeOK
  <1>3. ASSUME NEW c \in Clients, Read(c) PROVE IInv'
    <2>1. ASSUME ~degraded PROVE ClientsBehind'
      BY <1>3, <2>1 DEF Read, ClientsBehind, MemoryOnDisk, TypeOK, Config, PublicFile,
                        defaultConfig
    <2> QED
      BY <1>3, <2>1 DEF Read, MemoryOnDisk
  <1>4. ASSUME NEW b \in Bodies, NEW s \in SecretValue, commitConfigLocked(b, s)
        PROVE IInv'
    BY <1>4 DEF commitConfigLocked, MemoryOnDisk, ClientsBehind
  <1>5. ASSUME NEW out \in WriteOutcomes, writeRuntimeSecrets(out) PROVE IInv'
    <2>1. FlushInFlight' /\ LoadAgrees'
      BY <1>5 DEF writeRuntimeSecrets, FlushEnds, NoFlush, TypeOK, WriteOutcomes
    <2>2. ASSUME ~degraded PROVE MemoryOnDisk' /\ ClientsBehind'
      BY <1>5, <2>2 DEF writeRuntimeSecrets, FlushEnds, MemoryOnDisk, ClientsBehind
    <2> QED
      BY <1>5, <2>1, <2>2 DEF writeRuntimeSecrets
  <1>6. ASSUME NEW out \in WriteOutcomes, writeMainConfig(out) PROVE IInv'
    <2>1. FlushInFlight' /\ LoadAgrees'
      BY <1>6 DEF writeMainConfig, FlushEnds, NoFlush, TypeOK, publicConfigForDisk
    <2>2. ASSUME ~degraded PROVE MemoryOnDisk'
      BY <1>6, <2>2 DEF writeMainConfig, FlushEnds, MemoryOnDisk, publicConfigForDisk,
                        TypeOK, WriteOutcomes, defaultConfig
    <2>3. ASSUME ~degraded PROVE ClientsBehind'
      BY <1>6, <2>3 DEF writeMainConfig, FlushEnds, ClientsBehind, MemoryOnDisk,
                        publicConfigForDisk, TypeOK, Config, PublicFile, Snapshot,
                        WriteOutcomes, defaultConfig
    <2> QED
      BY <1>6, <2>1, <2>2, <2>3 DEF writeMainConfig
  <1>7. CASE Crash
    BY <1>7 DEF Crash, NoFlush, MemoryOnDisk, ClientsBehind
  <1>8. CASE UNCHANGED vars
    BY <1>8 DEF vars, MemoryOnDisk, ClientsBehind
  <1>9. ASSUME NEW c \in Clients, NEW b \in Bodies, NEW s \in SecretValue,
               ReplaceGlobalConfig(c, b, s)
        PROVE IInv'
    BY <1>4, <1>9 DEF ReplaceGlobalConfig, TypeOK, Config
  <1> QED
    BY <1>1, <1>2, <1>3, <1>4, <1>5, <1>6, <1>7, <1>8, <1>9
       DEF Next, UpdateGlobalConfig

\* IInv is an invariant.
LEMMA Inductive == Spec => []IInv
  BY InitIInv, NextIInv, PTL DEF Spec

\* A restart never loads an older configuration than the committed one.
THEOREM RestartKeepsCommittedHolds == Spec => []RestartKeepsCommitted
  <1>1. IInv => RestartKeepsCommitted
    BY DEF IInv, MemoryOnDisk, RestartKeepsCommitted
  <1> QED
    BY <1>1, Inductive, PTL

\* A client that holds the current version holds the current content.
THEOREM VersionIdentifiesContentHolds == Spec => []VersionIdentifiesContent
  <1>1. IInv => VersionIdentifiesContent
    BY DEF IInv, ClientsBehind, VersionIdentifiesContent
  <1> QED
    BY <1>1, Inductive, PTL

\* No step of a load loses the secret it migrates, unless it could not read the
\* private file.
THEOREM MigrationKeepsSecretHolds == Spec => MigrationKeepsSecret
  <1>1. ASSUME IInv, [Next]_vars, proc = "loading", main.inline # NoSecret, ~UNCHANGED vars
        PROVE  \/ MergedSecret' = MergedSecret
               \/ flush.why = "unread" /\ MergedSecret' = main.inline
    <2> USE <1>1
    <2>1. CASE Crash
      BY <2>1 DEF Crash, MergedSecret
    <2>2. ASSUME NEW out \in WriteOutcomes, writeRuntimeSecrets(out)
          PROVE \/ MergedSecret' = MergedSecret
                \/ flush.why = "unread" /\ MergedSecret' = main.inline
      BY <2>2 DEF writeRuntimeSecrets, MergedSecret, IInv, FlushInFlight, LoadAgrees
    <2>3. ASSUME NEW out \in WriteOutcomes, writeMainConfig(out)
          PROVE \/ MergedSecret' = MergedSecret
                \/ flush.why = "unread" /\ MergedSecret' = main.inline
      BY <2>3 DEF writeMainConfig, MergedSecret, IInv, FlushInFlight, LoadAgrees,
                  publicConfigForDisk
    <2> QED
      BY <2>1, <2>2, <2>3
         DEF Next, LoadConfig, LoadUnreadableMain, LoadUnreadableSecrets, Loads, Read,
             UpdateGlobalConfig, ReplaceGlobalConfig, commitConfigLocked
  <1> QED
    BY <1>1, Inductive, PTL DEF Spec, MigrationKeepsSecret

\* TypeOK is an invariant.
THEOREM TypeCorrect == Spec => []TypeOK
  <1>1. Init => TypeOK
    BY InitIInv DEF IInv
  <1> QED
    BY <1>1, NextTypeOK, PTL DEF Spec
=============================================================================
