---------------------------- MODULE LogRecorder ----------------------------
(***************************************************************************)
(* The recorder of the core's logs (mihomotui/manager_logging.go), the     *)
(* request that switches it (handleManagerLogging) and the daemon's start. *)
(*                                                                         *)
(* While recording is enabled a goroutine, recordLoop, subscribes to the   *)
(* core's log stream and writes its lines to a file, which is rotated      *)
(* through MaxBackups older ones.  The switch is part of the               *)
(* configuration; a request commits it, has the recorder follow and undoes *)
(* the commit when that fails.  Requests are serialised by actionMu; the   *)
(* goroutines run beside them, and an old one may outlive the two seconds  *)
(* for which it is waited.                                                 *)
(*                                                                         *)
(* All lines have length 1.  The lines written are numbered round a circle *)
(* that has one number more than the files together have room for.         *)
(***************************************************************************)
EXTENDS Integers, Sequences, FiniteSets

CONSTANTS
  MaxBytes,    \* room in a file
  MaxBackups,  \* older files
  Loops        \* bound on the goroutines alive at once

ASSUME RecorderConstantsOK ==
  MaxBytes \in Nat \ {0} /\ MaxBackups \in Nat \ {0} /\ "none" \notin Loops

VARIABLES
  mem, disk,   \* ManagedLogging.Enabled in globalConfig and in config.yaml
  enabled,     \* the recorder is enabled
  open,        \* it has a file
  size,        \* what it takes for the length of that file
  reader,      \* the goroutine whose cancel and done it has
  files,       \* the current file (0) and the older ones
  loop,        \* where each goroutine is
  cancelled,   \* whether its context is
  stage,       \* where the request is, or the daemon's start
  asked, prev, \* the setting asked for, and the one before
  awaiting,    \* the goroutine a request waits for
  last,        \* the number of the last line written
  recent,      \* lines written since the last rotation that failed, bounded
  hidden,      \* a request or a start could not undo its commit
  calm         \* from now on disk and core do their part

recorder == <<enabled, open, size, reader>>
request  == <<stage, asked, prev, awaiting>>
setting  == <<mem, disk, hidden>>
written  == <<last, recent>>
recorderVars == <<setting, recorder, files, loop, cancelled, request, written, calm>>

Slots    == 0 .. MaxBackups
Room     == MaxBytes * MaxBackups           \* what the older files hold
Numbers  == 0 .. Room + MaxBytes
Outcomes == {"works", "fails", "late"}
Succ(k)  == (k + 1) % (Room + MaxBytes + 1)

RecorderTypeOK ==
  /\ mem \in BOOLEAN /\ disk \in BOOLEAN /\ hidden \in BOOLEAN /\ calm \in BOOLEAN
  /\ enabled \in BOOLEAN /\ open \in BOOLEAN
  /\ size \in 0 .. MaxBytes
  /\ reader \in Loops \cup {"none"}
  /\ files \in [Slots -> Seq(Numbers)]
  /\ loop \in [Loops -> {"none", "subscribe", "reading", "write", "failed", "backoff"}]
  /\ cancelled \in [Loops -> BOOLEAN]
  /\ stage \in {"starting", "unset", "commit", "apply", "waiting", "undo", "reapply", "ready"}
  /\ asked \in BOOLEAN /\ prev \in BOOLEAN
  /\ awaiting \in Loops \cup {"none"}
  /\ last \in Numbers /\ recent \in 0 .. Room
  /\ enabled <=> reader # "none"
  /\ \A l \in Loops : loop[l] # "none" /\ ~cancelled[l] => l = reader

RecorderInit ==
  /\ mem \in BOOLEAN /\ disk = mem /\ hidden = FALSE /\ calm = FALSE
  /\ enabled = FALSE /\ open = FALSE /\ size = 0 /\ reader = "none"
  /\ files = [i \in Slots |-> <<>>]
  /\ loop = [l \in Loops |-> "none"] /\ cancelled = [l \in Loops |-> FALSE]
  /\ stage = "starting" /\ asked = FALSE /\ prev = FALSE /\ awaiting = "none"
  /\ last = 0 /\ recent = 0

-----------------------------------------------------------------------------
(* The files *)

\* openLocked opens the current file to append, and asks for its length.
OpenedSize(fs) == Len(fs[0])

\* Mutant: the renames begin with the newest file, and meet it each time.
ShiftedNewestFirst(n, removed) ==
  [i \in Slots |-> IF i = n THEN files[0]
                   ELSE IF i < n \/ (i = MaxBackups /\ removed) THEN <<>> ELSE files[i]]

\* rotateLocked: the files after removing the oldest, which may fail, and the
\* first n renames; each moves a file to the next older place, if there is one.
Shifted(n, removed) ==
  [i \in Slots |->
     IF i > MaxBackups - n /\ files[i - 1] # <<>> THEN files[i - 1]
     ELSE IF i < MaxBackups - n \/ (i = MaxBackups /\ ~removed) THEN files[i]
     ELSE <<>>]

\* A rename fails, or the opening of the new file: there is none from now on.
RotateFails ==
  /\ ~calm
  /\ \E n \in Slots, removed \in BOOLEAN :
       /\ files' = Shifted(n, removed)
       /\ size' = IF n = MaxBackups THEN 0 ELSE size
  /\ open' = FALSE
  /\ recent' = 0
  /\ UNCHANGED last

\* The line goes to the current one of the files fs, of which it takes sz to
\* be the length.  An error may come when part of the line is there.
WriteTo(fs, sz, out) ==
  /\ calm => out = "works"
  /\ IF out = "fails"
     THEN files' = fs /\ size' = sz /\ UNCHANGED <<last, recent>>
     ELSE /\ files' = [fs EXCEPT ![0] = Append(@, Succ(last))]
          /\ size' = sz + 1
          /\ last' = Succ(last)
          /\ recent' = IF recent < Room THEN recent + 1 ELSE recent
  /\ UNCHANGED open

-----------------------------------------------------------------------------
(* recordLoop *)

Move(l, p) == loop' = [loop EXCEPT ![l] = p]

\* A cancelled context ends the goroutine at the top, or fails the request.
Subscribe(l) ==
  /\ loop[l] = "subscribe"
  /\ \/ cancelled[l] /\ Move(l, "none")
     \/ ~cancelled[l] /\ Move(l, "reading")
     \/ ~cancelled[l] /\ ~calm /\ Move(l, "failed")
  /\ UNCHANGED <<setting, recorder, files, cancelled, request, written, calm>>

\* consume: a line arrives, or the stream ends.
Scan(l) ==
  /\ loop[l] = "reading"
  /\ \/ ~cancelled[l] /\ Move(l, "write")
     \/ (cancelled[l] \/ ~calm) /\ Move(l, "failed")
  /\ UNCHANGED <<setting, recorder, files, cancelled, request, written, calm>>

\* writeLine, under the mutex.
writeLine(l) ==
  /\ loop[l] = "write"
  /\ \/ /\ ~enabled \/ ~open
        /\ Move(l, "failed")
        /\ UNCHANGED <<open, size, files, written>>
     \/ /\ enabled /\ open
        /\ \E out \in Outcomes, removed \in BOOLEAN :
             /\ IF size > 0 /\ size + 1 > MaxBytes
                THEN LET fs == Shifted(MaxBackups, removed) IN WriteTo(fs, OpenedSize(fs), out)
                ELSE WriteTo(files, size, out)
             /\ Move(l, IF out = "works" THEN "reading" ELSE "failed")
     \/ /\ enabled /\ open
        /\ size > 0 /\ size + 1 > MaxBytes
        /\ RotateFails
        /\ Move(l, "failed")
  /\ UNCHANGED <<setting, enabled, reader, cancelled, request, calm>>

\* Mutant: a stream that has ended is not asked for again.
FailedForGood(l) ==
  /\ loop[l] = "failed"
  /\ Move(l, "none")
  /\ UNCHANGED <<setting, recorder, files, cancelled, request, written, calm>>

\* The error is kept for the status.
Failed(l) ==
  /\ loop[l] = "failed"
  /\ Move(l, IF cancelled[l] THEN "none" ELSE "backoff")
  /\ UNCHANGED <<setting, recorder, files, cancelled, request, written, calm>>

Backoff(l) ==
  /\ loop[l] = "backoff"
  /\ Move(l, IF cancelled[l] THEN "none" ELSE "subscribe")
  /\ UNCHANGED <<setting, recorder, files, cancelled, request, written, calm>>

-----------------------------------------------------------------------------
(* Switching *)

\* enable: the file is opened and a goroutine started.
enable(l) ==
  /\ loop[l] = "none"
  /\ enabled' = TRUE /\ open' = TRUE /\ size' = OpenedSize(files) /\ reader' = l
  /\ loop' = [loop EXCEPT ![l] = "subscribe"]
  /\ cancelled' = [cancelled EXCEPT ![l] = FALSE]

\* Mutant: the goroutine's context is not cancelled.
disableKeepsReader ==
  /\ enabled' = FALSE /\ open' = FALSE /\ reader' = "none"
  /\ awaiting' = reader
  /\ UNCHANGED <<size, loop, cancelled>>

\* disable: the file is closed and the goroutine told to end.
disable ==
  /\ enabled' = FALSE /\ open' = FALSE /\ reader' = "none"
  /\ cancelled' = [cancelled EXCEPT ![reader] = TRUE]
  /\ awaiting' = reader
  /\ UNCHANGED <<size, loop>>

\* A request that is answered leaves no variables behind.
ToStage(p) ==
  /\ stage' = p
  /\ IF p = "ready" THEN asked' = FALSE /\ prev' = FALSE ELSE UNCHANGED <<asked, prev>>

Unmoved == UNCHANGED <<recorder, loop, cancelled, awaiting>>

\* Apply: nothing is done when the recorder counts as what is asked for.
Apply(p, e, good, bad) ==
  /\ stage = p
  /\ \/ enabled = e /\ Unmoved /\ ToStage(good)
     \/ enabled /\ ~e /\ disable /\ ToStage("waiting")
     \/ ~enabled /\ e /\ (\E l \in Loops : enable(l)) /\ UNCHANGED awaiting /\ ToStage(good)
     \/ ~enabled /\ e /\ ~calm /\ Unmoved /\ ToStage(bad)
  /\ UNCHANGED <<mem, disk, files, written, calm>>

\* UpdateGlobalConfig, in the ways a commit can end (module ConfigStore).
UpdateGlobalConfig(e, out) ==
  /\ calm => out = "works"
  /\ mem' = IF out = "works" THEN e ELSE mem
  /\ disk' = IF out = "fails" THEN disk ELSE e
  /\ UNCHANGED <<recorder, files, loop, cancelled, awaiting, written, calm>>

handleManagerLogging(e) ==
  /\ stage = "ready"
  /\ stage' = "commit" /\ asked' = e /\ prev' = mem
  /\ UNCHANGED <<setting, recorder, files, loop, cancelled, awaiting, written, calm>>

CommitSetting(out) ==
  /\ stage = "commit"
  /\ UpdateGlobalConfig(asked, out)
  /\ ToStage(IF out = "works" THEN "apply" ELSE "ready")
  /\ UNCHANGED hidden

ApplySetting ==
  /\ Apply("apply", asked, "ready", "undo")
  /\ hidden' = (hidden /\ stage' = "undo")

\* The goroutine has ended, or two seconds have passed.
Wait ==
  /\ stage = "waiting"
  /\ ToStage("ready") /\ awaiting' = "none"
  /\ UNCHANGED <<setting, recorder, files, loop, cancelled, written, calm>>

\* Mutant: the setting is not taken back.
UndoNothing(out) ==
  /\ stage = "undo" /\ ToStage("reapply") /\ out = "works"
  /\ UNCHANGED <<setting, recorder, files, loop, cancelled, awaiting, written, calm>>

Undo(out) ==
  /\ stage = "undo"
  /\ UpdateGlobalConfig(prev, out)
  /\ ToStage("reapply")
  /\ hidden' = (hidden \/ out # "works")

Reapply == Apply("reapply", prev, "ready", "ready") /\ UNCHANGED hidden

-----------------------------------------------------------------------------
(* The daemon *)

\* What was enabled is resumed, or else the setting is given up.
Start == Apply("starting", mem, "ready", "unset") /\ UNCHANGED hidden

StartUnset(out) ==
  /\ stage = "unset"
  /\ UpdateGlobalConfig(FALSE, out)
  /\ ToStage("ready")
  /\ hidden' = (out # "works")

\* The daemon ends, in order or not; its files stay.
Restart ==
  /\ stage' = "starting"
  /\ mem' = disk /\ hidden' = FALSE
  /\ enabled' = FALSE /\ open' = FALSE /\ size' = 0 /\ reader' = "none"
  /\ loop' = [l \in Loops |-> "none"] /\ cancelled' = [l \in Loops |-> FALSE]
  /\ asked' = FALSE /\ prev' = FALSE /\ awaiting' = "none"
  /\ UNCHANGED <<disk, files, written, calm>>

\* From now on the disk works, and the core serves its logs.
CalmDown ==
  /\ ~calm /\ calm' = TRUE
  /\ UNCHANGED <<setting, recorder, files, loop, cancelled, request, written>>

RecorderNext ==
  \/ \E l \in Loops : Subscribe(l) \/ Scan(l) \/ writeLine(l) \/ Failed(l) \/ Backoff(l)
  \/ \E e \in BOOLEAN : handleManagerLogging(e)
  \/ \E out \in Outcomes : CommitSetting(out) \/ Undo(out) \/ StartUnset(out)
  \/ ApplySetting \/ Wait \/ Reapply
  \/ Start \/ Restart \/ CalmDown

\* A goroutine runs; a calm core sends a line sooner or later, and a cancelled
\* stream ends.
Run(l) ==
  \/ Subscribe(l) \/ writeLine(l) \/ Failed(l) \/ Backoff(l)
  \/ (calm \/ cancelled[l]) /\ Scan(l)

RecorderSpec ==
  RecorderInit /\ [][RecorderNext]_recorderVars /\ \A l \in Loops : WF_recorderVars(Run(l))

-----------------------------------------------------------------------------
(* Properties *)

Lines    == {x \in Slots \X (1 .. MaxBytes) : x[2] <= Len(files[x[1]])}
Holding  == {i \in Slots : files[i] # <<>>}
NewestOf(i) == files[i][Len(files[i])]

\* rotateLocked: what the files hold are the last lines written, in their
\* order and without a gap, within a file and from a file to the next newer one
\* that has lines, however a rotation has ended; and since the last one that
\* failed, as many of them as the older files have room for.  No file outgrows
\* its bound, though its size is counted in memory.
NewestKept ==
  /\ \A i \in Slots : Len(files[i]) <= MaxBytes
  /\ Cardinality(Lines) >= recent
  /\ \A i \in Holding : \A k \in 2 .. Len(files[i]) : files[i][k] = Succ(files[i][k - 1])
  /\ \A i, j \in Holding :
       i < j /\ (\A k \in Holding : k <= i \/ j <= k) => files[i][1] = Succ(NewestOf(j))
  /\ \A i \in Holding : (\A k \in Holding : i <= k) => NewestOf(i) = last

\* handleManagerLogging and the start: when the manager is ready for the next
\* request the recorder does what the configuration says, unless the way back
\* from a failure has failed.
SettingFollowed == stage = "ready" /\ ~hidden => enabled = mem

\* disable: once recording is off, and stays off, the last subscription ends.
ReadersStop == ~enabled ~> (enabled \/ \A l \in Loops : loop[l] = "none")

\* recordLoop: an enabled recorder that has a file goes on recording when the
\* core serves its logs, whatever went wrong with the stream before.  After a
\* rotation that failed it has none, and records nothing until it is switched
\* off and on: hence the premise.
RecordingGoesOn ==
  <>[](enabled /\ open /\ calm) => []<><<last' # last>>_recorderVars

=============================================================================
