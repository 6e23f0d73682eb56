----------------------------- MODULE WebGateway -----------------------------
(***************************************************************************)
(* The browser's gateway (internal/webgateway): the sessions it keeps, the *)
(* log stream it relays and the writes it forwards to the manager.         *)
(*                                                                         *)
(* Each request has a handler of its own.  Handlers share the session map  *)
(* (under mu), the one-place channels passwordBusy, writeBusy and          *)
(* delayBusy, and closed.  A handler works with the session id it was      *)
(* admitted with, however long ago.  A session that leaves the map has its *)
(* Done channel closed, by which the streams of that session end; to close *)
(* a channel twice is a panic.  The log stream is relayed by two           *)
(* goroutines, the handler and a reader of the manager's answer, joined by *)
(* the bounded channel items.                                              *)
(*                                                                         *)
(* Time is abstracted: a session becomes idle or old, and a request is     *)
(* given up, at any moment; the limit of logins in a minute is a choice to *)
(* refuse one.  Both modes of authentication are possible at once.  One    *)
(* stream is relayed at a time; streams meet only in the sessions.         *)
(***************************************************************************)
EXTENDS Naturals, Sequences, FiniteSets

LOCAL INSTANCE SequencesExt

CONSTANTS
  Handlers,     \* requests served at once
  Ids,          \* session tokens; each is issued once at most
  MaxSessions,  \* 16 in the code
  Buffer,       \* the capacity of items, 8 in the code
  MaxLines      \* bound on the lines the manager's stream has

ASSUME GatewayConstantsOK ==
  /\ MaxSessions \in Nat \ {0}
  /\ Buffer \in Nat \ {0} /\ MaxLines \in Nat
  /\ IsFiniteSet(Ids) /\ "none" \notin Ids

VARIABLES
  session,   \* each token: never issued, in the map, or removed from it
  signals,   \* how often its Done was closed
  age,       \* whether it has been idle for 30 minutes or is 12 hours old
  closed,    \* Close was called
  pc, sid,   \* where each handler is, and the session it was admitted with
  gone,      \* its browser has disconnected
  job, told, \* its write as the manager handled it, and the browser's answer
  reader,    \* where the stream's reader is
  hand,      \* the event it is about to send
  items,     \* the channel
  out,       \* the event the handler is about to emit
  read,      \* how many events the reader made of the manager's stream
  seen       \* the events the browser was sent

sessions == <<session, signals, age, closed>>
handlers == <<pc, sid, gone>>
writes   == <<job, told>>
stream   == <<reader, hand, items, out, read, seen>>
vars     == <<sessions, handlers, writes, stream>>

Reconnect     == 0    \* the gap that ends a stream; other events are numbered
Streaming(q)  == pc[q] \in {"loop", "emit"}
Live          == {id \in Ids : session[id] = "live"}
Expired(id)   == session[id] = "live" /\ age[id] # "fresh"
\* The context of the stream's requests: the browser is there, the handler runs.
Cancelled     == \A q \in Handlers : Streaming(q) => gone[q]

Init ==
  /\ session = [id \in Ids |-> "unissued"] /\ signals = [id \in Ids |-> 0]
  /\ age = [id \in Ids |-> "fresh"] /\ closed = FALSE
  /\ pc = [q \in Handlers |-> "idle"] /\ sid = [q \in Handlers |-> "none"]
  /\ gone = [q \in Handlers |-> FALSE]
  /\ job = [q \in Handlers |-> "none"] /\ told = [q \in Handlers |-> "none"]
  /\ reader = "over" /\ hand = <<>> /\ items = <<>> /\ out = <<>>
  /\ read = 0 /\ seen = <<>>

-----------------------------------------------------------------------------
(* The sessions *)

\* Close, getSession, revoke and issueSession remove sessions alike.
Removed(gonners) ==
  /\ session' = [id \in Ids |-> IF id \in gonners THEN "ended" ELSE session[id]]
  /\ signals' = [id \in Ids |-> IF id \in gonners THEN signals[id] + 1 ELSE signals[id]]
  /\ age' = [id \in Ids |-> IF id \in gonners THEN "fresh" ELSE age[id]]

TimePasses ==
  /\ \E id \in Live, a \in {"idle", "old"} :
       age[id] # "old" /\ age' = [age EXCEPT ![id] = a]
  /\ UNCHANGED <<session, signals, closed, handlers, writes, stream>>

\* A handler takes up a request.  Finished writes and their answers are forgotten.
Finished     == {p \in Handlers : pc[p] = "idle" /\ job[p] # "sent"}
Forgotten(f) == [p \in Handlers |-> IF p \in Finished THEN "none" ELSE f[p]]

Begins(q, step, id) ==
  /\ q \in Finished
  /\ pc' = [pc EXCEPT ![q] = step]
  /\ sid' = [sid EXCEPT ![q] = IF step = "idle" THEN "none" ELSE id]
  /\ job' = Forgotten(job) /\ told' = Forgotten(told)
  /\ UNCHANGED gone

Sends(q, step, result, answer) ==
  /\ q \in Finished
  /\ pc' = [pc EXCEPT ![q] = step]
  /\ job' = [Forgotten(job) EXCEPT ![q] = result]
  /\ told' = [Forgotten(told) EXCEPT ![q] = answer]
  /\ UNCHANGED <<sid, gone>>

Returns(q) ==
  /\ pc' = [pc EXCEPT ![q] = "idle"]
  /\ sid' = [sid EXCEPT ![q] = "none"]
  /\ gone' = [gone EXCEPT ![q] = FALSE]

\* Bound: a request that may need a token begins while there is one left for it.
TokenLeft ==
  Cardinality({id \in Ids : session[id] = "unissued"})
    > Cardinality({p \in Handlers : pc[p] \in {"password", "issue"}})

\* login, in password mode: there may have been too many attempts in a minute;
\* passwordBusy is held until the answer.
Login(q) ==
  /\ TokenLeft
  /\ \/ Begins(q, "idle", "none")
     \/ (\A p \in Handlers : pc[p] # "password") /\ Begins(q, "password", "none")
  /\ UNCHANGED <<sessions, stream>>

WrongPassword(q) ==
  /\ pc[q] = "password"
  /\ Returns(q)
  /\ UNCHANGED <<sessions, writes, stream>>

\* getSession: a session that is in the map and has not expired.  One that has
\* is removed here.
GetSession(id) == Removed({id} \cap {i \in Ids : Expired(i)})
Admits(id)     == session[id] = "live" /\ age[id] = "fresh"

\* In external mode GET /auth/session is issued a session if it has none.
Visit(q) ==
  /\ TokenLeft
  /\ \/ Begins(q, "issue", "none") /\ Removed({})
     \/ \E id \in Ids :
          /\ GetSession(id)
          /\ Begins(q, IF Admits(id) THEN "idle" ELSE "issue", "none")
  /\ UNCHANGED <<closed, stream>>

RemovedAndIssued(gonners, new) ==
  /\ session' = [id \in Ids |-> IF id = new THEN "live"
                                ELSE IF id \in gonners THEN "ended" ELSE session[id]]
  /\ signals' = [id \in Ids |-> IF id \in gonners THEN signals[id] + 1 ELSE signals[id]]
  /\ age' = [id \in Ids |-> IF id \in gonners THEN "fresh" ELSE age[id]]

\* issueSession: expired sessions are removed, and there may be no room.
IssueSession(q) ==
  /\ pc[q] \in {"password", "issue"}
  /\ LET dead == {id \in Ids : Expired(id)}
     IN  IF Cardinality(Live \ dead) >= MaxSessions
         THEN Removed(dead)
         ELSE \E id \in Ids : session[id] = "unissued" /\ RemovedAndIssued(dead, id)
  /\ Returns(q)
  /\ UNCHANGED <<closed, writes, stream>>

\* Any other request carries a session id.  (Those that forward come below.)
Admit(q) ==
  /\ \E id \in Ids, step \in {"logout", "refresh", "logs"} :
       /\ session[id] # "unissued"
       /\ GetSession(id)
       /\ Begins(q, IF Admits(id) THEN step ELSE "idle", id)
  /\ UNCHANGED <<closed, stream>>

\* Mutant: the session is not looked up again, its copy's channel is closed.
RevokeCopy(id) == Removed({id})

Revoke(id) == Removed({id} \cap Live)

Logout(q) ==
  /\ pc[q] = "logout"
  /\ Revoke(sid[q])
  /\ Returns(q)
  /\ UNCHANGED <<closed, writes, stream>>

Refresh(q) ==
  /\ pc[q] = "refresh"
  /\ IF session[sid[q]] = "live" /\ age[sid[q]] = "idle"
     THEN age' = [age EXCEPT ![sid[q]] = "fresh"]
     ELSE UNCHANGED age
  /\ Returns(q)
  /\ UNCHANGED <<session, signals, closed, writes, stream>>

Close ==
  /\ ~closed /\ closed' = TRUE
  /\ Removed(Live)
  /\ UNCHANGED <<handlers, writes, stream>>

\* Its request is cancelled, which only a stream or a write notices.
BrowserLeaves(q) ==
  /\ (Streaming(q) \/ pc[q] \in {"sent_write", "sent_delay"}) /\ ~gone[q]
  /\ gone' = [gone EXCEPT ![q] = TRUE]
  /\ UNCHANGED <<sessions, pc, sid, writes, stream>>

-----------------------------------------------------------------------------
(* The log stream *)

\* The context is cancelled; what was read and not emitted is given up, and the
\* history of the stream ends.
StreamReturns(q) ==
  /\ Returns(q)
  /\ hand' = <<>> /\ items' = <<>> /\ out' = <<>> /\ read' = 0 /\ seen' = <<>>

\* logs: the headers are sent, unless the browser has left, and the reader is
\* started.  The code has a reader and a channel for each stream.
OpenStream(q) ==
  /\ pc[q] = "logs"
  /\ reader = "over" /\ \A p \in Handlers : ~Streaming(p)
  /\ \/ /\ pc' = [pc EXCEPT ![q] = "loop"] /\ UNCHANGED <<sid, gone>>
        /\ reader' = "connect"
     \/ Returns(q) /\ UNCHANGED reader
  /\ UNCHANGED <<sessions, writes, hand, items, out, read, seen>>

\* The manager answers with its stream.  The core may be quiet for ever.
UpstreamAnswers ==
  /\ reader = "connect" /\ reader' = "read"
  /\ UNCHANGED <<sessions, handlers, writes, hand, items, out, read, seen>>

\* A refusal, or the end of the stream, ends the reader: items is closed.
UpstreamEnds ==
  /\ reader \in {"connect", "read"} /\ reader' = "over"
  /\ UNCHANGED <<sessions, handlers, writes, hand, items, out, read, seen>>

Held(next) ==
  /\ reader' = next
  /\ IF Cancelled THEN UNCHANGED <<hand, read>>
     ELSE hand' = <<read + 1>> /\ read' = read + 1

\* Mutant: a line that is too large leaves no gap.
ReadLineOrSkip ==
  /\ reader = "read" /\ read < MaxLines
  /\ \/ Held("send")
     \/ read' = read + 1 /\ UNCHANGED <<reader, hand>>
  /\ UNCHANGED <<sessions, handlers, writes, items, out, seen>>

\* An event: a line of the log, or the gap for one too large to hold, which is
\* skipped.  A line that is not a log event is passed over.
ReadLine ==
  /\ reader = "read" /\ read < MaxLines
  /\ Held("send")
  /\ UNCHANGED <<sessions, handlers, writes, items, out, seen>>

\* The gap for a stream that breaks: by the manager, or because its context is
\* cancelled, which also ends the wait for an answer.
UpstreamBreaks ==
  /\ reader = "read"
  /\ Held("last")
  /\ UNCHANGED <<sessions, handlers, writes, items, out, seen>>

\* Mutant: the request to the manager does not have the stream's context.
ConnectUntilClosed ==
  /\ reader = "connect" /\ closed /\ reader' = "over"
  /\ UNCHANGED <<sessions, handlers, writes, hand, items, out, read, seen>>

ConnectCancelled ==
  /\ reader = "connect" /\ Cancelled /\ reader' = "over"
  /\ UNCHANGED <<sessions, handlers, writes, hand, items, out, read, seen>>

\* Mutant: nothing is sent while the channel is full.
SendOrDrop ==
  /\ reader \in {"send", "last"}
  /\ items' = IF Len(items) < Buffer THEN items \o hand ELSE items
  /\ reader' = IF reader = "send" THEN "read" ELSE "over"
  /\ hand' = <<>>
  /\ UNCHANGED <<sessions, handlers, writes, out, read, seen>>

Send ==
  /\ reader \in {"send", "last"} /\ Len(items) < Buffer /\ ~Cancelled
  /\ items' = items \o hand
  /\ reader' = IF reader = "send" THEN "read" ELSE "over"
  /\ hand' = <<>>
  /\ UNCHANGED <<sessions, handlers, writes, out, read, seen>>

\* When the channel has room too the event may still be sent; the browser is not
\* there to see it, and the reader meets the cancelled stream next.
SendCancelled ==
  /\ reader \in {"send", "last"} /\ Cancelled
  /\ reader' = "over" /\ hand' = <<>>
  /\ UNCHANGED <<sessions, handlers, writes, items, out, read, seen>>

MustStop(q) == gone[q] \/ closed \/ signals[sid[q]] > 0

Stop(q) ==
  /\ pc[q] = "loop" /\ MustStop(q)
  /\ StreamReturns(q)
  /\ UNCHANGED <<sessions, writes, reader>>

\* The expiry ticker: the session is looked up as by any request.
Tick(q) ==
  /\ pc[q] = "loop" /\ ~Admits(sid[q])
  /\ GetSession(sid[q])
  /\ StreamReturns(q)
  /\ UNCHANGED <<closed, writes, reader>>

\* Channels are received from before they are seen closed.
TakeItem(q) ==
  /\ pc[q] = "loop"
  /\ IF items # <<>>
     THEN out' = <<Head(items)>> /\ items' = Tail(items)
     ELSE reader = "over" /\ out' = <<Reconnect>> /\ UNCHANGED items
  /\ pc' = [pc EXCEPT ![q] = "emit"]
  /\ UNCHANGED <<sessions, sid, gone, writes, reader, hand, read, seen>>

Emit(q) ==
  /\ pc[q] = "emit"
  /\ IF out = <<Reconnect>>
     THEN StreamReturns(q)
     ELSE /\ seen' = IF gone[q] THEN seen ELSE seen \o out
          /\ out' = <<>> /\ pc' = [pc EXCEPT ![q] = "loop"]
          /\ UNCHANGED <<sid, gone, hand, items, read>>
  /\ UNCHANGED <<sessions, writes, reader>>

\* The browser has left or did not read for ten seconds, as an event or a
\* heartbeat is written.
EmitFails(q) ==
  /\ Streaming(q)
  /\ StreamReturns(q)
  /\ UNCHANGED <<sessions, writes, reader>>

-----------------------------------------------------------------------------
(* Writes *)

\* Mutant: the place in the channel is not taken.
NeverBusy(step) == FALSE

SlotBusy(step) == \E p \in Handlers : pc[p] = step

\* forward: one ordinary write and one delay test at a time, others are refused.
Forward(q) ==
  /\ \E id \in Ids, step \in {"sent_write", "sent_delay"} :
       /\ session[id] # "unissued"
       /\ GetSession(id)
       /\ IF ~Admits(id) THEN Begins(q, "idle", "none")
          ELSE IF SlotBusy(step) THEN Sends(q, "idle", "none", "BUSY")
          ELSE Sends(q, step, "sent", "none")
  /\ UNCHANGED <<closed, stream>>

\* A handler of the manager, if the request reaches it at all, perhaps after the
\* gateway has given up.  It says that it did what is asked (200); it refuses before
\* it has done anything, or gives up with something done that it may not have taken
\* back (both 4xx); or it fails, with anything done (5xx).  handleManagerProxyPort
\* has all four: the 400 of a commit that failed late and the 409 after a rollback
\* whose errors nobody sees come after effects, like the 400 of a rename
\* (manager_profiles.go:325-328) and the 409 and 404 of a selection that was sent
\* (manager_api.go:499-518).
ManagerActs(q) ==
  /\ job[q] = "sent"
  /\ \E result \in {"applied", "refused", "partly", "failed"} :
       job' = [job EXCEPT ![q] = result]
  /\ UNCHANGED <<sessions, handlers, told, stream>>

\* Mutant: only the time limit leaves the result unknown.
AnswersByTimeOnly(result, cut) ==
  IF cut THEN {"RESULT_UNKNOWN"}
  ELSE IF result = "applied" THEN {"success", "UPSTREAM_UNAVAILABLE"}
  ELSE {"CONFLICT", "UPSTREAM_UNAVAILABLE"}

\* What the browser is told of a result the manager's answer carries; the
\* context may have ended (cut), or the connection.  An answer may have a form
\* the gateway does not know.  The codes for 400, 403, 404 and 409 are one here.
Answers(result, cut) ==
  CASE result = "applied" -> {"success", "UPSTREAM_UNAVAILABLE"}
    [] result \in {"refused", "partly"} -> IF cut THEN {"RESULT_UNKNOWN"}
                                           ELSE {"CONFLICT", "UPSTREAM_UNAVAILABLE"}
    [] OTHER -> {"RESULT_UNKNOWN"}

Answer(q) ==
  /\ pc[q] \in {"sent_write", "sent_delay"}
  /\ \/ /\ job[q] # "sent"
        /\ \E cut \in {gone[q], TRUE} : \E a \in Answers(job[q], cut) :
             told' = [told EXCEPT ![q] = a]
     \/ told' = [told EXCEPT ![q] = "RESULT_UNKNOWN"]   \* no answer, or not all of it
  /\ Returns(q)
  /\ UNCHANGED <<sessions, job, stream>>

-----------------------------------------------------------------------------
StreamNext(q) ==
  \/ OpenStream(q) \/ Stop(q) \/ Tick(q) \/ TakeItem(q) \/ Emit(q) \/ EmitFails(q)

ReaderNext ==
  \/ UpstreamAnswers \/ UpstreamEnds \/ ReadLine \/ UpstreamBreaks
  \/ ConnectCancelled \/ Send \/ SendCancelled

Next ==
  \/ TimePasses \/ Close \/ ReaderNext
  \/ \E q \in Handlers :
       \/ Login(q) \/ WrongPassword(q) \/ Visit(q) \/ IssueSession(q)
       \/ Admit(q) \/ Logout(q) \/ Refresh(q) \/ BrowserLeaves(q)
       \/ StreamNext(q) \/ Forward(q) \/ ManagerActs(q) \/ Answer(q)

\* Go runs every goroutine that can run, and select chooses at random among the
\* cases that are ready, so that none is passed over for ever.  A write to the
\* browser has a deadline.  A reader whose context is cancelled has its connection
\* closed.  Nothing is asked of the manager, of the core or of the browser.
Fairness ==
  /\ WF_vars(ConnectCancelled \/ SendCancelled \/ (UpstreamBreaks /\ Cancelled))
  /\ SF_vars(\E q \in Handlers : Stop(q) \/ Tick(q))
  /\ WF_vars(\E q \in Handlers : Emit(q) \/ (pc[q] = "emit" /\ EmitFails(q)))

Spec == Init /\ [][Next]_vars /\ Fairness

-----------------------------------------------------------------------------
(* Properties *)

\* A session is in the map exactly while its Done is open, and Done is closed
\* once, whichever of a logout, an expiry found by a request, by a stream or by
\* another login, and the end of the gateway meet; none of them, and no refresh
\* that began before, brings a session back.
SessionsEndOnce ==
  \A id \in Ids : signals[id] = IF session[id] = "ended" THEN 1 ELSE 0

\* What the browser has seen and what is on its way to it is, while it can be
\* reached, exactly what was read from the manager: an event that is skipped
\* leaves a gap, and none is dropped because the browser is slow.  In any case it
\* has seen the beginning of that; and when it is told to connect again, all.
NothingLostSilently ==
  LET all == [n \in 1 .. read |-> n]
  IN  /\ IsPrefix(seen, all)
      /\ ~Cancelled => IF out = <<Reconnect>> THEN seen = all
                       ELSE seen \o out \o items \o hand = all

\* What the browser is told of a write is what became of it, whatever the manager
\* still does.  Only RESULT_UNKNOWN leaves it open: after any other answer nothing
\* more is done for the request, and a failure of the manager is told as nothing
\* else.  A success the manager has confirmed, BUSY was never sent, and what is told
\* as a conflict the manager has given up; what it had done by then may remain (so
\* says WEB_API.zh-CN.md:43).  The manager works on two writes, or two delay tests,
\* of the gateway only when a browser was told that the result of one is unknown.
AnswersAreTrue ==
  \A q \in Handlers :
    /\ told[q] = "success" => job[q] = "applied"
    /\ told[q] = "CONFLICT" => job[q] \in {"refused", "partly"}
    /\ told[q] = "BUSY" => job[q] = "none"
    /\ job[q] \in {"sent", "failed"} => told[q] \in {"none", "RESULT_UNKNOWN"}
    /\ job[q] = "sent" /\ told[q] # "RESULT_UNKNOWN" =>
         \A p \in Handlers \ {q} : pc[p] # pc[q]

\* A stream ends when its session has left the map or is 12 hours old, when the
\* gateway closes and when the browser leaves, and the reader of the manager's
\* stream with it, even if the core never says a word.
StreamsEnd ==
  (\E q \in Handlers :
     Streaming(q) /\ (MustStop(q) \/ session[sid[q]] = "ended" \/ age[sid[q]] = "old"))
    ~> reader = "over" /\ \A q \in Handlers : ~Streaming(q)
=============================================================================
