---------------------------- MODULE ClientProofs ----------------------------
(***************************************************************************)
(* What the two clients of the manager show.                               *)
(*                                                                         *)
(* The web gateway: sessions end once, no event of the log stream is lost  *)
(* silently and what the browser is told of a write is true, for any       *)
(* number of requests, tokens, events and places in the channel.           *)
(*                                                                         *)
(* The terminal UI's page of nodes: what it marks as current is true and   *)
(* no node is shown as being tested for ever, for any groups, nodes, loads *)
(* and selections.                                                         *)
(***************************************************************************)
EXTENDS WebGateway, NodesPage, SequenceTheorems, TLAPS

LOCAL INSTANCE SequencesExt

-----------------------------------------------------------------------------
(* Types of the gateway *)

Sent == {"sent_write", "sent_delay"}

Events == Nat \ {Reconnect}

SessionsTyped ==
  /\ session \in [Ids -> {"unissued", "live", "ended"}] /\ signals \in [Ids -> Nat]
  /\ age \in [Ids -> {"fresh", "idle", "old"}] /\ closed \in BOOLEAN

Steps == Sent \cup {"idle", "password", "issue", "logout", "refresh", "logs", "loop", "emit"}

HandlersTyped ==
  /\ pc \in [Handlers -> Steps]
  /\ sid \in [Handlers -> Ids \cup {"none"}] /\ gone \in [Handlers -> BOOLEAN]

Results == {"none", "sent", "applied", "refused", "partly", "failed"}

Told == {"none", "BUSY", "CONFLICT", "UPSTREAM_UNAVAILABLE", "RESULT_UNKNOWN", "success"}

WritesTyped == job \in [Handlers -> Results] /\ told \in [Handlers -> Told]

StreamTyped ==
  /\ reader \in {"over", "connect", "read", "send", "last"}
  /\ hand \in Seq(Events) /\ items \in Seq(Events) /\ out \in Seq(Nat)
  /\ read \in Nat /\ seen \in Seq(Nat)

TypeOK == SessionsTyped /\ HandlersTyped /\ WritesTyped /\ StreamTyped

\* Everything that was read of the manager's stream.
All(n) == [i \in 1 .. n |-> i]

NoStream == \A q \in Handlers : ~Streaming(q)

\* One stream is relayed at a time, and none leaves anything to the next.
StreamsApart ==
  /\ \A p, q \in Handlers : Streaming(p) /\ Streaming(q) => p = q
  /\ NoStream => hand = <<>> /\ items = <<>> /\ out = <<>> /\ seen = <<>> /\ read = 0

\* Each event is in one place: what the goroutines hold goes with where they are.
HeldByStep ==
  /\ \A q \in Handlers : pc[q] = "loop" => out = <<>>
  /\ reader \notin {"send", "last"} => hand = <<>>

\* What was read is on its way in order; when the browser is told to connect again,
\* the reader is over and everything has been seen.
Relayed ==
  IF out = <<Reconnect>>
  THEN reader = "over" /\ seen = All(read)
  ELSE seen \o out \o items \o hand = All(read)

StreamOK ==
  /\ StreamsApart /\ HeldByStep
  /\ IsPrefix(seen, All(read))
  /\ ~Cancelled => Relayed

\* A write's result and answer go with where its handler is, and each of the two
\* places is taken by one handler.
WritesOK ==
  \A q \in Handlers :
    /\ pc[q] # "idle" => told[q] = "none"
    /\ pc[q] \in Sent => job[q] # "none" /\ \A p \in Handlers \ {q} : pc[p] # pc[q]
    /\ pc[q] \notin Sent \cup {"idle"} => job[q] = "none"
    /\ pc[q] = "idle" /\ job[q] = "sent" => told[q] = "RESULT_UNKNOWN"
    /\ told[q] = "success" => job[q] = "applied"
    /\ told[q] = "CONFLICT" => job[q] \in {"refused", "partly"}
    /\ told[q] = "BUSY" => job[q] = "none"
    /\ job[q] = "failed" => told[q] \in {"none", "RESULT_UNKNOWN"}

IInv == TypeOK /\ SessionsEndOnce /\ StreamOK /\ WritesOK

-----------------------------------------------------------------------------
(* The sessions *)

\* What any step does to the sessions: some that are in the map are removed, and one
\* may be put there that never was before.
SessionsStep ==
  \/ \E gonners \in SUBSET Live : Removed(gonners)
  \/ \E gonners \in SUBSET Live, new \in Ids :
       session[new] = "unissued" /\ RemovedAndIssued(gonners, new)
  \/ UNCHANGED <<session, signals>> /\ age' \in [Ids -> {"fresh", "idle", "old"}]

LEMMA NextSessions ==
  SessionsTyped /\ [Next]_vars => SessionsStep /\ closed' \in BOOLEAN
  <1> SUFFICES ASSUME SessionsTyped, [Next]_vars PROVE SessionsStep /\ closed' \in BOOLEAN
    OBVIOUS
  <1> {id \in Ids : Expired(id)} \in SUBSET Live
    BY DEF Expired, Live
  <1> Live \in SUBSET Live /\ \A S : S \cap Live \in SUBSET Live
    OBVIOUS
  <1>1. closed' \in BOOLEAN
    BY DEF SessionsTyped, Next, TimePasses, Close, ReaderNext, UpstreamAnswers, UpstreamEnds, ReadLine,
           UpstreamBreaks, ConnectCancelled, Send, SendCancelled, Login, WrongPassword, Visit,
           IssueSession, Admit, Logout, Refresh, BrowserLeaves, StreamNext, OpenStream, Stop, Tick,
           TakeItem, Emit, EmitFails, Forward, ManagerActs, Answer, sessions, vars
  <1>2. CASE Close
    BY <1>2 DEF Close, SessionsStep
  <1>3. CASE TimePasses
    <2>1. PICK id \in Live, a \in {"idle", "old"} : age' = [age EXCEPT ![id] = a]
      BY <1>3 DEF TimePasses
    <2>2. age' \in [Ids -> {"fresh", "idle", "old"}]
      BY <2>1 DEF SessionsTyped
    <2> QED
      BY <1>1, <1>3, <2>2 DEF TimePasses, SessionsStep
  <1>4. CASE \E q \in Handlers : Visit(q) \/ Admit(q) \/ Tick(q) \/ Forward(q)
    <2>1. \A id : GetSession(id) => SessionsStep
      BY DEF GetSession, Live, Expired, SessionsStep
    <2>2. Removed({}) => SessionsStep
      BY DEF SessionsStep
    <2> QED
      BY <1>1, <1>4, <2>1, <2>2 DEF Visit, Admit, Tick, Forward
  <1>5. CASE \E q \in Handlers : IssueSession(q)
    BY <1>1, <1>5 DEF IssueSession, SessionsStep
  <1>6. CASE \E q \in Handlers : Logout(q)
    BY <1>1, <1>6 DEF Logout, Revoke, SessionsStep
  <1>7. CASE \E q \in Handlers : Refresh(q)
    <2> PICK q \in Handlers : Refresh(q)
      BY <1>7
    <2>1. age' \in [Ids -> {"fresh", "idle", "old"}]
      BY DEF Refresh, SessionsTyped
    <2> QED
      BY <1>1, <2>1 DEF Refresh, SessionsStep
  <1>8. CASE \/ ReaderNext \/ UNCHANGED vars
             \/ \E q \in Handlers : \/ Login(q) \/ WrongPassword(q) \/ BrowserLeaves(q) \/ OpenStream(q)
                                    \/ Stop(q) \/ TakeItem(q) \/ Emit(q) \/ EmitFails(q)
                                    \/ ManagerActs(q) \/ Answer(q)
    <2>1. UNCHANGED sessions
      BY <1>8 DEF ReaderNext, UpstreamAnswers, UpstreamEnds, ReadLine, UpstreamBreaks, ConnectCancelled,
                  Send, SendCancelled, Login, WrongPassword, BrowserLeaves, OpenStream, Stop, TakeItem,
                  Emit, EmitFails, ManagerActs, Answer, vars
    <2> QED
      BY <1>1, <2>1 DEF sessions, SessionsStep, SessionsTyped
  <1> QED
    BY <1>2, <1>3, <1>4, <1>5, <1>6, <1>7, <1>8 DEF Next, StreamNext

LEMMA StepSessions ==
  SessionsTyped /\ SessionsEndOnce /\ [Next]_vars => SessionsTyped' /\ SessionsEndOnce'
  <1> SUFFICES ASSUME SessionsTyped, SessionsEndOnce, SessionsStep, closed' \in BOOLEAN
               PROVE  SessionsTyped' /\ SessionsEndOnce'
    BY NextSessions
  <1> USE DEF SessionsTyped, SessionsEndOnce
  <1>1. ASSUME NEW gonners \in SUBSET Live, Removed(gonners) PROVE SessionsTyped' /\ SessionsEndOnce'
    BY <1>1 DEF Removed, Live
  <1>2. ASSUME NEW gonners \in SUBSET Live, NEW new \in Ids,
               session[new] = "unissued", RemovedAndIssued(gonners, new)
        PROVE  SessionsTyped' /\ SessionsEndOnce'
    BY <1>2 DEF RemovedAndIssued, Live
  <1>3. CASE UNCHANGED <<session, signals>> /\ age' \in [Ids -> {"fresh", "idle", "old"}]
    BY <1>3
  <1> QED
    BY <1>1, <1>2, <1>3 DEF SessionsStep

-----------------------------------------------------------------------------
(* The handlers *)

\* Requests other than a stream's and its end.
Plain(q) ==
  \/ Login(q) \/ WrongPassword(q) \/ Visit(q) \/ IssueSession(q) \/ Admit(q) \/ Logout(q)
  \/ Refresh(q) \/ Forward(q) \/ ManagerActs(q) \/ Answer(q)

\* What the handlers' moves do to the handler that moves, and to no other.
LEMMA Moves ==
  ASSUME HandlersTyped, NEW q \in Handlers
  PROVE  /\ \A step \in Steps, id \in Ids \cup {"none"} : Begins(q, step, id) =>
              HandlersTyped' /\ pc[q] = "idle" /\ pc' = [pc EXCEPT ![q] = step] /\ gone' = gone
         /\ \A step \in Steps : \A result, answer : Sends(q, step, result, answer) =>
              HandlersTyped' /\ pc[q] = "idle" /\ pc' = [pc EXCEPT ![q] = step] /\ gone' = gone
         /\ Returns(q) => /\ HandlersTyped' /\ pc' = [pc EXCEPT ![q] = "idle"]
                          /\ gone' = [gone EXCEPT ![q] = FALSE]
  <1>1. "idle" \in Steps
    BY DEF Steps
  <1>2. \A step \in Steps, id \in Ids \cup {"none"} : Begins(q, step, id) =>
          HandlersTyped' /\ pc[q] = "idle" /\ pc' = [pc EXCEPT ![q] = step] /\ gone' = gone
    BY DEF HandlersTyped, Begins, Finished
  <1>3. \A step \in Steps : \A result, answer : Sends(q, step, result, answer) =>
          HandlersTyped' /\ pc[q] = "idle" /\ pc' = [pc EXCEPT ![q] = step] /\ gone' = gone
    BY DEF HandlersTyped, Sends, Finished
  <1>4. Returns(q) => /\ HandlersTyped' /\ pc' = [pc EXCEPT ![q] = "idle"]
                      /\ gone' = [gone EXCEPT ![q] = FALSE]
    BY <1>1 DEF HandlersTyped, Returns
  <1> QED
    BY <1>2, <1>3, <1>4

StreamingKept ==
  \A p \in Handlers : /\ pc'[p] \in {"loop", "emit"} <=> pc[p] \in {"loop", "emit"}
                      /\ pc[p] \in {"loop", "emit"} => pc'[p] = pc[p] /\ gone'[p] = gone[p]

\* A request that is no stream begins, goes on and ends without touching one.
LEMMA PlainMoves ==
  ASSUME HandlersTyped, NEW q \in Handlers, Plain(q)
  PROVE  HandlersTyped' /\ UNCHANGED stream /\ StreamingKept
  <1>0. /\ \A step \in {"idle", "password", "issue", "logout", "refresh", "logs", "sent_write", "sent_delay"} :
             step \in Steps /\ step \notin {"loop", "emit"}
        /\ UNCHANGED stream
    BY DEF Steps, Sent, Plain, Login, WrongPassword, Visit, IssueSession, Admit, Logout, Refresh,
           Forward, ManagerActs, Answer
  <1>1. ASSUME NEW step \in Steps, step \notin {"loop", "emit"}, NEW id \in Ids \cup {"none"},
               Begins(q, step, id)
        PROVE  HandlersTyped' /\ StreamingKept
    BY <1>1, Moves DEF HandlersTyped, StreamingKept
  <1>2. ASSUME NEW step \in Steps, step \notin {"loop", "emit"}, NEW result, NEW answer,
               Sends(q, step, result, answer)
        PROVE  HandlersTyped' /\ StreamingKept
    BY <1>2, Moves DEF HandlersTyped, StreamingKept
  <1>3. ASSUME Returns(q), pc[q] \notin {"loop", "emit"} PROVE HandlersTyped' /\ StreamingKept
    BY <1>3, Moves DEF HandlersTyped, StreamingKept
  <1>4. CASE Login(q) \/ Visit(q) \/ Admit(q)
    BY <1>0, <1>1, <1>4 DEF Login, Visit, Admit
  <1>5. CASE WrongPassword(q) \/ IssueSession(q) \/ Logout(q) \/ Refresh(q) \/ Answer(q)
    BY <1>3, <1>5 DEF WrongPassword, IssueSession, Logout, Refresh, Answer
  <1>6. CASE Forward(q)
    BY <1>0, <1>1, <1>2, <1>6 DEF Forward
  <1>7. CASE ManagerActs(q)
    BY <1>7 DEF ManagerActs, handlers, HandlersTyped, StreamingKept
  <1> QED
    BY <1>0, <1>4, <1>5, <1>6, <1>7 DEF Plain

LEMMA StepHandlers == HandlersTyped /\ [Next]_vars => HandlersTyped'
  <1> SUFFICES ASSUME HandlersTyped, [Next]_vars PROVE HandlersTyped'
    OBVIOUS
  <1>1. CASE \E q \in Handlers : Plain(q)
    BY <1>1, PlainMoves
  <1>2. CASE \E q \in Handlers : BrowserLeaves(q)
    BY <1>2 DEF BrowserLeaves, HandlersTyped
  <1>3. ASSUME NEW q \in Handlers, StreamNext(q) PROVE HandlersTyped'
    <2>1. CASE Returns(q)
      BY <2>1, Moves
    <2>2. CASE \E step \in {"loop", "emit"} : pc' = [pc EXCEPT ![q] = step] /\ UNCHANGED <<sid, gone>>
      BY <2>2 DEF HandlersTyped, Steps
    <2> QED
      BY <1>3, <2>1, <2>2
         DEF StreamNext, OpenStream, Stop, Tick, TakeItem, Emit, EmitFails, StreamReturns
  <1>4. CASE TimePasses \/ Close \/ ReaderNext \/ UNCHANGED vars
    BY <1>4 DEF TimePasses, Close, ReaderNext, UpstreamAnswers, UpstreamEnds, ReadLine, UpstreamBreaks,
                ConnectCancelled, Send, SendCancelled, handlers, vars, HandlersTyped
  <1> QED
    BY <1>1, <1>2, <1>3, <1>4 DEF Next, Plain

-----------------------------------------------------------------------------
(* Writes and their answers *)

LEMMA StepWrites ==
  HandlersTyped /\ WritesTyped /\ WritesOK /\ [Next]_vars => WritesTyped' /\ WritesOK'
  <1> SUFFICES ASSUME HandlersTyped, WritesTyped, WritesOK, [Next]_vars PROVE WritesTyped' /\ WritesOK'
    OBVIOUS
  <1>0. /\ WritesTyped => Forgotten(job) \in [Handlers -> Results] /\ Forgotten(told) \in [Handlers -> Told]
        /\ "none" \in Results /\ "none" \in Told /\ "sent" \in Results /\ "BUSY" \in Told
    BY DEF WritesTyped, Forgotten, Results, Told
  <1>1. ASSUME NEW q \in Handlers, NEW step \in Steps \ Sent, NEW id, Begins(q, step, id)
        PROVE  WritesTyped' /\ WritesOK'
    BY <1>0, <1>1 DEF Begins, Finished, Forgotten, HandlersTyped, WritesTyped, WritesOK, Sent
  <1>2. ASSUME NEW q \in Handlers, NEW step \in Sent, ~SlotBusy(step), Sends(q, step, "sent", "none")
        PROVE  WritesTyped' /\ WritesOK'
    BY <1>0, <1>2 DEF Sends, SlotBusy, Finished, Forgotten, HandlersTyped, WritesTyped, WritesOK, Sent
  <1>3. ASSUME NEW q \in Handlers, Sends(q, "idle", "none", "BUSY") PROVE WritesTyped' /\ WritesOK'
    BY <1>0, <1>3 DEF Sends, Finished, Forgotten, HandlersTyped, WritesTyped, WritesOK, Sent
  <1>4. ASSUME NEW q \in Handlers, Returns(q), pc[q] \notin Sent \cup {"idle"}, UNCHANGED writes
        PROVE  WritesTyped' /\ WritesOK'
    BY <1>4 DEF Returns, writes, HandlersTyped, WritesTyped, WritesOK, Sent
  <1>5. ASSUME NEW q \in Handlers, NEW step \in {"loop", "emit"}, pc[q] \in {"logs", "loop", "emit"},
               pc' = [pc EXCEPT ![q] = step], UNCHANGED writes
        PROVE  WritesTyped' /\ WritesOK'
    BY <1>5 DEF writes, HandlersTyped, WritesTyped, WritesOK, Sent
  <1>6. CASE \E q \in Handlers : Login(q) \/ Visit(q) \/ Admit(q)
    BY <1>1, <1>6 DEF Login, Visit, Admit, Steps, Sent
  <1>7. CASE \E q \in Handlers : WrongPassword(q) \/ IssueSession(q) \/ Logout(q) \/ Refresh(q)
    BY <1>4, <1>7 DEF WrongPassword, IssueSession, Logout, Refresh, Sent
  <1>8. CASE \E q \in Handlers : Forward(q)
    BY <1>1, <1>2, <1>3, <1>8 DEF Forward, Steps, Sent
  <1>9. CASE \E q \in Handlers : ManagerActs(q)
    BY <1>9 DEF ManagerActs, handlers, HandlersTyped, WritesTyped, WritesOK, Sent, Results
  <1>10. ASSUME NEW q \in Handlers, Answer(q) PROVE WritesTyped' /\ WritesOK'
    <2>1. PICK a \in Told \ {"none", "BUSY"} :
            /\ told' = [told EXCEPT ![q] = a]
            /\ a = "RESULT_UNKNOWN" \/ job[q] # "sent"
            /\ a = "success" => job[q] = "applied"
            /\ a = "CONFLICT" => job[q] \in {"refused", "partly"}
            /\ job[q] = "failed" => a = "RESULT_UNKNOWN"
      BY <1>10 DEF Answer, Answers, Told
    <2>2. pc[q] \in Sent /\ job' = job /\ pc' = [pc EXCEPT ![q] = "idle"]
      BY <1>10 DEF Answer, Returns, Sent
    <2> QED
      BY <2>1, <2>2 DEF HandlersTyped, WritesTyped, WritesOK, Sent
  <1>11. ASSUME NEW q \in Handlers, StreamNext(q) PROVE WritesTyped' /\ WritesOK'
    BY <1>4, <1>5, <1>11 DEF StreamNext, OpenStream, Stop, Tick, TakeItem, Emit, EmitFails,
                             StreamReturns, Streaming, Sent
  <1>12. CASE \/ TimePasses \/ Close \/ ReaderNext \/ UNCHANGED vars
              \/ \E q \in Handlers : BrowserLeaves(q)
    <2>1. UNCHANGED <<pc, job, told>>
      BY <1>12 DEF TimePasses, Close, BrowserLeaves, ReaderNext, UpstreamAnswers, UpstreamEnds, ReadLine,
                   UpstreamBreaks, ConnectCancelled, Send, SendCancelled, handlers, writes, vars
    <2> QED
      BY <2>1 DEF WritesTyped, WritesOK
  <1> QED
    BY <1>6, <1>7, <1>8, <1>9, <1>10, <1>11, <1>12 DEF Next

-----------------------------------------------------------------------------
(* Sequences of numbered events *)

LEMMA AllIsSeq ==
  ASSUME NEW n \in Nat
  PROVE  All(n) \in Seq(Nat) /\ Len(All(n)) = n /\ \A i \in 1 .. n : All(n)[i] = i
  BY DEF All

LEMMA AllGrows ==
  ASSUME NEW n \in Nat
  PROVE  All(n) \o <<n + 1>> = All(n + 1)
  <1>1. /\ All(n) \in Seq(Nat) /\ All(n + 1) \in Seq(Nat) /\ <<n + 1>> \in Seq(Nat)
        /\ Len(All(n)) = n /\ Len(All(n + 1)) = n + 1 /\ Len(<<n + 1>>) = 1 /\ <<n + 1>>[1] = n + 1
    BY AllIsSeq
  <1>2. /\ All(n) \o <<n + 1>> \in Seq(Nat) /\ Len(All(n) \o <<n + 1>>) = n + 1
        /\ \A i \in 1 .. n + 1 : (All(n) \o <<n + 1>>)[i] = IF i <= n THEN All(n)[i] ELSE <<n + 1>>[i - n]
    BY <1>1, ConcatProperties
  <1>3. \A i \in 1 .. n + 1 : (All(n) \o <<n + 1>>)[i] = All(n + 1)[i]
    <2> TAKE i \in 1 .. n + 1
    <2>1. All(n + 1)[i] = i
      BY AllIsSeq
    <2>2. i <= n => i \in 1 .. n
      OBVIOUS
    <2>3. i <= n => All(n)[i] = i
      BY <2>2, AllIsSeq
    <2>4. i > n => i = n + 1 /\ i - n = 1
      OBVIOUS
    <2>5. (All(n) \o <<n + 1>>)[i] = IF i <= n THEN All(n)[i] ELSE <<n + 1>>[i - n]
      BY <1>2
    <2> QED
      BY <1>1, <2>1, <2>3, <2>4, <2>5
  <1> QED
    BY <1>1, <1>2, <1>3, SeqEqual

\* What is a prefix, said of the elements.
LEMMA PrefixOfAll ==
  ASSUME NEW n \in Nat, NEW s \in Seq(Nat)
  PROVE  IsPrefix(s, All(n)) <=> Len(s) <= n /\ \A i \in 1 .. Len(s) : s[i] = i
  <1>1. Len(s) \in Nat /\ SubSeq(s, 1, Len(s)) = s
    BY SubSeqFull
  <1>2. All(n) \in Seq(Nat) /\ Len(All(n)) = n /\ \A i \in 1 .. n : All(n)[i] = i
    BY AllIsSeq
  <1>3. CASE Len(s) <= n
    <2>1. \A i \in 1 .. Len(s) : All(n)[i] \in Nat
      BY <1>1, <1>2, <1>3
    <2>2. /\ SubSeq(All(n), 1, Len(s)) \in Seq(Nat)
          /\ Len(SubSeq(All(n), 1, Len(s))) = Len(s)
          /\ \A i \in 1 .. Len(s) : SubSeq(All(n), 1, Len(s))[i] = i
      BY <1>1, <1>2, <1>3, <2>1, SubSeqProperties
    <2>3. IsPrefix(s, All(n)) <=> s = SubSeq(All(n), 1, Len(s))
      BY <1>1, <1>2, <1>3 DEF IsPrefix
    <2> QED
      BY <1>1, <1>3, <2>2, <2>3, SeqEqual
  <1>4. CASE ~(Len(s) <= n)
    BY <1>2, <1>4 DEF IsPrefix
  <1> QED
    BY <1>3, <1>4

LEMMA PrefixGrows ==
  ASSUME NEW n \in Nat, NEW s \in Seq(Nat), IsPrefix(s, All(n))
  PROVE  IsPrefix(s, All(n + 1))
  BY PrefixOfAll

LEMMA FrontIsPrefix ==
  ASSUME NEW n \in Nat, NEW s \in Seq(Nat), NEW t \in Seq(Nat), s \o t = All(n)
  PROVE  IsPrefix(s, All(n))
  <1>1. Len(s) \in Nat /\ Len(t) \in Nat /\ Len(s) + Len(t) = n
    BY AllIsSeq, ConcatProperties
  <1>2. ASSUME NEW i \in 1 .. Len(s) PROVE s[i] = i
    <2>1. i \in 1 .. n /\ i \in 1 .. Len(s) + Len(t) /\ i <= Len(s)
      BY <1>1
    <2>2. (s \o t)[i] = s[i]
      BY <2>1, ConcatProperties
    <2> QED
      BY <2>1, <2>2, AllIsSeq
  <1> QED
    BY <1>1, <1>2, PrefixOfAll

LEMMA HeadAndTail ==
  ASSUME NEW S, NEW s \in Seq(S), s # <<>>
  PROVE  Head(s) \in S /\ Tail(s) \in Seq(S) /\ s = <<Head(s)>> \o Tail(s)
  <1>1. Len(s) \in Nat \ {0} /\ Head(s) = s[1]
    BY EmptySeq
  <1>2. Head(s) \in S /\ Tail(s) \in Seq(S) /\ Len(Tail(s)) = Len(s) - 1
        /\ \A i \in 1 .. Len(Tail(s)) : Tail(s)[i] = s[i + 1]
    BY HeadTailProperties
  <1>3. <<Head(s)>> \in Seq(S) /\ Len(<<Head(s)>>) = 1 /\ <<Head(s)>>[1] = s[1]
    BY <1>1, <1>2
  <1>4. /\ <<Head(s)>> \o Tail(s) \in Seq(S) /\ Len(<<Head(s)>> \o Tail(s)) = Len(s)
        /\ \A i \in 1 .. Len(s) : (<<Head(s)>> \o Tail(s))[i] = IF i <= 1 THEN s[1] ELSE Tail(s)[i - 1]
    <2> DEFINE h == <<Head(s)>>
               t == Tail(s)
    <2>1. h \in Seq(S) /\ Len(h) = 1 /\ h[1] = s[1] /\ t \in Seq(S) /\ Len(t) = Len(s) - 1
      BY <1>2, <1>3
    <2> HIDE DEF h, t
    <2>2. /\ h \o t \in Seq(S) /\ Len(h \o t) = Len(h) + Len(t)
          /\ \A i \in 1 .. Len(h) + Len(t) : (h \o t)[i] = IF i <= Len(h) THEN h[i] ELSE t[i - Len(h)]
      BY <2>1, ConcatProperties
    <2>3. \A i \in 1 .. Len(s) : i <= 1 => i = 1
      BY <1>1
    <2>4. /\ h \o t \in Seq(S) /\ Len(h \o t) = Len(s)
          /\ \A i \in 1 .. Len(s) : (h \o t)[i] = IF i <= 1 THEN s[1] ELSE t[i - 1]
      BY <1>1, <2>1, <2>2, <2>3
    <2> QED
      BY <2>4 DEF h, t
  <1>5. \A i \in 1 .. Len(s) : (<<Head(s)>> \o Tail(s))[i] = s[i]
    BY <1>1, <1>2, <1>4
  <1> QED
    BY <1>2, <1>4, <1>5, SeqEqual

\* The library's facts about the concatenation of sequences, for numbers and in a form
\* that Zenon can instantiate.
LEMMA Associative == \A s, t, u \in Seq(Nat) : (s \o t) \o u = s \o (t \o u)
  BY ConcatAssociative, SMTT(60)

LEMMA Concatenated ==
  /\ \A s, t \in Seq(Nat) : s \o t \in Seq(Nat)
  /\ \A s \in Seq(Nat) : s \o <<>> = s
  BY ConcatProperties, ConcatEmptySeq, SMTT(60)

\* What an event passed from one place to the next changes: nothing in their sequence.
Regrouped(a, b, c, d) ==
  /\ a \o b \o c \o d = a \o b \o (c \o d) \o <<>>
  /\ a \o b \o c \o d = (a \o b) \o <<>> \o c \o d
  /\ a \o b \o c \o d = (a \o b) \o (c \o d)
  /\ a \o <<>> \o (b \o c) \o d = a \o b \o c \o d

LEMMA Regroup == \A a, b, c, d \in Seq(Nat) : Regrouped(a, b, c, d)
  <1> SUFFICES ASSUME NEW a \in Seq(Nat), NEW b \in Seq(Nat), NEW c \in Seq(Nat), NEW d \in Seq(Nat)
               PROVE  Regrouped(a, b, c, d)
    OBVIOUS
  <1>1. a \o b \in Seq(Nat) /\ c \o d \in Seq(Nat)
    BY Concatenated, Zenon
  <1>2. (a \o b) \o (c \o d) \in Seq(Nat)
    BY <1>1, Concatenated, Zenon
  <1>3. a \o b \o c \o d = (a \o b) \o (c \o d)
    <2> DEFINE ab == a \o b
    <2>1. ab \in Seq(Nat)
      BY <1>1
    <2> HIDE DEF ab
    <2>2. ab \o c \o d = ab \o (c \o d)
      BY <2>1, Associative, Zenon
    <2> QED
      BY <2>2 DEF ab
  <1>4. (a \o b) \o (c \o d) \o <<>> = (a \o b) \o (c \o d)
    BY <1>2, Concatenated, Zenon
  <1>5. (a \o b) \o <<>> = a \o b /\ a \o <<>> = a
    BY <1>1, Concatenated, Zenon
  <1>6. a \o (b \o c) = a \o b \o c
    BY Associative, Zenon
  <1> QED
    BY <1>1, <1>3, <1>4, <1>5, <1>6 DEF Regrouped

-----------------------------------------------------------------------------
(* The stream *)

LEMMA EventsAreNumbers ==
  /\ Events \subseteq Nat /\ <<>> \in Seq(Events) /\ <<>> \in Seq(Nat)
  /\ \A s \in Seq(Events) : s \in Seq(Nat)
  BY EmptySeq, SeqMonotonic DEF Events

LEMMA OneEvent == ASSUME NEW S, NEW e \in S PROVE <<e>> \in Seq(S)
  OBVIOUS

LEMMA StepStreamTyped == StreamTyped /\ [Next]_vars => StreamTyped'
  <1> SUFFICES ASSUME StreamTyped, [Next]_vars PROVE StreamTyped'
    OBVIOUS
  <1> USE DEF StreamTyped
  <1>1. ASSUME UNCHANGED stream PROVE StreamTyped'
    BY <1>1 DEF stream
  <1>2. CASE \/ TimePasses \/ Close \/ UNCHANGED vars
             \/ \E q \in Handlers : Plain(q) \/ BrowserLeaves(q)
    <2>1. UNCHANGED stream
      BY <1>2 DEF TimePasses, Close, vars, BrowserLeaves, Plain, Login, WrongPassword, Visit, IssueSession,
                  Admit, Logout, Refresh, Forward, ManagerActs, Answer
    <2> QED
      BY <1>1, <2>1
  <1>3. CASE UpstreamAnswers \/ UpstreamEnds \/ ConnectCancelled \/ \E q \in Handlers : OpenStream(q)
    BY <1>3 DEF UpstreamAnswers, UpstreamEnds, ConnectCancelled, OpenStream
  <1>4. CASE ReadLine \/ UpstreamBreaks
    <2>1. read + 1 \in Events /\ read + 1 \in Nat
      BY DEF Events, Reconnect
    <2>2. <<read + 1>> \in Seq(Events)
      BY <2>1, OneEvent
    <2> QED
      BY <1>4, <2>1, <2>2 DEF ReadLine, UpstreamBreaks, Held
  <1>5. CASE Send \/ SendCancelled
    BY <1>5, EventsAreNumbers, ConcatProperties DEF Send, SendCancelled
  <1>6. CASE \E q \in Handlers : StreamReturns(q) /\ UNCHANGED reader
    BY <1>6, EventsAreNumbers DEF StreamReturns
  <1>7. CASE \E q \in Handlers : TakeItem(q)
    <2>1. items # <<>> => Head(items) \in Nat /\ Tail(items) \in Seq(Events)
      BY EventsAreNumbers, HeadAndTail
    <2>2. Reconnect \in Nat
      BY DEF Reconnect
    <2>3. out' \in Seq(Nat)
      BY <1>7, <2>1, <2>2, OneEvent DEF TakeItem
    <2> QED
      BY <1>7, <2>1, <2>3 DEF TakeItem
  <1>8. CASE \E q \in Handlers : Emit(q) /\ out # <<Reconnect>>
    BY <1>8, EventsAreNumbers, ConcatProperties DEF Emit
  <1> QED
    BY <1>2, <1>3, <1>4, <1>5, <1>6, <1>7, <1>8
       DEF Next, ReaderNext, StreamNext, Stop, Tick, Emit, EmitFails, Plain

\* A stream that ends leaves nothing behind, and no browser to miss it.
LEMMA StreamGone ==
  ASSUME HandlersTyped, StreamTyped, StreamOK, NEW q \in Handlers, Streaming(q), StreamReturns(q),
         reader' = reader
  PROVE  StreamOK'
  <1>1. pc' = [pc EXCEPT ![q] = "idle"]
    BY DEF StreamReturns, Returns
  <1>2. NoStream'
    BY <1>1 DEF NoStream, Streaming, HandlersTyped, StreamOK, StreamsApart
  <1>3. IsPrefix(<<>>, All(0))
    <2>1. <<>> \in Seq(Nat) /\ Len(<<>>) = 0 /\ 0 \in Nat
      BY EventsAreNumbers
    <2>2. Len(<<>>) <= 0 /\ \A i \in 1 .. Len(<<>>) : <<>>[i] = i
      BY <2>1
    <2> QED
      BY <2>1, <2>2, PrefixOfAll
  <1>4. hand' = <<>> /\ items' = <<>> /\ out' = <<>> /\ seen' = <<>> /\ read' = 0
    BY DEF StreamReturns
  <1> QED
    BY <1>2, <1>3, <1>4 DEF StreamOK, StreamsApart, HeldByStep, NoStream, Cancelled, Streaming

\* While nothing of the stream moves it stays so, even when its browser leaves.
LEMMA StreamKept ==
  ASSUME StreamOK, UNCHANGED stream,
         \A p \in Handlers : /\ pc'[p] \in {"loop", "emit"} <=> pc[p] \in {"loop", "emit"}
                             /\ pc[p] \in {"loop", "emit"} => pc'[p] = pc[p] /\ (gone[p] => gone'[p])
  PROVE  StreamOK'
  <1>1. ~Cancelled' => ~Cancelled
    BY DEF Cancelled, Streaming
  <1>2. StreamsApart' /\ HeldByStep'
    BY DEF StreamOK, StreamsApart, HeldByStep, NoStream, Streaming, stream
  <1>3. UNCHANGED <<reader, hand, items, out, read, seen>>
    BY DEF stream
  <1>4. Relayed' = Relayed /\ IsPrefix(seen, All(read))' = IsPrefix(seen, All(read))
    BY <1>3 DEF Relayed, All, IsPrefix
  <1> QED
    BY <1>1, <1>2, <1>4 DEF StreamOK

LEMMA StepReader ==
  ASSUME HandlersTyped, StreamTyped, StreamOK, ReaderNext
  PROVE  StreamOK'
  <1>0. UNCHANGED <<pc, gone, out, seen>>
    BY DEF ReaderNext, UpstreamAnswers, UpstreamEnds, ReadLine, UpstreamBreaks, ConnectCancelled, Send,
           SendCancelled, handlers
  <1>1. Cancelled' = Cancelled /\ (NoStream' <=> NoStream)
    BY <1>0 DEF Cancelled, NoStream, Streaming
  <1>2. NoStream => Cancelled
    BY DEF NoStream, Cancelled
  <1>3. /\ \A p, q \in Handlers : Streaming(p)' /\ Streaming(q)' => p = q
        /\ \A q \in Handlers : pc'[q] = "loop" => out' = <<>>
    BY <1>0 DEF StreamOK, StreamsApart, HeldByStep, Streaming
  <1>4. CASE UpstreamAnswers \/ UpstreamEnds \/ ConnectCancelled
    <2>1. reader \in {"connect", "read"} /\ UNCHANGED <<hand, items, read>>
      BY <1>4 DEF UpstreamAnswers, UpstreamEnds, ConnectCancelled
    <2>2. hand' = <<>>
      BY <2>1 DEF StreamOK, HeldByStep
    <2>3. IsPrefix(seen, All(read))' = IsPrefix(seen, All(read))
      BY <1>0, <2>1 DEF IsPrefix, All
    <2>4. ~Cancelled => Relayed'
      BY <1>0, <2>1 DEF StreamOK, Relayed, All
    <2> QED
      BY <1>0, <1>1, <1>3, <2>1, <2>2, <2>3, <2>4 DEF StreamOK, StreamsApart, HeldByStep
  <1>5. CASE ReadLine \/ UpstreamBreaks
    <2>1. reader = "read" /\ items' = items /\ reader' \in {"send", "last"} /\ hand = <<>>
      BY <1>5 DEF ReadLine, UpstreamBreaks, Held, StreamOK, HeldByStep
    <2>2. CASE Cancelled
      <3>1. UNCHANGED <<hand, read>>
        BY <1>5, <2>2 DEF ReadLine, UpstreamBreaks, Held
      <3>2. IsPrefix(seen, All(read))' = IsPrefix(seen, All(read))
        BY <1>0, <3>1 DEF IsPrefix, All
      <3> QED
        BY <1>0, <1>1, <1>3, <2>1, <2>2, <3>1, <3>2 DEF StreamOK, StreamsApart, HeldByStep
    <2>3. CASE ~Cancelled
      <3>1. hand' = <<read + 1>> /\ read' = read + 1
        BY <1>5, <2>3 DEF ReadLine, UpstreamBreaks, Held
      <3>2. out # <<Reconnect>> /\ seen \o out \o items \o hand = All(read)
        BY <2>1, <2>3 DEF StreamOK, Relayed
      <3>3. seen \o out \o items \o <<>> = seen \o out \o items
        <4>1. items \in Seq(Nat)
          BY EventsAreNumbers DEF StreamTyped
        <4>2. seen \o out \o items \in Seq(Nat)
          BY <4>1, ConcatProperties DEF StreamTyped
        <4> QED
          BY <4>2, ConcatEmptySeq
      <3>4. seen \o out \o items \o <<read + 1>> = All(read + 1)
        BY <2>1, <3>2, <3>3, AllGrows DEF StreamTyped
      <3>5. IsPrefix(seen, All(read + 1))
        BY PrefixGrows DEF StreamOK, StreamTyped
      <3>6. Relayed'
        BY <1>0, <2>1, <3>1, <3>2, <3>4 DEF Relayed
      <3>7. IsPrefix(seen, All(read))'
        BY <1>0, <3>1, <3>5 DEF IsPrefix, All
      <3> QED
        BY <1>1, <1>2, <1>3, <2>1, <2>3, <3>6, <3>7 DEF StreamOK, StreamsApart, HeldByStep
    <2> QED
      BY <2>2, <2>3
  <1>6. CASE Send
    <2>1. /\ reader \in {"send", "last"} /\ ~Cancelled /\ items' = items \o hand /\ hand' = <<>>
          /\ read' = read
      BY <1>6 DEF Send
    <2>2. out # <<Reconnect>> /\ seen \o out \o items \o hand = All(read)
      BY <2>1 DEF StreamOK, Relayed
    <2>3. seen \o out \o items \o hand = seen \o out \o (items \o hand) \o <<>>
      <3>1. seen \in Seq(Nat) /\ out \in Seq(Nat) /\ items \in Seq(Nat) /\ hand \in Seq(Nat)
        BY EventsAreNumbers DEF StreamTyped
      <3>2. Regrouped(seen, out, items, hand)
        BY <3>1, Regroup
      <3> QED
        BY <3>2 DEF Regrouped
    <2>4. Relayed'
      BY <1>0, <2>1, <2>2, <2>3 DEF Relayed, All
    <2>5. IsPrefix(seen, All(read))'
      BY <1>0, <2>1 DEF IsPrefix, All, StreamOK
    <2> QED
      BY <1>1, <1>2, <1>3, <2>1, <2>4, <2>5 DEF StreamOK, StreamsApart, HeldByStep
  <1>7. CASE SendCancelled
    <2>1. Cancelled /\ hand' = <<>> /\ UNCHANGED <<items, read>>
      BY <1>7 DEF SendCancelled
    <2>2. IsPrefix(seen, All(read))'
      BY <1>0, <2>1 DEF IsPrefix, All, StreamOK
    <2> QED
      BY <1>0, <1>1, <1>3, <2>1, <2>2 DEF StreamOK, StreamsApart, HeldByStep
  <1> QED
    BY <1>4, <1>5, <1>6, <1>7 DEF ReaderNext

LEMMA StepTake ==
  ASSUME HandlersTyped, StreamTyped, StreamOK, NEW q \in Handlers, TakeItem(q)
  PROVE  StreamOK'
  <1>0. /\ pc[q] = "loop" /\ pc' = [pc EXCEPT ![q] = "emit"]
        /\ UNCHANGED <<gone, reader, hand, read, seen>>
    BY DEF TakeItem
  <1>1. \A p \in Handlers : Streaming(p)' <=> Streaming(p)
    BY <1>0 DEF HandlersTyped, Streaming
  <1>2. Streaming(q) /\ ~NoStream' /\ Cancelled' = Cancelled
    BY <1>0, <1>1 DEF Streaming, NoStream, Cancelled
  <1>3. StreamsApart'
    BY <1>1, <1>2 DEF StreamOK, StreamsApart
  <1>4. HeldByStep'
    BY <1>0, <1>1, <1>2 DEF StreamOK, StreamsApart, HeldByStep, HandlersTyped, Streaming
  <1>5. IsPrefix(seen, All(read))'
    BY <1>0 DEF StreamOK, IsPrefix, All
  <1>6. ASSUME ~Cancelled PROVE Relayed'
    <2>1. out = <<>> /\ seen \o out \o items \o hand = All(read)
      BY <1>0, <1>6 DEF StreamOK, HeldByStep, Relayed
    <2>2. seen \in Seq(Nat) /\ items \in Seq(Nat) /\ hand \in Seq(Nat)
      BY EventsAreNumbers DEF StreamTyped
    <2>3. CASE items # <<>>
      <3>1. out' = <<Head(items)>> /\ items' = Tail(items)
        BY <2>3 DEF TakeItem
      <3>2. Head(items) \in Events /\ Tail(items) \in Seq(Events) /\ items = <<Head(items)>> \o Tail(items)
        BY <2>3, HeadAndTail DEF StreamTyped
      <3>3. out' # <<Reconnect>>
        BY <3>1, <3>2 DEF Events
      <3>4. <<Head(items)>> \in Seq(Nat) /\ Tail(items) \in Seq(Nat)
        BY <3>2, EventsAreNumbers, OneEvent
      <3>5. seen \o <<>> \o (<<Head(items)>> \o Tail(items)) \o hand
              = seen \o <<Head(items)>> \o Tail(items) \o hand
        <4>1. Regrouped(seen, <<Head(items)>>, Tail(items), hand)
          BY <2>2, <3>4, Regroup
        <4> QED
          BY <4>1 DEF Regrouped
      <3>6. seen \o <<Head(items)>> \o Tail(items) \o hand = All(read)
        BY <2>1, <3>2, <3>5
      <3> QED
        BY <1>0, <3>1, <3>3, <3>6 DEF Relayed, All
    <2>4. CASE items = <<>>
      <3>1. reader = "over" /\ out' = <<Reconnect>>
        BY <2>4 DEF TakeItem
      <3>2. hand = <<>>
        BY <3>1 DEF StreamOK, HeldByStep
      <3>3. seen \o <<>> = seen
        BY <2>2, ConcatEmptySeq
      <3>4. seen = All(read)
        BY <2>1, <2>4, <3>2, <3>3
      <3> QED
        BY <1>0, <3>1, <3>4 DEF Relayed, All
    <2> QED
      BY <2>3, <2>4
  <1> QED
    BY <1>2, <1>3, <1>4, <1>5, <1>6 DEF StreamOK

LEMMA StepEmit ==
  ASSUME HandlersTyped, StreamTyped, StreamOK, NEW q \in Handlers, Emit(q), out # <<Reconnect>>
  PROVE  StreamOK'
  <1>0. /\ pc[q] = "emit" /\ pc' = [pc EXCEPT ![q] = "loop"] /\ out' = <<>>
        /\ seen' = IF gone[q] THEN seen ELSE seen \o out
        /\ UNCHANGED <<gone, reader, hand, items, read>>
    BY DEF Emit
  <1>1. \A p \in Handlers : Streaming(p)' <=> Streaming(p)
    BY <1>0 DEF HandlersTyped, Streaming
  <1>2. Streaming(q) /\ ~NoStream' /\ Cancelled' = Cancelled /\ (Cancelled <=> gone[q])
    BY <1>0, <1>1 DEF Streaming, NoStream, Cancelled, StreamOK, StreamsApart
  <1>3. StreamsApart' /\ HeldByStep'
    BY <1>0, <1>1, <1>2 DEF StreamOK, StreamsApart, HeldByStep
  <1>4. CASE gone[q]
    <2>1. IsPrefix(seen, All(read))'
      BY <1>0, <1>4 DEF StreamOK, IsPrefix, All
    <2> QED
      BY <1>2, <1>3, <1>4, <2>1 DEF StreamOK
  <1>5. CASE ~gone[q]
    <2>1. seen' = seen \o out /\ seen \o out \o items \o hand = All(read)
      BY <1>0, <1>2, <1>5 DEF StreamOK, Relayed
    <2>2. seen \in Seq(Nat) /\ out \in Seq(Nat) /\ items \in Seq(Nat) /\ hand \in Seq(Nat) /\ read \in Nat
      BY EventsAreNumbers DEF StreamTyped
    <2>3. /\ (seen \o out) \o <<>> \o items \o hand = seen \o out \o items \o hand
          /\ (seen \o out) \o (items \o hand) = seen \o out \o items \o hand
      <3>1. Regrouped(seen, out, items, hand)
        BY <2>2, Regroup
      <3> QED
        BY <3>1 DEF Regrouped
    <2>4. seen \o out \in Seq(Nat) /\ items \o hand \in Seq(Nat)
      BY <2>2, Concatenated, Zenon
    <2>5. IsPrefix(seen \o out, All(read))
      BY <2>1, <2>2, <2>3, <2>4, FrontIsPrefix
    <2>6. IsPrefix(seen, All(read))'
      BY <1>0, <2>1, <2>5 DEF IsPrefix, All
    <2>7. Relayed'
      BY <1>0, <2>1, <2>3 DEF Relayed, All, Reconnect
    <2> QED
      BY <1>3, <2>6, <2>7 DEF StreamOK
  <1> QED
    BY <1>4, <1>5

LEMMA StepOpen ==
  ASSUME HandlersTyped, StreamTyped, StreamOK, NEW q \in Handlers, OpenStream(q)
  PROVE  StreamOK'
  <1>0. /\ pc[q] = "logs" /\ reader = "over" /\ NoStream
        /\ UNCHANGED <<hand, items, out, read, seen>>
    BY DEF OpenStream, NoStream
  <1>1. /\ hand = <<>> /\ items = <<>> /\ out = <<>> /\ seen = <<>> /\ read = 0
    BY <1>0 DEF StreamOK, StreamsApart
  <1>2. pc' = [pc EXCEPT ![q] = "loop"] \/ pc' = [pc EXCEPT ![q] = "idle"]
    BY DEF OpenStream, Returns
  <1>3. \A p \in Handlers : Streaming(p)' => p = q
    BY <1>0, <1>2 DEF NoStream, Streaming, HandlersTyped
  <1>4. StreamsApart' /\ HeldByStep'
    BY <1>0, <1>1, <1>3 DEF StreamsApart, HeldByStep
  <1>5. IsPrefix(seen, All(read))'
    BY <1>0 DEF StreamOK, IsPrefix, All
  <1>6. Relayed'
    <2>1. seen \o out \o items \o hand = All(read)
      BY <1>0, <1>1 DEF All
    <2> QED
      BY <1>0, <1>1, <2>1 DEF Relayed, All, Reconnect
  <1> QED
    BY <1>4, <1>5, <1>6 DEF StreamOK

LEMMA StepStream ==
  HandlersTyped /\ StreamTyped /\ StreamOK /\ [Next]_vars => StreamOK'
  <1> SUFFICES ASSUME HandlersTyped, StreamTyped, StreamOK, [Next]_vars PROVE StreamOK'
    OBVIOUS
  <1>1. CASE \E q \in Handlers : Plain(q)
    BY <1>1, PlainMoves, StreamKept DEF StreamingKept
  <1>2. CASE \E q \in Handlers : BrowserLeaves(q)
    <2> PICK q \in Handlers : BrowserLeaves(q)
      BY <1>2
    <2>1. UNCHANGED <<pc, stream>> /\ \A p \in Handlers : gone[p] => gone'[p]
      BY DEF BrowserLeaves, HandlersTyped
    <2> QED
      BY <2>1, StreamKept
  <1>3. CASE TimePasses \/ Close \/ UNCHANGED vars
    <2>1. UNCHANGED <<pc, gone, stream>>
      BY <1>3 DEF TimePasses, Close, vars, handlers
    <2> QED
      BY <2>1, StreamKept
  <1>4. CASE \E q \in Handlers : OpenStream(q) \/ TakeItem(q) \/ (Emit(q) /\ out # <<Reconnect>>)
    BY <1>4, StepOpen, StepTake, StepEmit
  <1>5. CASE \E q \in Handlers : Streaming(q) /\ StreamReturns(q) /\ reader' = reader
    BY <1>5, StreamGone
  <1>6. CASE ReaderNext
    BY <1>6, StepReader
  <1> QED
    BY <1>1, <1>2, <1>3, <1>4, <1>5, <1>6
       DEF Next, StreamNext, Stop, Tick, Emit, EmitFails, Streaming, Plain

-----------------------------------------------------------------------------
(* The theorems *)

LEMMA InitIInv == Init => IInv
  <1> SUFFICES ASSUME Init PROVE IInv
    OBVIOUS
  <1>1. SessionsTyped /\ SessionsEndOnce
    BY DEF Init, SessionsTyped, SessionsEndOnce
  <1>2. HandlersTyped /\ WritesTyped /\ WritesOK
    BY DEF Init, HandlersTyped, Steps, WritesTyped, Results, Told, WritesOK, Sent
  <1>3. StreamTyped
    BY EventsAreNumbers DEF Init, StreamTyped
  <1>4. StreamsApart /\ HeldByStep /\ Cancelled
    BY DEF Init, StreamsApart, HeldByStep, Streaming, Cancelled
  <1>5. IsPrefix(seen, All(read))
    BY EventsAreNumbers DEF Init, IsPrefix, All
  <1> QED
    BY <1>1, <1>2, <1>3, <1>4, <1>5 DEF IInv, TypeOK, StreamOK

LEMMA StepIInv == IInv /\ [Next]_vars => IInv'
  BY StepSessions, StepHandlers, StepWrites, StepStreamTyped, StepStream DEF IInv, TypeOK

\* Every reachable state is well typed.
THEOREM TypeCorrect == Spec => []TypeOK
  <1>1. IInv => TypeOK
    BY DEF IInv
  <1> QED
    BY <1>1, InitIInv, StepIInv, PTL DEF Spec

\* A session's Done is closed once, when it leaves the map, and none comes back.
THEOREM SessionsEndOnceHolds == Spec => []SessionsEndOnce
  <1>1. IInv => SessionsEndOnce
    BY DEF IInv
  <1> QED
    BY <1>1, InitIInv, StepIInv, PTL DEF Spec

\* The browser has seen, in order and without a gap it is not told of, what was read
\* of the manager's stream, as far as it is not still on its way.
THEOREM NothingLost == Spec => []NothingLostSilently
  <1>1. IInv => NothingLostSilently
    BY DEF IInv, StreamOK, Relayed, All, NothingLostSilently
  <1> QED
    BY <1>1, InitIInv, StepIInv, PTL DEF Spec

\* An answer the browser can act on is true, and the manager works on two writes at
\* once only when one was answered as unknown.
THEOREM AnswersAreTrueHolds == Spec => []AnswersAreTrue
  <1>1. IInv => AnswersAreTrue
    <2> SUFFICES ASSUME IInv, NEW q \in Handlers
                 PROVE  /\ told[q] = "success" => job[q] = "applied"
                        /\ told[q] = "CONFLICT" => job[q] \in {"refused", "partly"}
                        /\ told[q] = "BUSY" => job[q] = "none"
                        /\ job[q] \in {"sent", "failed"} => told[q] \in {"none", "RESULT_UNKNOWN"}
                        /\ job[q] = "sent" /\ told[q] # "RESULT_UNKNOWN" =>
                             \A p \in Handlers \ {q} : pc[p] # pc[q]
      BY DEF AnswersAreTrue
    <2> QED
      BY DEF IInv, WritesOK
  <1> QED
    BY <1>1, InitIInv, StepIInv, PTL DEF Spec

-----------------------------------------------------------------------------
(* The page of nodes *)

\* The goroutines' requests.
LoadsTyped ==
  load \in [Loads -> {Idle} \cup [at : {"asked"}]
                                 \cup [at : {"read"}, now : [Groups -> Nodes]]]

Selections ==
  [at : {"asked", "sent", "ok", "failed"}, group : Groups, node : Nodes, heard : BOOLEAN]

SelectsTyped == select \in [Selects -> {Idle} \cup Selections]

TestsTyped ==
  test \in [Keys -> {Idle} \cup [at : {"asked"}, restore : Delays]
                                \cup [at : {"done"}, delay : Delays]]

PageTyped ==
  /\ now \in [Groups -> Nodes] /\ mark \in [Groups -> Nodes]
  /\ delay \in [Keys -> Delays \cup {"testing"}]
  /\ group \in Groups
  /\ LoadsTyped /\ SelectsTyped /\ TestsTyped
  /\ had \in [Groups -> SUBSET Nodes] /\ agreed \subseteq Groups

\* Nothing is read, and nothing confirmed, but what the core has used; and what was
\* read since a switch was confirmed is what the core still holds to.
ReadIsTrue ==
  /\ \A g \in Groups : now[g] \in had[g]
  /\ \A l \in Loads : load[l].at = "read" =>
       /\ \A g \in Groups : load[l].now[g] \in had[g]
       /\ \A g \in agreed : load[l].now[g] = now[g]
  /\ \A s \in Selects : select[s].at = "ok" => select[s].node \in had[select[s].group]

PageIsTrue == ReadIsTrue /\ MarkIsTrue

PageInv == PageTyped /\ PageIsTrue /\ NoStuckTesting

LEMMA PageInitInv == PageInit => PageInv
  BY DEF PageInit, PageInv, PageTyped, LoadsTyped, SelectsTyped, TestsTyped, PageIsTrue, ReadIsTrue,
         MarkIsTrue, NoStuckTesting, Idle, Delays

\* What the core comes to use it has used, and a switch it gives up is no longer agreed.
LEMMA UsesIsTrue ==
  ASSUME PageTyped, PageIsTrue, NEW g \in Groups, NEW n \in Nodes, Uses(g, n)
  PROVE  /\ now' \in [Groups -> Nodes]
         /\ had' \in [Groups -> SUBSET Nodes] /\ agreed' \subseteq agreed
         /\ \A h \in Groups : had[h] \subseteq had'[h] /\ now'[h] \in had'[h]
         /\ \A h \in agreed' : now'[h] = now[h]
  BY DEF PageTyped, PageIsTrue, ReadIsTrue, Uses

\* The core switches by itself.
LEMMA CoreStep ==
  ASSUME PageTyped, PageIsTrue, CoreSwitches, Automatic \subseteq Groups
  PROVE  PageTyped' /\ PageIsTrue'
  <1> PICK g \in Automatic, n \in Nodes : Uses(g, n)
    BY DEF CoreSwitches
  <1>1. UNCHANGED <<mark, delay, group, load, select, test>>
    BY DEF CoreSwitches, page, calls
  <1>2. PageTyped'
    BY <1>1, UsesIsTrue DEF PageTyped, LoadsTyped, SelectsTyped, TestsTyped
  <1>3. PageIsTrue'
    BY <1>1, UsesIsTrue DEF PageIsTrue, ReadIsTrue, MarkIsTrue, PageTyped,
                            SelectsTyped, Selections, Idle
  <1> QED
    BY <1>2, <1>3

\* A load reads what the core uses, and is drawn later.
LEMMA LoadStep ==
  ASSUME PageTyped, PageIsTrue, NEW l \in Loads,
         Load(l) \/ LoadAnswered(l) \/ LoadFailed(l) \/ LoadDrawn(l)
  PROVE  PageTyped' /\ PageIsTrue'
  <1>1. CASE Load(l) \/ LoadFailed(l)
    <2>1. /\ UNCHANGED <<now, had, mark, delay, group, select, test, agreed>>
          /\ \/ load' = [load EXCEPT ![l] = [at |-> "asked"]]
             \/ load' = [load EXCEPT ![l] = Idle]
      BY <1>1 DEF Load, LoadFailed, core, page
    <2>2. LoadsTyped'
      BY <2>1 DEF PageTyped, LoadsTyped, Idle
    <2>3. \A k \in Loads : load'[k].at = "read" => load'[k] = load[k]
      BY <2>1 DEF PageTyped, LoadsTyped, Idle
    <2> QED
      BY <2>1, <2>2, <2>3 DEF PageTyped, SelectsTyped, TestsTyped, PageIsTrue, ReadIsTrue,
                              MarkIsTrue
  <1>2. CASE LoadAnswered(l)
    <2>1. /\ UNCHANGED <<now, had, mark, delay, group, select, test, agreed>>
          /\ load' = [load EXCEPT ![l] = [at |-> "read", now |-> now]]
      BY <1>2 DEF LoadAnswered, core, page
    <2>2. LoadsTyped'
      BY <2>1 DEF PageTyped, LoadsTyped
    <2>3. \A k \in Loads : load'[k] = load[k] \/ load'[k] = [at |-> "read", now |-> now]
      BY <2>1 DEF PageTyped, LoadsTyped
    <2> QED
      BY <2>1, <2>2, <2>3 DEF PageTyped, SelectsTyped, TestsTyped, PageIsTrue, ReadIsTrue,
                              MarkIsTrue
  <1>3. CASE LoadDrawn(l)
    <2>1. /\ UNCHANGED <<now, had, group, select, test, agreed>>
          /\ load[l].at = "read" /\ mark' = load[l].now /\ delay' \in [Keys -> Delays]
          /\ load' = [load EXCEPT ![l] = Idle]
      BY <1>3 DEF LoadDrawn, core
    <2>2. LoadsTyped' /\ mark' \in [Groups -> Nodes]
      BY <2>1 DEF PageTyped, LoadsTyped, Idle
    <2>3. \A k \in Loads : load'[k].at = "read" => load'[k] = load[k]
      BY <2>1 DEF PageTyped, LoadsTyped, Idle
    <2> QED
      BY <2>1, <2>2, <2>3 DEF PageTyped, SelectsTyped, TestsTyped, PageIsTrue, ReadIsTrue,
                              MarkIsTrue
  <1> QED
    BY <1>1, <1>2, <1>3

\* A selection that is under way is of a node in a group.
LEMMA SelectTyped ==
  ASSUME SelectsTyped, NEW s \in Selects, select[s].at # "idle"
  PROVE  /\ select[s] \in Selections
         /\ select[s].at \in {"asked", "sent", "ok", "failed"}
         /\ select[s].group \in Groups /\ select[s].node \in Nodes
  BY DEF SelectsTyped, Selections, Idle

\* What becomes of one selection.
Becomes(s, new) == select' = [select EXCEPT ![s] = new]

LEMMA SelectMoves ==
  ASSUME SelectsTyped, NEW s \in Selects
  PROVE  \A new \in {Idle} \cup Selections :
           Becomes(s, new) =>
             SelectsTyped' /\ \A t \in Selects : select'[t] = IF t = s THEN new ELSE select[t]
  BY DEF SelectsTyped, Becomes

LEMMA IdleIsIdle == Idle.at = "idle"
  BY DEF Idle

\* An answer that nobody hears ends a selection; the others go on.
LEMMA SelectAnswered ==
  ASSUME SelectsTyped, NEW s \in Selects, select[s].at # "idle",
         NEW answer \in {"ok", "failed"}, Answered(s, answer)
  PROVE  /\ SelectsTyped'
         /\ \A t \in Selects \ {s} : select'[t] = select[t]
         /\ select'[s].at \in {"idle", answer}
         /\ select'[s].at # "idle" =>
              select'[s].group = select[s].group /\ select'[s].node = select[s].node
  <1>1. select[s] \in Selections
    BY SelectTyped
  <1>2. [select[s] EXCEPT !.at = answer] \in Selections
    BY <1>1 DEF Selections
  <1>3. select' = [select EXCEPT ![s] =
                     IF select[s].heard THEN [select[s] EXCEPT !.at = answer] ELSE Idle]
    BY DEF Answered, SelectsTyped
  <1> DEFINE new == [select[s] EXCEPT !.at = answer]
  <1>4. new.at = answer /\ new.group = select[s].group /\ new.node = select[s].node
    BY <1>1 DEF Selections
  <1>5. new \in {Idle} \cup Selections
    BY <1>2
  <1>6. Becomes(s, IF select[s].heard THEN new ELSE Idle)
    BY <1>3 DEF Becomes
  <1> HIDE DEF new
  <1>7. CASE select[s].heard
    BY <1>4, <1>5, <1>6, <1>7, SelectMoves
  <1>8. CASE ~select[s].heard
    BY <1>6, <1>8, SelectMoves, IdleIsIdle
  <1> QED
    BY <1>7, <1>8

\* A selection moves the mark to what was read back, or nowhere.
LEMMA SelectStep ==
  ASSUME PageTyped, PageIsTrue, NEW s \in Selects,
         \/ Select(s) \/ SetProxy(s) \/ ReadBack(s)
         \/ SelectGivenUp(s) \/ SelectDrawn(s) \/ ErrorDrawn(s)
  PROVE  PageTyped' /\ PageIsTrue'
  <1>0. SelectsTyped
    BY DEF PageTyped
  <1>1. CASE /\ UNCHANGED <<now, had, mark, delay, group, load, test, agreed>>
             /\ SelectsTyped'
             /\ \A t \in Selects : select'[t].at = "ok" =>
                  \/ select[t].at = "ok" /\ select'[t].group = select[t].group
                                         /\ select'[t].node = select[t].node
                  \/ select'[t].group \in Groups /\ now[select'[t].group] = select'[t].node
    BY <1>1 DEF PageTyped, LoadsTyped, TestsTyped, PageIsTrue, ReadIsTrue, MarkIsTrue
  <1>2. CASE Select(s)
    <2> PICK n \in Nodes : select' = [select EXCEPT ![s] =
                             [at |-> "asked", group |-> group, node |-> n, heard |-> TRUE]]
      BY <1>2 DEF Select
    <2> DEFINE new == [at |-> "asked", group |-> group, node |-> n, heard |-> TRUE]
    <2>1. new \in Selections /\ new.at # "ok"
      BY DEF Selections, PageTyped
    <2>2. Becomes(s, new)
      BY DEF Becomes
    <2> HIDE DEF new
    <2>3. SelectsTyped' /\ \A t \in Selects : select'[t].at = "ok" => select'[t] = select[t]
      BY <1>0, <2>1, <2>2, SelectMoves
    <2> QED
      BY <1>1, <1>2, <2>3 DEF Select, core, page
  <1>3. CASE ErrorDrawn(s)
    <2>1. Becomes(s, Idle)
      BY <1>3 DEF ErrorDrawn, Becomes
    <2>2. SelectsTyped' /\ \A t \in Selects : select'[t].at = "ok" => select'[t] = select[t]
      BY <1>0, <2>1, SelectMoves, IdleIsIdle
    <2> QED
      BY <1>1, <1>3, <2>2 DEF ErrorDrawn, core, page
  <1>4. CASE SelectGivenUp(s)
    <2>1. select[s] \in Selections /\ select[s].at \in {"asked", "sent"}
      BY <1>0, <1>4, SelectTyped DEF SelectGivenUp
    <2> DEFINE new == [select[s] EXCEPT !.heard = FALSE]
    <2>2. new \in Selections /\ new.at # "ok"
      BY <2>1 DEF Selections
    <2>3. Becomes(s, new)
      BY <1>0, <1>4 DEF SelectGivenUp, SelectsTyped, Becomes
    <2> HIDE DEF new
    <2>4. SelectsTyped' /\ \A t \in Selects : select'[t].at = "ok" => select'[t] = select[t]
      BY <1>0, <2>2, <2>3, SelectMoves
    <2> QED
      BY <1>1, <1>4, <2>4 DEF SelectGivenUp, core, page
  <1>5. CASE ReadBack(s)
    <2>1. select[s].at = "sent" /\ UNCHANGED <<now, had, mark, delay, group, load, test, agreed>>
      BY <1>5 DEF ReadBack, core, page
    <2>2. select[s].group \in Groups
      BY <1>0, <2>1, SelectTyped
    <2>3. CASE now[select[s].group] = select[s].node /\ Answered(s, "ok")
      BY <1>0, <1>1, <2>1, <2>2, <2>3, SelectAnswered
    <2>4. CASE Answered(s, "failed")
      BY <1>0, <1>1, <2>1, <2>4, SelectAnswered
    <2> QED
      BY <1>5, <2>3, <2>4 DEF ReadBack
  <1>6. CASE SetProxy(s)
    <2> DEFINE g == select[s].group
    <2>1. select[s] \in Selections /\ g \in Groups /\ select[s].node \in Nodes
      BY <1>0, <1>6, SelectTyped DEF SetProxy
    <2>2. PICK n \in Nodes : Uses(g, n)
      BY <1>6, <2>1 DEF SetProxy, PageTyped
    <2>3. UNCHANGED <<mark, delay, group, load, test>>
      BY <1>6 DEF SetProxy, page
    <2>4. SelectsTyped' /\ \A t \in Selects : select'[t].at = "ok" => select'[t] = select[t]
      <3>1. CASE select' = [select EXCEPT ![s].at = "sent"]
        <4> DEFINE new == [select[s] EXCEPT !.at = "sent"]
        <4>1. new \in Selections /\ new.at # "ok"
          BY <2>1 DEF Selections
        <4>2. Becomes(s, new)
          BY <1>0, <3>1 DEF SelectsTyped, Becomes
        <4> HIDE DEF new
        <4> QED
          BY <1>0, <4>1, <4>2, SelectMoves
      <3>2. CASE Answered(s, "failed")
        BY <1>0, <1>6, <3>2, SelectAnswered DEF SetProxy
      <3> QED
        BY <1>6, <3>1, <3>2 DEF SetProxy
    <2>5. /\ now' \in [Groups -> Nodes]
          /\ had' \in [Groups -> SUBSET Nodes] /\ agreed' \subseteq agreed
          /\ \A h \in Groups : had[h] \subseteq had'[h] /\ now'[h] \in had'[h]
          /\ \A h \in agreed' : now'[h] = now[h]
      BY <2>1, <2>2, UsesIsTrue
    <2>6. \A t \in Selects : select'[t].at = "ok" => select'[t].group \in Groups
      BY <1>0, <2>4, SelectTyped
    <2>7. PageTyped'
      BY <2>3, <2>4, <2>5 DEF PageTyped, LoadsTyped, TestsTyped
    <2>8. PageIsTrue'
      BY <2>3, <2>4, <2>5, <2>6 DEF PageTyped, PageIsTrue, ReadIsTrue, MarkIsTrue
    <2> QED
      BY <2>7, <2>8
  <1>7. CASE SelectDrawn(s)
    <2> DEFINE g == select[s].group
               n == select[s].node
    <2>1. g \in Groups /\ n \in Nodes /\ n \in had[g] /\ select[s].at = "ok"
      BY <1>0, <1>7, SelectTyped DEF SelectDrawn, PageIsTrue, ReadIsTrue
    <2>2. UNCHANGED <<now, had, group, load, test>> /\ Becomes(s, Idle)
      BY <1>7 DEF SelectDrawn, core, Becomes
    <2>3. SelectsTyped' /\ \A t \in Selects : select'[t].at = "ok" => select'[t] = select[t]
      BY <1>0, <2>2, SelectMoves, IdleIsIdle
    <2>4. CASE g = group
      <3>1. /\ mark' = [mark EXCEPT ![g] = n]
            /\ agreed' = IF now[g] = n /\ \A l \in Loads : load[l].at = "idle"
                         THEN agreed \cup {g} ELSE agreed \ {g}
            /\ \E d \in [Keys -> Delays] :
                 delay' = [k \in Keys |-> IF k[1] = g THEN d[k] ELSE delay[k]]
        BY <1>7, <2>4 DEF SelectDrawn, MarkMoved
      <3>2. delay' \in [Keys -> Delays \cup {"testing"}]
        BY <3>1 DEF PageTyped
      <3>3. PageTyped'
        BY <2>1, <2>2, <2>3, <3>1, <3>2 DEF PageTyped, LoadsTyped, TestsTyped
      <3>4. ReadIsTrue'
        BY <2>2, <2>3, <3>1 DEF PageIsTrue, ReadIsTrue
      <3>5. MarkIsTrue'
        BY <2>1, <2>2, <3>1 DEF PageTyped, PageIsTrue, MarkIsTrue
      <3> QED
        BY <3>3, <3>4, <3>5 DEF PageIsTrue
    <2>5. CASE g # group
      <3>1. UNCHANGED <<mark, agreed, delay>>
        BY <1>7, <2>5 DEF SelectDrawn
      <3> QED
        BY <2>2, <2>3, <3>1 DEF PageTyped, LoadsTyped, TestsTyped, PageIsTrue, ReadIsTrue,
                                MarkIsTrue
    <2> QED
      BY <2>4, <2>5
  <1> QED
    BY <1>2, <1>3, <1>4, <1>5, <1>6, <1>7

\* Tests touch the delays only.
LEMMA TestStep ==
  ASSUME PageTyped, PageIsTrue, NoStuckTesting, NEW k \in Keys,
         Test(k) \/ TestAnswered(k) \/ TestFailed(k) \/ TestDrawn(k)
  PROVE  PageTyped' /\ PageIsTrue' /\ NoStuckTesting'
  <1>1. UNCHANGED <<now, had, mark, group, load, select, agreed>>
    BY DEF Test, TestAnswered, TestFailed, TestDrawn, core,
           page
  <1>2. TestsTyped' /\ delay' \in [Keys -> Delays \cup {"testing"}] /\ NoStuckTesting'
    <2> USE DEF PageTyped, TestsTyped, NoStuckTesting, Idle, Delays
    <2>1. CASE Test(k)
      BY <2>1 DEF Test
    <2>2. CASE TestAnswered(k)
      BY <2>2 DEF TestAnswered, page
    <2>3. CASE TestFailed(k)
      BY <2>3 DEF TestFailed, page
    <2>4. CASE TestDrawn(k)
      BY <2>4 DEF TestDrawn
    <2> QED
      BY <2>1, <2>2, <2>3, <2>4
  <1> QED
    BY <1>1, <1>2 DEF PageTyped, LoadsTyped, SelectsTyped, PageIsTrue, ReadIsTrue,
                      MarkIsTrue

\* Loads and selections show a node as untested or measured, and no other step
\* touches what is shown of a test.
LEMMA OtherStepsTest ==
  ASSUME PageTyped, NoStuckTesting,
         \/ CoreSwitches \/ ChooseGroup \/ UNCHANGED pageVars
         \/ \E l \in Loads :
              \/ Load(l) \/ LoadAnswered(l) \/ LoadFailed(l) \/ LoadDrawn(l)
         \/ \E s \in Selects :
              \/ Select(s) \/ SetProxy(s) \/ ReadBack(s)
              \/ SelectGivenUp(s) \/ SelectDrawn(s) \/ ErrorDrawn(s)
  PROVE  NoStuckTesting'
  <1>1. test' = test
    BY DEF CoreSwitches, ChooseGroup, pageVars, calls, Load,
           LoadAnswered, LoadFailed, LoadDrawn, Select, SetProxy,
           ReadBack, SelectGivenUp, SelectDrawn, ErrorDrawn
  <1>2. \A k \in Keys : delay'[k] \in Delays \cup {delay[k]}
    BY DEF CoreSwitches, ChooseGroup, pageVars, page, Load,
           LoadAnswered, LoadFailed, LoadDrawn, Select, SetProxy,
           ReadBack, SelectGivenUp, SelectDrawn, ErrorDrawn
  <1> QED
    BY <1>1, <1>2 DEF NoStuckTesting, Delays

LEMMA PageStep == PageInv /\ [PageNext]_pageVars => PageInv'
  <1> SUFFICES ASSUME PageTyped, PageIsTrue, NoStuckTesting,
                      [PageNext]_pageVars
               PROVE  PageTyped' /\ PageIsTrue' /\ NoStuckTesting'
    BY DEF PageInv
  <1>1. CASE CoreSwitches
    BY <1>1, CoreStep, OtherStepsTest, NodesPageConstantsOK
  <1>2. CASE \E l \in Loads :
               \/ Load(l) \/ LoadAnswered(l)
               \/ LoadFailed(l) \/ LoadDrawn(l)
    BY <1>2, LoadStep, OtherStepsTest
  <1>3. CASE \E s \in Selects :
               \/ Select(s) \/ SetProxy(s) \/ ReadBack(s)
               \/ SelectGivenUp(s) \/ SelectDrawn(s) \/ ErrorDrawn(s)
    BY <1>3, SelectStep, OtherStepsTest
  <1>4. CASE \E k \in Keys :
               \/ Test(k) \/ TestAnswered(k)
               \/ TestFailed(k) \/ TestDrawn(k)
    BY <1>4, TestStep
  <1>5. CASE ChooseGroup \/ UNCHANGED pageVars
    <2>1. group' \in Groups /\ UNCHANGED <<now, had, mark, delay, load, select, test, agreed>>
      BY <1>5 DEF ChooseGroup, pageVars, core, page, calls, PageTyped
    <2> QED
      BY <1>5, <2>1, OtherStepsTest DEF PageTyped, LoadsTyped, SelectsTyped, TestsTyped,
                                        PageIsTrue, ReadIsTrue, MarkIsTrue
  <1> QED
    BY <1>1, <1>2, <1>3, <1>4, <1>5 DEF PageNext

\* The page marks only what the core has really used, and keeps showing a switch
\* that was confirmed for as long as the core holds to it: for any groups, nodes,
\* loads and selections.
THEOREM MarkIsTrueHolds == PageSpec => []MarkIsTrue
  <1>1. PageInv => MarkIsTrue
    BY DEF PageInv, PageIsTrue
  <1> QED
    BY <1>1, PageInitInv, PageStep, PTL DEF PageSpec

\* A node shown as being tested has a test under way that will end it.
THEOREM NoStuckTestingHolds == PageSpec => []NoStuckTesting
  <1>1. PageInv => NoStuckTesting
    BY DEF PageInv
  <1> QED
    BY <1>1, PageInitInv, PageStep, PTL DEF PageSpec
=============================================================================
