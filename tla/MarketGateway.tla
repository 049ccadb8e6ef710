---------------------------- MODULE MarketGateway ----------------------------
(***************************************************************************)
(* HTTP requests that need the market data provider: the access limiter,   *)
(* then a market query (market_routes.execute) or a refresh                *)
(* (RefreshAndAnalyzeService.run up to its last source call), each over a  *)
(* transport session of its own.                                           *)
(*                                                                         *)
(* A refresh makes the calls of Tasks in turn, each in Chunks of a year    *)
(* and, but for the calendar, with retries; a query makes one call.        *)
(***************************************************************************)
EXTENDS McpTransport, FiniteSets

CONSTANTS
  Requests,      \* HTTP requests
  Clients,       \* client addresses
  ClientOf,      \* [Requests -> Clients]
  KindOf,        \* what they ask, unless for a public path: [Requests -> Kinds]
  MaxPerMinute,  \* accepted requests of a client per Window
  Window,        \* its length: 60 seconds
  Threads,       \* requests served at a time
  Retries,       \* attempts of a call of the ingest
  Chunks,        \* chunks of each task of a refresh
  MaxTime,       \* bound on the clock
  MaxFaults,     \* bound on the faults of the children
  MaxBacklog     \* bound on the lines a child is ahead with lines of its own

ASSUME GatewayAssumption ==
  /\ ClientOf \in [Requests -> Clients]
  /\ KindOf \in [Requests -> {"price", "futures", "refresh"}]
  /\ MaxPerMinute \in Nat \ {0} /\ Window \in Nat \ {0}
  /\ Threads \in Nat \ {0} /\ Chunks \in Nat \ {0}
  /\ Retries \in Nat /\ MaxTime \in Nat /\ MaxFaults \in Nat /\ MaxBacklog \in Nat

VARIABLES
  now,      \* time.monotonic() of the server
  hits,     \* _hits of the limiter: [Clients -> Seq of instants]
  stage,    \* [Requests -> Stages]
  status,   \* what a request that closes its source will be answered
  session,  \* its transport session
  work,     \* its call in progress: [phase, task, attempt, chunk]
  faults,   \* faults of the children so far
  arrived,  \* history: when each request was counted or refused by the limiter
  log       \* history: answers read for a request not yet done, with the call
            \* they were read for

vars == <<now, hits, stage, status, session, work, faults, arrived, log>>

Stages == {"new", "queued", "calling", "waiting", "closing", "done"}
-----------------------------------------------------------------------------
(* The limiter: ReadOnlyAccessMiddleware.dispatch, which does not yield    *)
(* between reading and writing the list of a client.                       *)

(* The elements of seq at the positions kept, in their order: SelectSeq,   *)
(* of which the provers know no definition.                                *)
Kept(seq, kept) ==
  [k \in 1..Cardinality(kept) |-> seq[CHOOSE i \in kept : Cardinality({j \in kept : j <= i}) = k]]

(* Mutation: an instant counts for one second less.                        *)
Recent_Short(client) ==
  Kept(hits[client], {i \in DOMAIN hits[client] : now - hits[client][i] < Window - 1})

Recent(client) ==
  Kept(hits[client], {i \in DOMAIN hits[client] : now - hits[client][i] < Window})

(* A public path, a wrong token, a client at its limit, or served.         *)
Arrive(r) ==
  LET client == ClientOf[r]
      recent == Recent(client)
  IN  /\ stage[r] = "new"
      /\ \/ /\ stage' = [stage EXCEPT ![r] = "done"]
            /\ UNCHANGED <<hits, arrived>>
         \/ /\ Len(recent) >= MaxPerMinute
            /\ stage' = [stage EXCEPT ![r] = "done"]
            /\ arrived' = [arrived EXCEPT ![r] = [at |-> now, verdict |-> "limited"]]
            /\ UNCHANGED hits
         \/ /\ Len(recent) < MaxPerMinute
            /\ stage' = [stage EXCEPT ![r] = "queued"]
            /\ arrived' = [arrived EXCEPT ![r] = [at |-> now, verdict |-> "accepted"]]
            /\ hits' = [hits EXCEPT ![client] = Append(recent, now)]
      /\ UNCHANGED <<now, status, session, work, faults, log>>
-----------------------------------------------------------------------------
(* The calls of a request.  Before its own the transport makes three to    *)
(* set the session up.                                                     *)

Tasks(r, phase) ==
  IF phase = "setup" THEN <<"initialize", "tools/list", "data_source_guide">>
  ELSE IF KindOf[r] = "refresh" THEN <<"calendar", "contracts", "bars", "limits">>
  ELSE <<"query">>

TaskOf(r, w) == Tasks(r, w.phase)[w.task]
ChunksOf(r, w) == IF TaskOf(r, w) \in {"bars", "limits"} THEN Chunks ELSE 1

(* _retry of the ingest; every other call has a single attempt.            *)
Attempts(r, w) ==
  IF TaskOf(r, w) \in {"contracts", "bars", "limits"} /\ Retries > 1 THEN Retries ELSE 1

First(phase) == [phase |-> phase, task |-> 1, attempt |-> 1, chunk |-> 1]

Bodies == {"complete", "incomplete", "invalid", "AUTH_ERROR", "RATE_LIMIT", "PARAM_VALIDATION_ERROR"}

(* What __init__ of the transport makes of an answer: the version, the     *)
(* tools and the guide are as required, or not.                            *)
SetupError(body) == IF body = "complete" THEN "none" ELSE "MCP_START_FAILED"

(* McpFuturesSource._rows: the rows must be complete.                      *)
RowsError(body) ==
  CASE body = "complete" -> "none"
    [] body = "incomplete" -> "MCP_INCOMPLETE"
    [] body = "AUTH_ERROR" -> body
    [] OTHER -> "MCP_TOOL_ERROR"

(* McpMarketQueries._query: a collection of futures records is passed on   *)
(* with its gaps, every other must be complete.                            *)
QueryError(kind, body) ==
  CASE body = "complete" -> "none"
    [] body = "incomplete" -> IF kind = "futures" THEN "none" ELSE "MCP_INCOMPLETE"
    [] body \in {"RATE_LIMIT", "PARAM_VALIDATION_ERROR"} -> body
    [] OTHER -> "MCP_TOOL_ERROR"

CallError(r, phase, body) ==
  CASE phase = "setup" -> SetupError(body)
    [] phase = "calls" /\ KindOf[r] = "refresh" -> RowsError(body)
    [] OTHER -> QueryError(KindOf[r], body)

(* What the caller is told of an error of the source.                      *)
Status(r, code) ==
  IF KindOf[r] = "refresh"
  THEN (IF code = "AUTH_ERROR" THEN "SOURCE_AUTH_ERROR" ELSE "SOURCE_UNAVAILABLE")
  ELSE CASE code = "RATE_LIMIT" -> "429"
         [] code = "PARAM_VALIDATION_ERROR" -> "422"
         [] OTHER -> "503"
-----------------------------------------------------------------------------
(* How a request goes on after a call.  s is its session.                  *)

Goes(r, to, w, s) ==
  /\ stage' = [stage EXCEPT ![r] = to]
  /\ work' = [work EXCEPT ![r] = w]
  /\ session' = [session EXCEPT ![r] = s]
  /\ UNCHANGED status

(* The request is over but for closing its source.                         *)
Ends(r, answer, s) ==
  /\ stage' = [stage EXCEPT ![r] = "closing"]
  /\ session' = [session EXCEPT ![r] = s]
  /\ status' = [status EXCEPT ![r] = answer]
  /\ UNCHANGED work

(* Mutation: the child of a session that is not set up is left alone.      *)
StartFails_LeavesChild(r, code, s) == Ends(r, Status(r, code), s)

(* Setting up fails: __init__ closes what it started and raises, so that   *)
(* the caller has no source to close.                                      *)
StartFails(r, code, s) == Ends(r, Status(r, code), Closed(s))

(* Once more, with the same session whatever state that is in.             *)
Retried(r, code) == code # "AUTH_ERROR" /\ work[r].attempt < Attempts(r, work[r])

CallFails(r, code, s) ==
  \/ work[r].phase = "setup" /\ StartFails(r, code, s)
  \/ /\ work[r].phase = "calls" /\ Retried(r, code)
     /\ Goes(r, "calling", [work[r] EXCEPT !.attempt = @ + 1, !.chunk = 1], s)
  \/ /\ work[r].phase = "calls" /\ ~Retried(r, code)
     /\ Ends(r, Status(r, code), s)

(* A chunk is there: the next chunk, task or phase is called, or this was  *)
(* the last.  A refresh may still fail at what it does with the data.      *)
CallSucceeds(r, s) ==
  LET w == work[r]
      full == w.chunk = ChunksOf(r, w)
      last == full /\ w.task = Len(Tasks(r, w.phase))
  IN  \/ ~full /\ Goes(r, "calling", [w EXCEPT !.chunk = @ + 1], s)
      \/ full /\ ~last /\ Goes(r, "calling", [First(w.phase) EXCEPT !.task = w.task + 1], s)
      \/ last /\ w.phase = "setup" /\ Goes(r, "calling", First("calls"), s)
      \/ last /\ w.phase = "calls" /\ Ends(r, "200", s)
      \/ last /\ w.phase = "calls" /\ KindOf[r] = "refresh" /\ Ends(r, "REFRESH_FAILED", s)
-----------------------------------------------------------------------------
(* The steps of a request.                                                 *)

(* A thread is free and makes the source; a refresh takes its lock first,  *)
(* and the command may not start.                                          *)
Open(r) ==
  /\ stage[r] = "queued"
  /\ Cardinality({q \in Requests : stage[q] \in {"calling", "waiting", "closing"}}) < Threads
  /\ \/ KindOf[r] = "refresh" /\ Ends(r, "409", NoSession)
     \/ Ends(r, Status(r, "MCP_START_FAILED"), NoSession)
     \/ Goes(r, "calling", First("setup"), Started)
  /\ UNCHANGED <<now, hits, faults, arrived, log>>

(* Its arguments or the data so far are refused before the next call.      *)
Reject(r) ==
  /\ stage[r] = "calling" /\ work[r].phase = "calls" /\ work[r].attempt = 1 /\ work[r].chunk = 1
  /\ \/ KindOf[r] # "refresh" /\ Ends(r, "422", session[r])
     \/ KindOf[r] = "refresh" /\ work[r].task > 1 /\ Ends(r, "REFRESH_FAILED", session[r])
  /\ UNCHANGED <<now, hits, faults, arrived, log>>

(* request: first there must be room in the pipe for it.                   *)
Ask(r) ==
  /\ stage[r] = "calling" /\ ~Blocked(session[r])
  /\ \/ /\ CanAsk(session[r])
        /\ Goes(r, "waiting", work[r], Asked(session[r], <<TaskOf(r, work[r]), work[r].chunk>>))
     \/ ~CanAsk(session[r]) /\ CallFails(r, "MCP_CLOSED", Closed(session[r]))
  /\ UNCHANGED <<now, hits, faults, arrived, log>>

(* The next line: the answer, something of no matter, or the end.  A       *)
(* request of the child is answered, for which there must be room.         *)
Read(r) ==
  /\ stage[r] = "waiting" /\ session[r].inbox # <<>>
  /\ Head(session[r].inbox).kind = "ask" => ~Blocked(session[r])
  /\ LET line == Head(session[r].inbox)
         s == [session[r] EXCEPT !.inbox = Tail(@)]
         error == CallError(r, work[r].phase, line.body)
     IN  \/ /\ Meets(s, line)
            /\ log' = [log EXCEPT ![r] = Append(@, [call |-> work[r], of |-> line.of, body |-> line.body])]
            /\ \/ error = "none" /\ CallSucceeds(r, s)
               \/ error # "none" /\ CallFails(r, error, s)
         \/ /\ ~Meets(s, line) /\ Skipped(s, line)
            /\ Goes(r, "waiting", work[r], s)
            /\ UNCHANGED log
         \/ /\ ~Meets(s, line) /\ ~Skipped(s, line)
            /\ CallFails(r, LineError(line), Closed(s))
            /\ UNCHANGED log
  /\ UNCHANGED <<now, hits, faults, arrived>>

EndOfFile(r) ==
  /\ stage[r] = "waiting" /\ session[r].inbox = <<>> /\ session[r].process = "exited"
  /\ CallFails(r, "MCP_CLOSED", Closed(session[r]))
  /\ UNCHANGED <<now, hits, faults, arrived, log>>

(* Mutation: the deadline is looked at only when the child is silent.      *)
TimeOut_OnSilence(r) ==
  /\ stage[r] = "waiting" /\ ~Blocked(session[r]) /\ session[r].inbox = <<>>
  /\ CallFails(r, "MCP_TIMEOUT", Closed(session[r]))
  /\ UNCHANGED <<now, hits, faults, arrived, log>>

(* The deadline of a request is looked at before every line, so that it    *)
(* may pass with the answer already there.  The child is sent a            *)
(* cancellation, for which there must be room, before the error is raised. *)
TimeOut(r) ==
  /\ stage[r] = "waiting" /\ ~Blocked(session[r])
  /\ CallFails(r, "MCP_TIMEOUT", Closed(session[r]))
  /\ UNCHANGED <<now, hits, faults, arrived, log>>

(* finally: the source is closed, if there is one.                         *)
Close(r) ==
  /\ stage[r] = "closing"
  /\ stage' = [stage EXCEPT ![r] = "done"]
  /\ session' = [session EXCEPT ![r] = IF work[r].phase = "calls" THEN Closed(@) ELSE @]
  /\ work' = [work EXCEPT ![r] = First("setup")]
  /\ log' = [log EXCEPT ![r] = <<>>]
  /\ status' = [status EXCEPT ![r] = "none"]
  /\ UNCHANGED <<now, hits, faults, arrived>>

Own(kind) == [kind |-> kind, id |-> 0, of |-> <<>>, body |-> "invalid"]

(* What the child does.  It may answer each request once, go on and on     *)
(* with notifications and requests of its own while the transport reads    *)
(* (before that they would only wait), and make room in its input; all     *)
(* else is a fault.                                                        *)
Child(r) ==
  LET s == session[r]
  IN  /\ s.process = "running"
      /\ \/ /\ \/ \E request \in s.received :
                    session' = [session EXCEPT ![r] = Answered(s, request, "complete")]
               \/ /\ stage[r] = "waiting" /\ Len(s.inbox) < MaxBacklog
                  /\ \E kind \in {"notice", "ask"} :
                       session' = [session EXCEPT ![r] = Wrote(s, Own(kind))]
               \/ s.full /\ session' = [session EXCEPT ![r] = Drained(s)]
            /\ UNCHANGED faults
         \/ /\ faults < MaxFaults
            /\ faults' = faults + 1
            /\ \/ \E request \in s.received, body \in Bodies :
                    session' = [session EXCEPT ![r] = Wrote(s, Line("answer", request, body))]
               \/ \E kind \in {"bad", "huge"} :
                    session' = [session EXCEPT ![r] = Wrote(s, Own(kind))]
               \/ session' = [session EXCEPT ![r] = Exited(s)]
               \/ stage[r] = "waiting" /\ session' = [session EXCEPT ![r] = Unread(s)]
      /\ UNCHANGED <<now, hits, stage, status, work, arrived, log>>

(* The clock is read by the limiter only: it stands still once there is no *)
(* request to come.                                                        *)
Tick ==
  /\ now < MaxTime /\ \E r \in Requests : stage[r] = "new"
  /\ now' = now + 1
  /\ UNCHANGED <<hits, stage, status, session, work, faults, arrived, log>>
-----------------------------------------------------------------------------
Init ==
  /\ now = 0 /\ hits = [c \in Clients |-> <<>>] /\ faults = 0
  /\ stage = [r \in Requests |-> "new"] /\ status = [r \in Requests |-> "none"]
  /\ session = [r \in Requests |-> NoSession] /\ work = [r \in Requests |-> First("setup")]
  /\ arrived = [r \in Requests |-> [at |-> 0, verdict |-> "none"]]
  /\ log = [r \in Requests |-> <<>>]

Advance(r) == Open(r) \/ Ask(r) \/ Read(r) \/ EndOfFile(r) \/ Close(r)

Next ==
  \/ \E r \in Requests : Arrive(r) \/ Advance(r) \/ TimeOut(r) \/ Reject(r) \/ Child(r)
  \/ Tick

(* A thread that serves a request goes on unless it waits for room in the  *)
(* pipe, and the deadline of a request passes however many lines the child *)
(* writes.  The child need do nothing, not even read its input.            *)
Fairness == \A r \in Requests : WF_vars(Advance(r)) /\ WF_vars(TimeOut(r))

Spec == Init /\ [][Next]_vars
FairSpec == Spec /\ Fairness
-----------------------------------------------------------------------------
(* A request that is answered 200 has the answer of the child to every     *)
(* call it made and to every chunk of it, in one attempt, and none with    *)
(* gaps where they matter: an answer to an earlier attempt that comes      *)
(* late, or twice, is never taken for another call.  A rejected credential *)
(* is not tried again and is what the caller is told.                      *)
AnsweredInFull ==
  \A r \in Requests :
    LET entries == {log[r][i] : i \in DOMAIN log[r]}
        wanted(w) == <<TaskOf(r, w), w.chunk>>
        calls == {w \in [phase : {"setup", "calls"}, task : 1..4, attempt : {1}, chunk : 1..Chunks] :
                    w.task <= Len(Tasks(r, w.phase)) /\ w.chunk <= ChunksOf(r, w)}
        satisfied(w) ==
          \E e \in entries :
            /\ [e.call EXCEPT !.attempt = 1] = w
            /\ e.of = wanted(w)
            /\ \/ e.body = "complete"
               \/ e.body = "incomplete" /\ w.phase = "calls" /\ KindOf[r] = "futures"
            /\ \A f \in entries : f.call.phase = w.phase /\ f.call.task = w.task
                                    => f.call.attempt <= e.call.attempt
    IN  /\ status[r] = "200" /\ stage[r] = "closing" => \A w \in calls : satisfied(w)
        /\ \A i \in DOMAIN log[r] :
             /\ log[r][i].of = wanted(log[r][i].call)
             /\ KindOf[r] = "refresh" /\ log[r][i].call.phase = "calls" /\ log[r][i].body = "AUTH_ERROR"
                  => i = Len(log[r]) /\ status[r] = "SOURCE_AUTH_ERROR"

(* No child outlives its request, however the request ended, nor serves    *)
(* one whose session is over.                                              *)
SessionsReaped ==
  \A r \in Requests :
    stage[r] \in {"new", "queued", "done"} =>
      session[r].process \in {"none", "reaped"} /\ session[r].inbox = <<>>

(* No client has more than MaxPerMinute requests accepted in any Window,   *)
(* and is refused only when it has that many: requests that were refused,  *)
(* unauthorized or of other clients do not count, and the window slides.   *)
WindowExact ==
  LET accepted(c, t) == {r \in Requests : /\ ClientOf[r] = c /\ arrived[r].verdict = "accepted"
                                          /\ arrived[r].at \in (t - Window + 1)..t}
  IN  /\ \A c \in Clients, t \in 0..now : Cardinality(accepted(c, t)) <= MaxPerMinute
      /\ \A r \in Requests :
           arrived[r].verdict = "limited"
             => Cardinality(accepted(ClientOf[r], arrived[r].at)) = MaxPerMinute

(* Every accepted request is answered, although its child may never        *)
(* answer, answer something else, go on and on with lines of its own, or   *)
(* die: the requests being finitely many, again and again there is none in *)
(* progress.  One thing is asked of a child: that it does not leave its    *)
(* input pipe full for ever, for which _send waits without a deadline.     *)
RequestsEnd ==
  (\A r \in Requests : []<>~Blocked(session[r]))
    => []<>(\A r \in Requests : stage[r] \in {"new", "done"})
=============================================================================
