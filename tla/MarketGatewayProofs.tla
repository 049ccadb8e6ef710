------------------------ MODULE MarketGatewayProofs ------------------------
(***************************************************************************)
(* The answers of the market data provider and the access limiter, for     *)
(* every set of requests and clients, any number of threads, chunks,       *)
(* attempts and faults: what a request makes of its session, what its log  *)
(* holds at each step, and which requests a list of instants stands for.   *)
(***************************************************************************)
EXTENDS MarketGateway, SequenceTheorems, FiniteSetTheorems, TLAPS

Calls ==
  {"initialize", "tools/list", "data_source_guide", "calendar", "contracts", "bars", "limits", "query"}

(* What a request may ask: a call and a chunk of it.                       *)
Questions == Calls \X (Nat \ {0})

Lines == [kind : {"answer", "notice", "ask", "bad", "huge"}, id : Nat,
          of : Questions \union {<<>>}, body : Bodies]

Sessions == [process : {"none", "running", "exited", "reaped"}, sequence : Nat,
             received : SUBSET [id : Nat, of : Questions], inbox : Seq(Lines), full : BOOLEAN]

Works == [phase : {"setup", "calls"}, task : 1..4, attempt : Nat \ {0}, chunk : Nat \ {0}]

Entries == [call : Works, of : Questions \union {<<>>}, body : Bodies]

Wanted(r, w) == <<TaskOf(r, w), w.chunk>>
-----------------------------------------------------------------------------
(* The session.                                                            *)

(* No child, and nothing left of it to read.                               *)
Ended(s) == s.process \in {"none", "reaped"} /\ s.inbox = <<>>

(* Requests are numbered up to the last one, and so are their answers.     *)
Numbered(s) ==
  /\ s.process = "none" => s = NoSession
  /\ \A q \in s.received : q.id <= s.sequence
  /\ \A i \in DOMAIN s.inbox : s.inbox[i].kind = "answer" => s.inbox[i].id <= s.sequence

(* Whatever carries the number of the last request is about question of.   *)
Current(s, of) ==
  /\ \A q \in s.received : q.id = s.sequence => q.of = of
  /\ \A i \in DOMAIN s.inbox :
       s.inbox[i].kind = "answer" /\ s.inbox[i].id = s.sequence => s.inbox[i].of = of

LEMMA NoSessionNumbered == NoSession \in Sessions /\ Numbered(NoSession) /\ Ended(NoSession)
BY DEF NoSession, Sessions, Numbered, Ended

LEMMA StartedNumbered == Started \in Sessions /\ Numbered(Started)
<1>1. /\ Started.process = "running" /\ Started.sequence = 0
      /\ Started.received = {} /\ Started.inbox = <<>>
  BY DEF Started, NoSession
<1>2. Started \in Sessions
  BY NoSessionNumbered DEF Started, Sessions
<1>3. QED
  BY <1>1, <1>2 DEF Numbered

(* A closed session is over.                                               *)
LEMMA ClosedNumbered ==
  ASSUME NEW s \in Sessions, Numbered(s)
  PROVE  Closed(s) \in Sessions /\ Numbered(Closed(s)) /\ Ended(Closed(s))
<1>1. CASE s.process = "none"
  BY <1>1, NoSessionNumbered DEF Closed, Numbered
<1>2. CASE s.process # "none"
  <2>1. PICK t : t = [NoSession EXCEPT !.process = "reaped"]
    OBVIOUS
  <2>2. t.process = "reaped" /\ t.sequence = 0 /\ t.received = {} /\ t.inbox = <<>>
    BY <2>1 DEF NoSession
  <2>3. t \in Sessions
    BY <2>1, NoSessionNumbered DEF Sessions
  <2>4. Closed(s) = t
    BY <1>2, <2>1 DEF Closed
  <2>5. QED
    BY <2>2, <2>3, <2>4 DEF Numbered, Ended
<1>3. QED
  BY <1>1, <1>2

(* The number of a new request is that of no earlier one.                  *)
LEMMA AskedNumbered ==
  ASSUME NEW s \in Sessions, Numbered(s), CanAsk(s), NEW of \in Questions
  PROVE  Asked(s, of) \in Sessions /\ Numbered(Asked(s, of)) /\ Current(Asked(s, of), of)
<1>1. PICK n : n = s.sequence + 1
  OBVIOUS
<1>2. n \in Nat /\ s.sequence \in Nat /\ s.sequence < n
  BY <1>1 DEF Sessions
<1>3. PICK t : t = [s EXCEPT !.sequence = n, !.received = @ \union {[id |-> n, of |-> of]}]
  OBVIOUS
<1>4. /\ t \in Sessions /\ t = Asked(s, of)
      /\ t.process = s.process /\ t.sequence = n /\ t.inbox = s.inbox
      /\ t.received = s.received \union {[id |-> n, of |-> of]}
  <2>1. s.received \union {[id |-> n, of |-> of]} \subseteq [id : Nat, of : Questions]
    BY <1>2 DEF Sessions
  <2>2. t \in Sessions
    BY <1>2, <1>3, <2>1 DEF Sessions
  <2>3. /\ t.process = s.process /\ t.sequence = n /\ t.inbox = s.inbox
        /\ t.received = s.received \union {[id |-> n, of |-> of]}
    BY <1>3 DEF Sessions
  <2>4. t = Asked(s, of)
    BY <1>1, <1>3 DEF Asked, NextId
  <2>5. QED
    BY <2>2, <2>3, <2>4
<1>5. /\ \A q \in s.received : q.id <= n /\ q.id # n
      /\ \A i \in DOMAIN s.inbox : s.inbox[i].kind = "answer" =>
           s.inbox[i].id <= n /\ s.inbox[i].id # n
  <2>1. \A q \in s.received : q.id \in Nat /\ q.id <= s.sequence
    BY DEF Numbered, Sessions
  <2>2. \A i \in DOMAIN s.inbox : s.inbox[i] \in Lines
    BY ElementOfSeq, LenProperties DEF Sessions
  <2>3. \A i \in DOMAIN s.inbox : s.inbox[i].id \in Nat
    BY <2>2 DEF Lines
  <2>4. QED
    BY <1>2, <2>1, <2>3 DEF Numbered
<1>6. s.process # "none"
  BY DEF CanAsk
<1>7. QED
  BY <1>2, <1>4, <1>5, <1>6 DEF Numbered, Current

(* Reading a line takes it off.                                            *)
LEMMA TailNumbered ==
  ASSUME NEW s \in Sessions, Numbered(s), s.inbox # <<>>
  PROVE  LET t == [s EXCEPT !.inbox = Tail(@)]
         IN  /\ t \in Sessions /\ Numbered(t)
             /\ t.sequence = s.sequence /\ t.process = s.process
             /\ Head(s.inbox) \in Lines
             /\ \A of : Current(s, of) =>
                  /\ Current(t, of)
                  /\ Meets(t, Head(s.inbox)) => Head(s.inbox).of = of
<1>1. PICK rest : rest = Tail(s.inbox)
  OBVIOUS
<1>2. /\ s.inbox \in Seq(Lines) /\ rest \in Seq(Lines)
      /\ \A i \in DOMAIN rest : i + 1 \in DOMAIN s.inbox /\ rest[i] = s.inbox[i + 1]
      /\ 1 \in DOMAIN s.inbox /\ Head(s.inbox) = s.inbox[1] /\ Head(s.inbox) \in Lines
  <2>1. s.inbox \in Seq(Lines)
    BY DEF Sessions
  <2>2. /\ rest \in Seq(Lines) /\ Len(rest) = Len(s.inbox) - 1
        /\ \A i \in 1..Len(rest) : rest[i] = s.inbox[i + 1]
        /\ Head(s.inbox) \in Lines
    BY <1>1, <2>1, HeadTailProperties
  <2>3. /\ DOMAIN s.inbox = 1..Len(s.inbox) /\ Len(s.inbox) \in Nat /\ Len(s.inbox) # 0
        /\ DOMAIN rest = 1..Len(rest)
    BY <2>1, <2>2, LenProperties, EmptySeq
  <2>4. Head(s.inbox) = s.inbox[1]
    BY <2>1
  <2>5. QED
    BY <2>1, <2>2, <2>3, <2>4
<1>3. PICK t : t = [s EXCEPT !.inbox = rest]
  OBVIOUS
<1>4. t = [s EXCEPT !.inbox = Tail(@)]
  BY <1>1, <1>3
<1>5. t \in Sessions
  BY <1>2, <1>3 DEF Sessions
<1>6. /\ t.process = s.process /\ t.sequence = s.sequence /\ t.received = s.received /\ t.inbox = rest
  BY <1>3 DEF Sessions
<1>7. s.process # "none"
  BY DEF Numbered, NoSession
<1>8. Numbered(t)
  BY <1>2, <1>6, <1>7 DEF Numbered
<1>9. ASSUME NEW of, Current(s, of)
      PROVE  Current(t, of) /\ (Meets(t, Head(s.inbox)) => Head(s.inbox).of = of)
  BY <1>2, <1>6, <1>9 DEF Current, Meets
<1>10. QED
  BY <1>2, <1>4, <1>5, <1>6, <1>8, <1>9

(* What the child may write is about a request it has read.                *)
LEMMA WroteNumbered ==
  ASSUME NEW s \in Sessions, Numbered(s), s.process = "running", NEW line \in Lines,
         line.kind = "answer" => \E q \in s.received : line.id = q.id /\ line.of = q.of
  PROVE  /\ Wrote(s, line) \in Sessions /\ Numbered(Wrote(s, line))
         /\ \A of : Current(s, of) => Current(Wrote(s, line), of)
<1>1. PICK more : more = Append(s.inbox, line)
  OBVIOUS
<1>2. /\ more \in Seq(Lines)
      /\ \A i \in DOMAIN more : more[i] = line \/ (i \in DOMAIN s.inbox /\ more[i] = s.inbox[i])
  BY <1>1 DEF Sessions
<1>3. PICK t : t = [s EXCEPT !.inbox = more]
  OBVIOUS
<1>4. t = Wrote(s, line)
  BY <1>1, <1>3 DEF Wrote
<1>5. t \in Sessions
  BY <1>2, <1>3 DEF Sessions
<1>6. /\ t.process = "running" /\ t.sequence = s.sequence /\ t.received = s.received /\ t.inbox = more
  BY <1>3 DEF Sessions
<1>7. Numbered(t)
  BY <1>2, <1>6 DEF Numbered
<1>8. ASSUME NEW of, Current(s, of) PROVE Current(t, of)
  BY <1>2, <1>6, <1>8 DEF Current
<1>9. QED
  BY <1>4, <1>5, <1>7, <1>8

(* Whatever the child does, its answers stay numbered.                     *)
LEMMA ChildNumbered ==
  ASSUME NEW r \in Requests, session[r] \in Sessions, Numbered(session[r]), Child(r)
  PROVE  \E t \in Sessions : /\ session' = [session EXCEPT ![r] = t]
                             /\ Numbered(t) /\ t.process # "none"
                             /\ \A of : Current(session[r], of) => Current(t, of)
<1>1. PICK s : s = session[r]
  OBVIOUS
<1>2. /\ s \in Sessions /\ Numbered(s) /\ s.process = "running"
      /\ \A q \in s.received : q \in [id : Nat, of : Questions]
  BY <1>1 DEF Child, Sessions
<1>3. ASSUME NEW q \in s.received, NEW body \in Bodies
      PROVE  LET t == Wrote(s, Line("answer", q, body))
             IN  /\ t \in Sessions /\ Numbered(t) /\ t.process = "running"
                 /\ t.received = s.received
                 /\ \A of : Current(s, of) => Current(t, of)
  <2>1. PICK line : line = Line("answer", q, body)
    OBVIOUS
  <2>2. line \in Lines /\ line.id = q.id /\ line.of = q.of
    BY <1>2, <2>1 DEF Line, Lines
  <2>3. /\ Wrote(s, line) \in Sessions /\ Numbered(Wrote(s, line))
        /\ \A of : Current(s, of) => Current(Wrote(s, line), of)
    BY <1>2, <2>2, WroteNumbered
  <2>4. Wrote(s, line).process = "running" /\ Wrote(s, line).received = s.received
    BY <1>2 DEF Wrote, Sessions
  <2>5. QED
    BY <2>1, <2>3, <2>4
<1>4. ASSUME NEW q \in s.received, session' = [session EXCEPT ![r] = Answered(s, q, "complete")]
      PROVE  \E t \in Sessions : /\ session' = [session EXCEPT ![r] = t]
                                 /\ Numbered(t) /\ t.process # "none"
                                 /\ \A of : Current(s, of) => Current(t, of)
  <2>1. PICK u : u = Wrote(s, Line("answer", q, "complete"))
    OBVIOUS
  <2>2. /\ u \in Sessions /\ Numbered(u) /\ u.process = "running" /\ u.received = s.received
        /\ \A of : Current(s, of) => Current(u, of)
    BY <1>3, <2>1 DEF Bodies
  <2>3. PICK t : t = [u EXCEPT !.received = @ \ {q}]
    OBVIOUS
  <2>4. t = Answered(s, q, "complete")
    BY <2>1, <2>3 DEF Answered
  <2>5. /\ t.process = "running" /\ t.sequence = u.sequence
        /\ t.received \subseteq u.received /\ t.inbox = u.inbox
    BY <2>2, <2>3 DEF Sessions
  <2>6. t \in Sessions
    BY <2>2, <2>3 DEF Sessions
  <2>7. Numbered(t)
    BY <2>2, <2>5 DEF Numbered
  <2>8. ASSUME NEW of, Current(s, of) PROVE Current(t, of)
    BY <2>2, <2>5, <2>8 DEF Current
  <2>9. session' = [session EXCEPT ![r] = t]
    BY <1>4, <2>4
  <2>10. QED
    BY <2>5, <2>6, <2>7, <2>8, <2>9
<1>5. ASSUME NEW q \in s.received, NEW body \in Bodies,
             session' = [session EXCEPT ![r] = Wrote(s, Line("answer", q, body))]
      PROVE  \E t \in Sessions : /\ session' = [session EXCEPT ![r] = t]
                                 /\ Numbered(t) /\ t.process # "none"
                                 /\ \A of : Current(s, of) => Current(t, of)
  BY <1>3, <1>5
<1>6. ASSUME NEW kind \in {"notice", "ask", "bad", "huge"},
             session' = [session EXCEPT ![r] = Wrote(s, Own(kind))]
      PROVE  \E t \in Sessions : /\ session' = [session EXCEPT ![r] = t]
                                 /\ Numbered(t) /\ t.process # "none"
                                 /\ \A of : Current(s, of) => Current(t, of)
  <2>1. PICK line : line = Own(kind)
    OBVIOUS
  <2>2. line \in Lines /\ line.kind # "answer"
    BY <2>1 DEF Own, Lines, Bodies
  <2>3. /\ Wrote(s, line) \in Sessions /\ Numbered(Wrote(s, line))
        /\ \A of : Current(s, of) => Current(Wrote(s, line), of)
    BY <1>2, <2>2, WroteNumbered
  <2>4. Wrote(s, line).process # "none"
    BY <1>2 DEF Wrote, Sessions
  <2>5. QED
    BY <1>6, <2>1, <2>3, <2>4
<1>7. ASSUME NEW t, t.process \in {"running", "exited"}, t \in Sessions,
             t.sequence = s.sequence, t.received = s.received, t.inbox = s.inbox,
             session' = [session EXCEPT ![r] = t]
      PROVE  \E u \in Sessions : /\ session' = [session EXCEPT ![r] = u]
                                 /\ Numbered(u) /\ u.process # "none"
                                 /\ \A of : Current(s, of) => Current(u, of)
  <2>1. Numbered(t) /\ \A of : Current(s, of) => Current(t, of)
    BY <1>2, <1>7 DEF Numbered, Current
  <2>2. QED
    BY <1>7, <2>1
<1>8. /\ Exited(s) \in Sessions /\ Exited(s).process = "exited"
      /\ Exited(s).sequence = s.sequence /\ Exited(s).received = s.received
      /\ Exited(s).inbox = s.inbox
  BY <1>2 DEF Exited, Sessions
<1>9. /\ Unread(s) \in Sessions /\ Unread(s).process = "running"
      /\ Unread(s).sequence = s.sequence /\ Unread(s).received = s.received
      /\ Unread(s).inbox = s.inbox
  BY <1>2 DEF Unread, Sessions
<1>10. /\ Drained(s) \in Sessions /\ Drained(s).process = "running"
       /\ Drained(s).sequence = s.sequence /\ Drained(s).received = s.received
       /\ Drained(s).inbox = s.inbox
  BY <1>2 DEF Drained, Sessions
<1>11. \/ \E q \in s.received : session' = [session EXCEPT ![r] = Answered(s, q, "complete")]
       \/ \E q \in s.received, body \in Bodies :
            session' = [session EXCEPT ![r] = Wrote(s, Line("answer", q, body))]
       \/ \E kind \in {"notice", "ask", "bad", "huge"} :
            session' = [session EXCEPT ![r] = Wrote(s, Own(kind))]
       \/ \E t \in {Exited(s), Unread(s), Drained(s)} : session' = [session EXCEPT ![r] = t]
  BY <1>1, Zenon DEF Child
<1>12. QED
  BY <1>1, <1>4, <1>5, <1>6, <1>7, <1>8, <1>9, <1>10, <1>11
-----------------------------------------------------------------------------
(* The work of a request and its log.                                      *)

Legal(r, w) == w \in Works /\ w.task <= Len(Tasks(r, w.phase)) /\ w.chunk <= ChunksOf(r, w)

(* The calls of a request, each with its chunks, and their order.          *)
CallsOf(r) ==
  {w \in [phase : {"setup", "calls"}, task : 1..4, attempt : {1}, chunk : 1..Chunks] :
     w.task <= Len(Tasks(r, w.phase)) /\ w.chunk <= ChunksOf(r, w)}

Position(w) == (IF w.phase = "setup" THEN 0 ELSE 4) + w.task

Good(r, e) == CallError(r, e.call.phase, e.body) = "none"
Refused(r, e) == KindOf[r] = "refresh" /\ e.call.phase = "calls" /\ e.body = "AUTH_ERROR"

(* What AnsweredInFull takes for an answer to call c.                      *)
Enough(r, c, body) ==
  \/ body = "complete"
  \/ body = "incomplete" /\ c.phase = "calls" /\ KindOf[r] = "futures"

(* The log has a good answer to call c, of its last attempt.               *)
Satisfied(r, c, l) ==
  \E i \in DOMAIN l :
    /\ [l[i].call EXCEPT !.attempt = 1] = c
    /\ Good(r, l[i])
    /\ \A j \in DOMAIN l : Position(l[j].call) = Position(c) => l[j].call.attempt <= l[i].call.attempt

Delivered(r, c, attempt, l) ==
  \E i \in DOMAIN l : /\ [l[i].call EXCEPT !.attempt = 1] = c
                      /\ l[i].call.attempt = attempt /\ Good(r, l[i])

(* Up to work w: nothing is logged of a later call nor of a later attempt, *)
(* and every earlier call is satisfied.                                    *)
Reached(r, w, l) ==
  /\ \A i \in DOMAIN l : Position(l[i].call) <= Position(w)
  /\ \A i \in DOMAIN l : Position(l[i].call) = Position(w) => l[i].call.attempt <= w.attempt
  /\ \A c \in CallsOf(r) : Position(c) < Position(w) => Satisfied(r, c, l)

(* So are the chunks before that of w, in its attempt, and no credential   *)
(* was refused.                                                            *)
Progress(r, w, l) ==
  /\ Reached(r, w, l)
  /\ \A c \in CallsOf(r) :
       Position(c) = Position(w) /\ c.chunk < w.chunk => Delivered(r, c, w.attempt, l)
  /\ \A i \in DOMAIN l : ~Refused(r, l[i])

(* Positions tell the calls apart.                                         *)
LEMMA PositionOf ==
  ASSUME NEW w \in Works, NEW v \in Works
  PROVE  /\ Position(w) \in 1..8
         /\ w.phase = "setup" => Position(w) = w.task
         /\ w.phase = "calls" => Position(w) = 4 + w.task
         /\ Position(w) = Position(v) <=> w.phase = v.phase /\ w.task = v.task
BY DEF Works, Position

LEMMA TaskFacts ==
  ASSUME NEW r \in Requests
  PROVE  /\ Len(Tasks(r, "setup")) = 3
         /\ \A phase \in {"setup", "calls"} : Len(Tasks(r, phase)) \in 1..4
         /\ \A w \in Works : w.task <= Len(Tasks(r, w.phase)) =>
              /\ TaskOf(r, w) \in Calls
              /\ ChunksOf(r, w) \in Nat \ {0} /\ ChunksOf(r, w) <= Chunks
<1>1. /\ Len(Tasks(r, "setup")) = 3
      /\ \A phase \in {"setup", "calls"} : Len(Tasks(r, phase)) \in 1..4
  BY DEF Tasks
<1>2. ASSUME NEW w \in Works, w.task <= Len(Tasks(r, w.phase))
      PROVE  /\ TaskOf(r, w) \in Calls
             /\ ChunksOf(r, w) \in Nat \ {0} /\ ChunksOf(r, w) <= Chunks
  <2>1. w.phase \in {"setup", "calls"} /\ w.task \in 1..4
    BY DEF Works
  <2>2. TaskOf(r, w) \in Calls
    <3>1. CASE w.phase = "setup"
      <4>1. w.task <= 3
        BY <1>1, <1>2, <3>1, Zenon
      <4>2. w.task \in {1, 2, 3}
        BY <2>1, <4>1
      <4>3. QED
        BY <3>1, <4>2 DEF TaskOf, Tasks, Calls
    <3>2. CASE w.phase = "calls" /\ KindOf[r] = "refresh"
      <4>1. w.task \in {1, 2, 3, 4}
        BY <2>1
      <4>2. QED
        BY <3>2, <4>1 DEF TaskOf, Tasks, Calls
    <3>3. CASE w.phase = "calls" /\ KindOf[r] # "refresh"
      <4>1. Tasks(r, w.phase) = <<"query">>
        BY <3>3 DEF Tasks
      <4>2. w.task = 1
        BY <1>2, <2>1, <4>1
      <4>3. QED
        BY <4>1, <4>2 DEF TaskOf, Calls
    <3>4. QED
      BY <2>1, <3>1, <3>2, <3>3
  <2>3. ChunksOf(r, w) \in Nat \ {0} /\ ChunksOf(r, w) <= Chunks
    BY GatewayAssumption DEF ChunksOf
  <2>4. QED
    BY <2>2, <2>3
<1>3. QED
  BY <1>1, <1>2

(* What a question is about does not depend on the attempt.                *)
LEMMA FirstAttempt ==
  ASSUME NEW r \in Requests, NEW w, Legal(r, w)
  PROVE  /\ [w EXCEPT !.attempt = 1] \in CallsOf(r)
         /\ Position([w EXCEPT !.attempt = 1]) = Position(w)
         /\ [w EXCEPT !.attempt = 1].chunk = w.chunk
<1>1. w \in Works /\ w.chunk \in 1..Chunks
  <2>1. w \in Works /\ w.task <= Len(Tasks(r, w.phase)) /\ w.chunk <= ChunksOf(r, w)
    BY DEF Legal
  <2>2. ChunksOf(r, w) \in Nat /\ ChunksOf(r, w) <= Chunks
    BY <2>1, TaskFacts
  <2>3. w.chunk \in Nat \ {0}
    BY <2>1 DEF Works
  <2>4. QED
    BY <2>1, <2>2, <2>3, GatewayAssumption
<1>2. PICK c : c = [w EXCEPT !.attempt = 1]
  OBVIOUS
<1>3. /\ c.phase = w.phase /\ c.task = w.task /\ c.attempt = 1 /\ c.chunk = w.chunk
      /\ c \in [phase : {"setup", "calls"}, task : 1..4, attempt : {1}, chunk : 1..Chunks]
  BY <1>1, <1>2 DEF Works
<1>4. c \in CallsOf(r) /\ Position(c) = Position(w)
  BY <1>3 DEF Legal, CallsOf, ChunksOf, TaskOf, Position
<1>5. QED
  BY <1>2, <1>3, <1>4

(* The call of a chunk is the first attempt of the work on it.             *)
LEMMA SameCall ==
  ASSUME NEW r \in Requests, NEW w, Legal(r, w), NEW c \in CallsOf(r),
         Position(c) = Position(w), c.chunk = w.chunk
  PROVE  c = [w EXCEPT !.attempt = 1]
<1>1. w \in Works
  BY DEF Legal
<1>2. c \in [phase : {"setup", "calls"}, task : 1..4, attempt : {1}, chunk : 1..Chunks]
  BY DEF CallsOf
<1>3. c.phase = w.phase /\ c.task = w.task /\ c.attempt = 1
  BY <1>1, <1>2 DEF Works, Position
<1>4. QED
  BY <1>1, <1>2, <1>3 DEF Works

LEMMA Logged ==
  ASSUME NEW l \in Seq(Entries), NEW e \in Entries
  PROVE  LET m == Append(l, e)
         IN  /\ m \in Seq(Entries) /\ Len(m) = Len(l) + 1 /\ Len(m) \in DOMAIN m /\ m[Len(m)] = e
             /\ \A i \in DOMAIN l : i \in DOMAIN m /\ m[i] = l[i]
             /\ \A i \in DOMAIN m : (i = Len(m) /\ m[i] = e) \/ (i \in DOMAIN l /\ m[i] = l[i])
OBVIOUS

(* An answer to another call leaves what is satisfied.                     *)
LEMMA SatisfiedKept ==
  ASSUME NEW r \in Requests, NEW l \in Seq(Entries), NEW e \in Entries, NEW c,
         Satisfied(r, c, l), Position(e.call) # Position(c)
  PROVE  Satisfied(r, c, Append(l, e))
<1>1. PICK m : m = Append(l, e)
  OBVIOUS
<1>2. /\ \A i \in DOMAIN l : i \in DOMAIN m /\ m[i] = l[i]
      /\ \A i \in DOMAIN m : m[i] = e \/ (i \in DOMAIN l /\ m[i] = l[i])
  BY <1>1, Logged
<1>3. PICK i \in DOMAIN l :
        /\ [l[i].call EXCEPT !.attempt = 1] = c
        /\ Good(r, l[i])
        /\ \A j \in DOMAIN l : Position(l[j].call) = Position(c) => l[j].call.attempt <= l[i].call.attempt
  BY DEF Satisfied
<1>4. i \in DOMAIN m /\ m[i] = l[i]
  BY <1>2
<1>5. \A j \in DOMAIN m : Position(m[j].call) = Position(c) => m[j].call.attempt <= m[i].call.attempt
  BY <1>2, <1>3, <1>4
<1>6. Satisfied(r, c, m)
  BY <1>3, <1>4, <1>5 DEF Satisfied
<1>7. QED
  BY <1>1, <1>6

(* Logging an answer to the work in progress.                              *)
LEMMA LogReached ==
  ASSUME NEW r \in Requests, NEW w, Legal(r, w), NEW l \in Seq(Entries), NEW e \in Entries,
         e.call = w, Reached(r, w, l)
  PROVE  Reached(r, w, Append(l, e))
<1>1. PICK m : m = Append(l, e)
  OBVIOUS
<1>2. \A i \in DOMAIN m : m[i] = e \/ (i \in DOMAIN l /\ m[i] = l[i])
  BY <1>1, Logged
<1>3. w \in Works /\ Position(w) \in Nat /\ w.attempt \in Nat
  BY PositionOf DEF Legal, Works
<1>4. ASSUME NEW i \in DOMAIN m
      PROVE  /\ Position(m[i].call) <= Position(w)
             /\ Position(m[i].call) = Position(w) => m[i].call.attempt <= w.attempt
  BY <1>2, <1>3 DEF Reached
<1>5. ASSUME NEW c \in CallsOf(r), Position(c) < Position(w) PROVE Satisfied(r, c, m)
  <2>1. Satisfied(r, c, l) /\ Position(e.call) # Position(c)
    BY <1>5, <1>3 DEF Reached
  <2>2. QED
    BY <1>1, <2>1, SatisfiedKept
<1>6. QED
  BY <1>1, <1>4, <1>5 DEF Reached

(* With its last chunk a call is satisfied.                                *)
LEMMA LastChunk ==
  ASSUME NEW r \in Requests, NEW w, Legal(r, w), NEW l \in Seq(Entries), NEW e \in Entries,
         e.call = w, Good(r, e), Progress(r, w, l), w.chunk = ChunksOf(r, w)
  PROVE  \A c \in CallsOf(r) : Position(c) <= Position(w) => Satisfied(r, c, Append(l, e))
<1>1. PICK m : m = Append(l, e)
  OBVIOUS
<1>2. /\ \A i \in DOMAIN l : i \in DOMAIN m /\ m[i] = l[i]
      /\ \E i \in DOMAIN m : m[i] = e
  BY <1>1, Logged
<1>3. Reached(r, w, m)
  BY <1>1, LogReached DEF Progress
<1>4. w \in Works /\ w.chunk \in Nat
  BY DEF Legal, Works
<1>5. ASSUME NEW c \in CallsOf(r), Position(c) <= Position(w) PROVE Satisfied(r, c, m)
  <2>0. c \in Works /\ c.chunk \in Nat /\ c.chunk <= ChunksOf(r, c)
    BY GatewayAssumption DEF CallsOf, Works
  <2>1. Position(c) \in Nat /\ Position(w) \in Nat
    BY <1>4, <2>0, PositionOf
  <2>2. CASE Position(c) < Position(w)
    BY <1>3, <2>2 DEF Reached
  <2>3. CASE Position(c) = Position(w)
    <3>1. c.chunk <= w.chunk
      <4>1. c.phase = w.phase /\ c.task = w.task
        BY <1>4, <2>0, <2>3, PositionOf
      <4>2. ChunksOf(r, c) = ChunksOf(r, w)
        BY <4>1 DEF ChunksOf, TaskOf
      <4>3. QED
        BY <2>0, <4>2
    <3>2. PICK i \in DOMAIN m : /\ [m[i].call EXCEPT !.attempt = 1] = c
                                /\ m[i].call.attempt = w.attempt /\ Good(r, m[i])
      <4>1. CASE c.chunk < w.chunk
        <5>1. Delivered(r, c, w.attempt, l)
          BY <2>3, <4>1 DEF Progress
        <5>2. PICK i \in DOMAIN l : /\ [l[i].call EXCEPT !.attempt = 1] = c
                                    /\ l[i].call.attempt = w.attempt /\ Good(r, l[i])
          BY <5>1 DEF Delivered
        <5>3. QED
          BY <1>2, <5>2
      <4>2. CASE c.chunk = w.chunk
        <5>1. c = [w EXCEPT !.attempt = 1]
          BY <2>3, <4>2, SameCall
        <5>2. PICK i \in DOMAIN m : m[i] = e
          BY <1>2
        <5>3. QED
          BY <5>1, <5>2
      <4>3. QED
        BY <1>4, <2>0, <3>1, <4>1, <4>2
    <3>3. \A j \in DOMAIN m : Position(m[j].call) = Position(c) => m[j].call.attempt <= m[i].call.attempt
      BY <1>3, <2>3, <3>2 DEF Reached
    <3>4. QED
      BY <3>2, <3>3 DEF Satisfied
  <2>4. QED
    BY <1>5, <2>1, <2>2, <2>3
<1>6. QED
  BY <1>1, <1>5
-----------------------------------------------------------------------------
(* The state of a request.                                                 *)

Sound(r, st, answer, s, w, l) ==
  /\ st \in Stages
  /\ s \in Sessions /\ Numbered(s)
  /\ Legal(r, w)
  /\ l \in Seq(Entries) /\ \A i \in DOMAIN l : l[i].of = Wanted(r, l[i].call)
  /\ st \in {"new", "queued"} => s = NoSession /\ w = First("setup")
  /\ st \in {"new", "queued", "done"} => Ended(s) /\ l = <<>>
  /\ st = "waiting" => Current(s, Wanted(r, w))
  /\ st \in {"calling", "waiting"} => Progress(r, w, l)
  /\ st = "closing" =>
       /\ w.phase = "setup" => Ended(s)
       /\ answer = "200" => \A c \in CallsOf(r) : Satisfied(r, c, l)
       /\ \A i \in DOMAIN l : Refused(r, l[i]) => i = Len(l) /\ answer = "SOURCE_AUTH_ERROR"

Functions ==
  /\ DOMAIN stage = Requests /\ DOMAIN status = Requests /\ DOMAIN session = Requests
  /\ DOMAIN work = Requests /\ DOMAIN log = Requests

Inv ==
  /\ Functions
  /\ \A r \in Requests : Sound(r, stage[r], status[r], session[r], work[r], log[r])

(* The other requests are left alone.                                      *)
Apart(r) ==
  \A q \in Requests \ {r} : /\ stage'[q] = stage[q] /\ status'[q] = status[q]
                            /\ session'[q] = session[q] /\ work'[q] = work[q] /\ log'[q] = log[q]

LEMMA OneRequest ==
  ASSUME Inv, NEW r \in Requests, Functions', Apart(r),
         Sound(r, stage'[r], status'[r], session'[r], work'[r], log'[r])
  PROVE  Inv'
<1>1. \A q \in Requests : Sound(q, stage'[q], status'[q], session'[q], work'[q], log'[q])
  BY DEF Inv, Apart
<1>2. QED
  BY <1>1 DEF Inv

(* How the steps of a request leave its variables.                         *)
LEMMA GoesTo ==
  ASSUME Functions, NEW r \in Requests, NEW to, NEW w, NEW s, Goes(r, to, w, s)
  PROVE  /\ stage'[r] = to /\ work'[r] = w /\ session'[r] = s /\ status'[r] = status[r]
         /\ log' = log => Functions' /\ Apart(r)
         /\ DOMAIN stage' = Requests /\ DOMAIN status' = Requests
         /\ DOMAIN session' = Requests /\ DOMAIN work' = Requests
         /\ \A q \in Requests \ {r} : /\ stage'[q] = stage[q] /\ status'[q] = status[q]
                                      /\ session'[q] = session[q] /\ work'[q] = work[q]
BY DEF Functions, Goes, Apart

LEMMA EndsWith ==
  ASSUME Functions, NEW r \in Requests, NEW answer, NEW s, Ends(r, answer, s)
  PROVE  /\ stage'[r] = "closing" /\ work'[r] = work[r] /\ session'[r] = s /\ status'[r] = answer
         /\ log' = log => Functions' /\ Apart(r)
         /\ DOMAIN stage' = Requests /\ DOMAIN status' = Requests
         /\ DOMAIN session' = Requests /\ DOMAIN work' = Requests
         /\ \A q \in Requests \ {r} : /\ stage'[q] = stage[q] /\ status'[q] = status[q]
                                      /\ session'[q] = session[q] /\ work'[q] = work[q]
BY DEF Functions, Ends, Apart

(* The variables that a step of the requests other than its log has left.  *)
Moved(r) ==
  /\ DOMAIN stage' = Requests /\ DOMAIN status' = Requests
  /\ DOMAIN session' = Requests /\ DOMAIN work' = Requests
  /\ \A q \in Requests \ {r} : /\ stage'[q] = stage[q] /\ status'[q] = status[q]
                               /\ session'[q] = session[q] /\ work'[q] = work[q]

(* An error is not an answer of success.                                   *)
LEMMA ErrorStatus ==
  ASSUME NEW r \in Requests, NEW code
  PROVE  /\ Status(r, code) # "200"
         /\ KindOf[r] = "refresh" /\ code = "AUTH_ERROR" => Status(r, code) = "SOURCE_AUTH_ERROR"
BY DEF Status

(* A call that fails is tried again or ends the request; only a credential *)
(* refused at this call may be in the log.                                 *)
LEMMA Fails ==
  ASSUME Functions, NEW r \in Requests, NEW code, NEW s \in Sessions, Numbered(s),
         NEW l \in Seq(Entries), \A i \in DOMAIN l : l[i].of = Wanted(r, l[i].call),
         Legal(r, work[r]), Reached(r, work[r], l),
         \A i \in DOMAIN l : Refused(r, l[i]) => i = Len(l) /\ code = "AUTH_ERROR",
         CallFails(r, code, s)
  PROVE  Moved(r) /\ Sound(r, stage'[r], status'[r], session'[r], work'[r], l)
<1>1. PICK w : w = work[r]
  OBVIOUS
<1>2. Legal(r, w) /\ w \in Works /\ Reached(r, w, l)
  BY <1>1 DEF Legal
<1>3. \A i \in DOMAIN l : Refused(r, l[i]) => i = Len(l) /\ Status(r, code) = "SOURCE_AUTH_ERROR"
  BY ErrorStatus DEF Refused
<1>4. CASE w.phase = "setup" /\ Ends(r, Status(r, code), Closed(s))
  <2>1. Closed(s) \in Sessions /\ Numbered(Closed(s)) /\ Ended(Closed(s))
    BY ClosedNumbered
  <2>2. /\ stage'[r] = "closing" /\ work'[r] = w /\ session'[r] = Closed(s)
        /\ status'[r] = Status(r, code) /\ Moved(r)
    BY <1>1, <1>4, EndsWith DEF Moved
  <2>3. QED
    BY <1>2, <1>3, <2>1, <2>2, ErrorStatus DEF Sound, Stages
<1>5. CASE w.phase = "calls" /\ ~Retried(r, code) /\ Ends(r, Status(r, code), s)
  <2>1. /\ stage'[r] = "closing" /\ work'[r] = w /\ session'[r] = s
        /\ status'[r] = Status(r, code) /\ Moved(r)
    BY <1>1, <1>5, EndsWith DEF Moved
  <2>2. QED
    BY <1>2, <1>3, <1>5, <2>1, ErrorStatus DEF Sound, Stages
<1>6. CASE /\ w.phase = "calls" /\ Retried(r, code)
           /\ Goes(r, "calling", [w EXCEPT !.attempt = @ + 1, !.chunk = 1], s)
  <2>1. PICK v : v = [w EXCEPT !.attempt = @ + 1, !.chunk = 1]
    OBVIOUS
  <2>2. /\ v \in Works /\ v.phase = w.phase /\ v.task = w.task /\ v.chunk = 1
        /\ v.attempt = w.attempt + 1 /\ w.attempt \in Nat
    <3>1. PICK n : n = w.attempt + 1
      OBVIOUS
    <3>2. v = [w EXCEPT !.attempt = n, !.chunk = 1]
      BY <2>1, <3>1
    <3>3. n \in Nat \ {0} /\ w.attempt \in Nat
      BY <1>2, <3>1 DEF Works
    <3>4. v.phase = w.phase /\ v.task = w.task /\ v.chunk = 1 /\ v.attempt = n
      BY <1>2, <3>2 DEF Works
    <3>5. v \in Works
      <4>1. PICK u : u = [w EXCEPT !.attempt = n]
        OBVIOUS
      <4>2. u \in Works
        BY <1>2, <3>3, <4>1 DEF Works
      <4>3. v = [u EXCEPT !.chunk = 1]
        BY <1>2, <3>2, <4>1 DEF Works
      <4>4. QED
        BY <4>2, <4>3 DEF Works
    <3>6. QED
      BY <3>1, <3>3, <3>4, <3>5
  <2>3. Legal(r, v) /\ Position(v) = Position(w)
    <3>1. ChunksOf(r, v) = ChunksOf(r, w) /\ w.chunk <= ChunksOf(r, w) /\ v.task <= Len(Tasks(r, v.phase))
      BY <1>2, <2>2 DEF Legal, ChunksOf, TaskOf
    <3>2. ChunksOf(r, v) \in Nat \ {0}
      BY <2>2, <3>1, TaskFacts
    <3>3. QED
      BY <2>2, <3>1, <3>2 DEF Legal, Position
  <2>4. /\ stage'[r] = "calling" /\ work'[r] = v /\ session'[r] = s /\ Moved(r)
    BY <1>6, <2>1, GoesTo DEF Moved
  <2>5. \A i \in DOMAIN l : ~Refused(r, l[i])
    BY <1>6 DEF Retried
  <2>6. Reached(r, v, l)
    <3>1. \A i \in DOMAIN l : l[i] \in Entries
      BY ElementOfSeq, LenProperties
    <3>2. \A i \in DOMAIN l : l[i].call.attempt \in Nat
      BY <3>1 DEF Entries, Works
    <3>3. QED
      BY <1>2, <2>2, <2>3, <3>2 DEF Reached
  <2>7. \A c \in CallsOf(r) : ~ (c.chunk < v.chunk)
    BY <2>2, GatewayAssumption DEF CallsOf
  <2>8. Progress(r, v, l)
    BY <2>5, <2>6, <2>7 DEF Progress
  <2>9. QED
    BY <2>3, <2>4, <2>8 DEF Sound, Stages
<1>7. QED
  BY <1>1, <1>4, <1>5, <1>6 DEF CallFails, StartFails

(* After the last chunk of a call the next call in order has nothing yet.  *)
LEMMA NextCall ==
  ASSUME NEW r \in Requests, NEW w, Legal(r, w), NEW l \in Seq(Entries), NEW e \in Entries,
         e.call = w, Good(r, e), ~Refused(r, e), Progress(r, w, l), w.chunk = ChunksOf(r, w),
         NEW v \in Works, v.chunk = 1, Position(v) > Position(w),
         \A c \in CallsOf(r) : Position(c) < Position(v) => Position(c) <= Position(w)
  PROVE  Progress(r, v, Append(l, e))
<1>1. PICK m : m = Append(l, e)
  OBVIOUS
<1>2. /\ m \in Seq(Entries)
      /\ \A i \in DOMAIN m : m[i] = e \/ (i \in DOMAIN l /\ m[i] = l[i])
  BY <1>1, Logged
<1>3. w \in Works /\ Position(w) \in Nat /\ Position(v) \in Nat
  BY PositionOf DEF Legal
<1>4. ASSUME NEW i \in DOMAIN m
      PROVE  Position(m[i].call) \in Nat /\ Position(m[i].call) <= Position(w)
  <2>1. Reached(r, w, m)
    BY <1>1, LogReached DEF Progress
  <2>2. m[i] \in Entries
    BY <1>2, ElementOfSeq, LenProperties
  <2>3. m[i].call \in Works
    BY <2>2 DEF Entries
  <2>4. QED
    BY <2>1, <2>3, PositionOf DEF Reached
<1>5. ASSUME NEW i \in DOMAIN m
      PROVE  Position(m[i].call) <= Position(v) /\ Position(m[i].call) # Position(v)
  BY <1>3, <1>4
<1>6. \A c \in CallsOf(r) : Position(c) < Position(v) => Satisfied(r, c, m)
  BY <1>1, LastChunk
<1>7. \A c \in CallsOf(r) : ~ (c.chunk < v.chunk)
  BY GatewayAssumption DEF CallsOf
<1>8. \A i \in DOMAIN m : ~Refused(r, m[i])
  BY <1>2 DEF Progress
<1>9. QED
  BY <1>1, <1>5, <1>6, <1>7, <1>8 DEF Progress, Reached

(* After a chunk that is not the last the next chunk has nothing yet.      *)
LEMMA NextChunk ==
  ASSUME NEW r \in Requests, NEW w, Legal(r, w), NEW l \in Seq(Entries), NEW e \in Entries,
         e.call = w, Good(r, e), ~Refused(r, e), Progress(r, w, l),
         NEW v \in Works, v.chunk = w.chunk + 1, v.attempt = w.attempt, Position(v) = Position(w)
  PROVE  Progress(r, v, Append(l, e))
<1>1. PICK m : m = Append(l, e)
  OBVIOUS
<1>2. /\ \A i \in DOMAIN l : i \in DOMAIN m /\ m[i] = l[i]
      /\ \E i \in DOMAIN m : m[i] = e
      /\ \A i \in DOMAIN m : m[i] = e \/ (i \in DOMAIN l /\ m[i] = l[i])
  BY <1>1, Logged
<1>3. Reached(r, v, m)
  <2>1. Reached(r, w, m)
    BY <1>1, LogReached DEF Progress
  <2>2. QED
    BY <2>1 DEF Reached
<1>4. ASSUME NEW c \in CallsOf(r), Position(c) = Position(v), c.chunk < v.chunk
      PROVE  Delivered(r, c, v.attempt, m)
  <2>1. c.chunk \in Nat /\ w.chunk \in Nat
    BY GatewayAssumption DEF CallsOf, Legal, Works
  <2>2. CASE c.chunk < w.chunk
    <3>1. Delivered(r, c, w.attempt, l)
      BY <1>4, <2>2 DEF Progress
    <3>2. PICK i \in DOMAIN l : /\ [l[i].call EXCEPT !.attempt = 1] = c
                                /\ l[i].call.attempt = w.attempt /\ Good(r, l[i])
      BY <3>1 DEF Delivered
    <3>3. i \in DOMAIN m /\ m[i] = l[i]
      BY <1>2
    <3>4. QED
      BY <3>2, <3>3 DEF Delivered
  <2>3. CASE c.chunk = w.chunk
    <3>1. c = [w EXCEPT !.attempt = 1]
      BY <1>4, <2>3, SameCall
    <3>2. PICK i \in DOMAIN m : m[i] = e
      BY <1>2
    <3>3. QED
      BY <3>1, <3>2 DEF Delivered
  <2>4. QED
    BY <1>4, <2>1, <2>2, <2>3
<1>5. \A i \in DOMAIN m : ~Refused(r, m[i])
  BY <1>2 DEF Progress
<1>6. QED
  BY <1>1, <1>3, <1>4, <1>5 DEF Progress

(* A call that succeeds goes on to the next or ends a request in full.     *)
LEMMA Succeeds ==
  ASSUME Functions, NEW r \in Requests, NEW s \in Sessions, Numbered(s),
         NEW l \in Seq(Entries), \A i \in DOMAIN l : l[i].of = Wanted(r, l[i].call),
         NEW e \in Entries, e.call = work[r], e.of = Wanted(r, work[r]), Good(r, e),
         Legal(r, work[r]), Progress(r, work[r], l), CallSucceeds(r, s)
  PROVE  Moved(r) /\ Sound(r, stage'[r], status'[r], session'[r], work'[r], Append(l, e))
<1>1. PICK w, m : w = work[r] /\ m = Append(l, e)
  OBVIOUS
<1>2. /\ Legal(r, w) /\ w \in Works /\ Progress(r, w, l) /\ e.call = w
      /\ w.phase \in {"setup", "calls"} /\ w.task \in 1..4 /\ w.attempt \in Nat
      /\ w.chunk \in Nat \ {0} /\ w.chunk <= ChunksOf(r, w) /\ w.task <= Len(Tasks(r, w.phase))
      /\ ChunksOf(r, w) \in Nat
  <2>1. Legal(r, w) /\ w \in Works
    BY <1>1 DEF Legal
  <2>2. /\ w.phase \in {"setup", "calls"} /\ w.task \in 1..4 /\ w.attempt \in Nat
        /\ w.chunk \in Nat \ {0}
    BY <2>1 DEF Works
  <2>3. w.chunk <= ChunksOf(r, w) /\ w.task <= Len(Tasks(r, w.phase))
    BY <2>1 DEF Legal
  <2>4. ChunksOf(r, w) \in Nat
    BY <2>1, <2>3, TaskFacts
  <2>5. QED
    BY <1>1, <2>1, <2>2, <2>3, <2>4
<1>3. /\ m \in Seq(Entries)
      /\ \A i \in DOMAIN m : m[i] = e \/ (i \in DOMAIN l /\ m[i] = l[i])
  BY <1>1, Logged
<1>4. \A i \in DOMAIN m : m[i].of = Wanted(r, m[i].call)
  BY <1>1, <1>3
<1>5. ~Refused(r, e)
  BY DEF Refused, Good, CallError, RowsError
<1>6. Len(Tasks(r, w.phase)) \in Nat /\ \A c \in CallsOf(r) : c \in Works /\ Position(c) \in Nat
  <2>1. \A c \in CallsOf(r) : c \in Works
    BY GatewayAssumption DEF CallsOf, Works
  <2>2. Len(Tasks(r, w.phase)) \in Nat
    BY <1>2, TaskFacts
  <2>3. QED
    BY <2>1, <2>2, PositionOf
<1>7. ASSUME NEW v, Legal(r, v), Progress(r, v, m), Goes(r, "calling", v, s)
      PROVE  Moved(r) /\ Sound(r, stage'[r], status'[r], session'[r], work'[r], m)
  <2>1. stage'[r] = "calling" /\ work'[r] = v /\ session'[r] = s /\ Moved(r)
    BY <1>7, GoesTo DEF Moved
  <2>2. QED
    BY <1>3, <1>4, <1>7, <2>1 DEF Sound, Stages
<1>8. CASE w.chunk # ChunksOf(r, w) /\ Goes(r, "calling", [w EXCEPT !.chunk = @ + 1], s)
  <2>1. PICK n : n = w.chunk + 1
    OBVIOUS
  <2>2. PICK v : v = [w EXCEPT !.chunk = n]
    OBVIOUS
  <2>3. n \in Nat \ {0} /\ n <= ChunksOf(r, w)
    BY <1>2, <1>8, <2>1
  <2>4. v.phase = w.phase /\ v.task = w.task /\ v.attempt = w.attempt /\ v.chunk = n /\ v \in Works
    BY <1>2, <2>2, <2>3 DEF Works
  <2>5. Legal(r, v) /\ Position(v) = Position(w)
    BY <1>2, <2>3, <2>4 DEF Legal, Position, ChunksOf, TaskOf
  <2>6. Progress(r, v, m)
    BY <1>1, <1>2, <1>5, <2>1, <2>4, <2>5, NextChunk
  <2>7. Goes(r, "calling", v, s)
    BY <1>8, <2>1, <2>2
  <2>8. QED
    BY <1>1, <1>7, <2>5, <2>6, <2>7
<1>9. CASE /\ w.chunk = ChunksOf(r, w) /\ w.task # Len(Tasks(r, w.phase))
           /\ Goes(r, "calling", [First(w.phase) EXCEPT !.task = w.task + 1], s)
  <2>1. PICK n : n = w.task + 1
    OBVIOUS
  <2>2. PICK v : v = [First(w.phase) EXCEPT !.task = n]
    OBVIOUS
  <2>3. n \in 1..4 /\ n <= Len(Tasks(r, w.phase))
    <3>1. PICK last : last = Len(Tasks(r, w.phase))
      OBVIOUS
    <3>2. last \in 1..4
      BY <1>2, <3>1, TaskFacts, Zenon
    <3>3. w.task \in 1..4 /\ w.task <= last /\ w.task # last
      BY <1>2, <1>9, <3>1, Zenon
    <3>4. n \in 1..4 /\ n <= last
      BY <2>1, <3>2, <3>3
    <3>5. QED
      BY <3>1, <3>4, Zenon
  <2>4. v.phase = w.phase /\ v.task = n /\ v.attempt = 1 /\ v.chunk = 1 /\ v \in Works
    BY <1>2, <2>2, <2>3 DEF First, Works
  <2>5. Legal(r, v)
    <3>1. v.task <= Len(Tasks(r, v.phase))
      BY <2>3, <2>4
    <3>2. ChunksOf(r, v) \in Nat \ {0}
      BY <2>4, <3>1, TaskFacts
    <3>3. QED
      BY <2>4, <3>1, <3>2 DEF Legal
  <2>6. Position(v) = Position(w) + 1 /\ Position(w) \in Nat
    BY <1>2, <2>1, <2>4, PositionOf
  <2>7. Progress(r, v, m)
    <3>1. Position(v) > Position(w)
      BY <2>6
    <3>2. \A c \in CallsOf(r) : Position(c) < Position(v) => Position(c) <= Position(w)
      BY <1>6, <2>6
    <3>3. QED
      BY <1>1, <1>2, <1>5, <1>9, <2>4, <3>1, <3>2, NextCall
  <2>8. Goes(r, "calling", v, s)
    BY <1>9, <2>1, <2>2
  <2>9. QED
    BY <1>1, <1>7, <2>5, <2>7, <2>8
<1>10. CASE /\ w.chunk = ChunksOf(r, w) /\ w.task = Len(Tasks(r, w.phase)) /\ w.phase = "setup"
            /\ Goes(r, "calling", First("calls"), s)
  <2>1. PICK v : v = First("calls")
    OBVIOUS
  <2>2. v.phase = "calls" /\ v.task = 1 /\ v.attempt = 1 /\ v.chunk = 1 /\ v \in Works
    BY <2>1 DEF First, Works
  <2>3. Legal(r, v)
    <3>1. v.task <= Len(Tasks(r, v.phase))
      <4>1. PICK last : last = Len(Tasks(r, v.phase))
        OBVIOUS
      <4>2. last \in 1..4
        BY <2>2, <4>1, TaskFacts, Zenon
      <4>3. v.task <= last
        BY <2>2, <4>2
      <4>4. QED
        BY <4>1, <4>3, Zenon
    <3>2. ChunksOf(r, v) \in Nat \ {0}
      BY <2>2, <3>1, TaskFacts
    <3>3. QED
      BY <2>2, <3>1, <3>2 DEF Legal
  <2>4. w.task = 3
    BY <1>10, TaskFacts
  <2>5. Position(w) = 3 /\ Position(v) = 5
    BY <1>2, <1>10, <2>2, <2>4, PositionOf
  <2>6. ASSUME NEW c \in CallsOf(r), Position(c) < Position(v) PROVE Position(c) <= Position(w)
    <3>1. c \in Works /\ c.task <= Len(Tasks(r, c.phase))
      BY <1>6 DEF CallsOf
    <3>2. c.phase # "calls"
      BY <2>5, <2>6, <3>1, PositionOf DEF Works
    <3>3. c.phase = "setup" /\ c.task <= 3
      <4>1. c.phase = "setup"
        BY <3>1, <3>2 DEF Works
      <4>2. QED
        BY <3>1, <4>1, TaskFacts, Zenon
    <3>4. QED
      BY <2>5, <3>1, <3>3, PositionOf
  <2>7. Progress(r, v, m)
    <3>1. Position(v) > Position(w)
      BY <2>5
    <3>2. QED
      BY <1>1, <1>2, <1>5, <1>10, <2>2, <2>6, <3>1, NextCall
  <2>8. QED
    BY <1>1, <1>7, <1>10, <2>1, <2>3, <2>7
<1>11. CASE /\ w.chunk = ChunksOf(r, w) /\ w.task = Len(Tasks(r, w.phase)) /\ w.phase = "calls"
            /\ \E answer \in {"200", "REFRESH_FAILED"} : Ends(r, answer, s)
  <2>1. PICK answer \in {"200", "REFRESH_FAILED"} : Ends(r, answer, s)
    BY <1>11
  <2>2. /\ stage'[r] = "closing" /\ work'[r] = w /\ session'[r] = s
        /\ status'[r] = answer /\ Moved(r)
    BY <1>1, <2>1, EndsWith DEF Moved
  <2>3. ASSUME NEW c \in CallsOf(r) PROVE Position(c) <= Position(w)
    <3>1. c \in Works /\ c.task <= Len(Tasks(r, c.phase))
      BY <1>6 DEF CallsOf
    <3>2. Position(w) = 4 + w.task
      BY <1>2, <1>11, PositionOf
    <3>3. CASE c.phase = "setup"
      BY <1>2, <3>1, <3>2, <3>3, PositionOf DEF Works
    <3>4. CASE c.phase = "calls"
      <4>1. c.task <= w.task
        BY <1>11, <3>1, <3>4
      <4>2. QED
        BY <1>2, <3>1, <3>2, <3>4, <4>1, PositionOf DEF Works
    <3>5. QED
      BY <3>1, <3>3, <3>4 DEF Works
  <2>4. \A c \in CallsOf(r) : Satisfied(r, c, m)
    BY <1>1, <1>2, <1>11, <2>3, LastChunk
  <2>5. \A i \in DOMAIN m : ~Refused(r, m[i])
    BY <1>2, <1>3, <1>5 DEF Progress
  <2>6. Sound(r, "closing", answer, s, w, m)
    BY <1>2, <1>3, <1>4, <1>11, <2>4, <2>5 DEF Sound, Stages
  <2>7. QED
    BY <1>1, <2>2, <2>6
<1>12. QED
  BY <1>1, <1>8, <1>9, <1>10, <1>11 DEF CallSucceeds
-----------------------------------------------------------------------------
LEMMA FirstWork ==
  ASSUME NEW r \in Requests
  PROVE  Legal(r, First("setup")) /\ Progress(r, First("setup"), <<>>)
<1>1. PICK w : w = First("setup")
  OBVIOUS
<1>2. w \in Works /\ w.phase = "setup" /\ w.task = 1 /\ w.attempt = 1 /\ w.chunk = 1
  BY <1>1 DEF First, Works
<1>3. w.task <= Len(Tasks(r, w.phase))
  <2>1. Len(Tasks(r, "setup")) = 3
    BY TaskFacts, Zenon
  <2>2. Len(Tasks(r, w.phase)) = 3
    BY <1>2, <2>1, Zenon
  <2>3. w.task = 1 /\ 1 <= 3
    BY <1>2
  <2>4. QED
    BY <2>2, <2>3
<1>4. ChunksOf(r, w) \in Nat \ {0}
  BY <1>2, <1>3, TaskFacts
<1>5. Legal(r, w)
  BY <1>2, <1>3, <1>4 DEF Legal
<1>6. ASSUME NEW c \in CallsOf(r) PROVE ~ (Position(c) < Position(w)) /\ ~ (c.chunk < w.chunk)
  <2>1. c \in Works /\ c.chunk \in Nat \ {0}
    BY GatewayAssumption DEF CallsOf, Works
  <2>2. Position(w) = 1 /\ Position(c) \in 1..8
    BY <1>2, <2>1, PositionOf
  <2>3. QED
    BY <1>2, <2>1, <2>2
<1>7. Progress(r, w, <<>>)
  BY <1>6 DEF Progress, Reached
<1>8. QED
  BY <1>1, <1>5, <1>7

LEMMA InvInit == Init => Inv
<1> SUFFICES ASSUME Init PROVE Inv
  OBVIOUS
<1>1. Functions
  BY DEF Init, Functions
<1>2. ASSUME NEW r \in Requests
      PROVE  Sound(r, stage[r], status[r], session[r], work[r], log[r])
  <2>1. /\ stage[r] = "new" /\ session[r] = NoSession /\ work[r] = First("setup") /\ log[r] = <<>>
    BY DEF Init
  <2>2. <<>> \in Seq(Entries)
    OBVIOUS
  <2>3. QED
    BY <2>1, <2>2, NoSessionNumbered, FirstWork DEF Sound, Stages
<1>3. QED
  BY <1>1, <1>2 DEF Inv

(* Steps that leave the log alone.                                         *)
LEMMA Unlogged ==
  ASSUME Inv, NEW r \in Requests, log' = log, Moved(r),
         Sound(r, stage'[r], status'[r], session'[r], work'[r], log[r])
  PROVE  Inv'
<1>1. Functions' /\ Apart(r)
  BY DEF Inv, Functions, Moved, Apart
<1>2. QED
  BY <1>1, OneRequest

LEMMA ArriveStep ==
  ASSUME Inv, NEW r \in Requests, Arrive(r)
  PROVE  Inv'
<1>1. /\ stage[r] = "new" /\ Functions
      /\ stage' = [stage EXCEPT ![r] = "done"] \/ stage' = [stage EXCEPT ![r] = "queued"]
      /\ UNCHANGED <<status, session, work, log>>
  BY DEF Arrive, Inv
<1>2. stage'[r] \in {"done", "queued"} /\ Moved(r)
  BY <1>1 DEF Functions, Moved
<1>3. Sound(r, "new", status[r], session[r], work[r], log[r])
  BY <1>1 DEF Inv
<1>4. Sound(r, stage'[r], status'[r], session'[r], work'[r], log[r])
  BY <1>1, <1>2, <1>3 DEF Sound, Stages
<1>5. QED
  BY <1>1, <1>2, <1>4, Unlogged

LEMMA OpenStep ==
  ASSUME Inv, NEW r \in Requests, Open(r)
  PROVE  Inv'
<1>1. /\ stage[r] = "queued" /\ Functions /\ log' = log
      /\ \/ Ends(r, "409", NoSession)
         \/ Ends(r, Status(r, "MCP_START_FAILED"), NoSession)
         \/ Goes(r, "calling", First("setup"), Started)
  BY DEF Open, Inv
<1>2. Sound(r, "queued", status[r], session[r], work[r], log[r])
  BY <1>1 DEF Inv
<1>3. /\ work[r] = First("setup") /\ log[r] = <<>> /\ log[r] \in Seq(Entries)
      /\ Legal(r, First("setup")) /\ Progress(r, First("setup"), <<>>)
  BY <1>2, FirstWork DEF Sound
<1>4. ASSUME NEW answer, answer # "200", Ends(r, answer, NoSession)
      PROVE  Inv'
  <2>1. /\ stage'[r] = "closing" /\ work'[r] = work[r] /\ session'[r] = NoSession
        /\ status'[r] = answer /\ Moved(r)
    BY <1>1, <1>4, EndsWith DEF Moved
  <2>2. Sound(r, stage'[r], status'[r], session'[r], work'[r], log[r])
    BY <1>3, <1>4, <2>1, NoSessionNumbered DEF Sound, Stages
  <2>3. QED
    BY <1>1, <2>1, <2>2, Unlogged
<1>5. CASE Goes(r, "calling", First("setup"), Started)
  <2>1. stage'[r] = "calling" /\ work'[r] = First("setup") /\ session'[r] = Started /\ Moved(r)
    BY <1>1, <1>5, GoesTo DEF Moved
  <2>2. Sound(r, stage'[r], status'[r], session'[r], work'[r], log[r])
    BY <1>3, <2>1, StartedNumbered DEF Sound, Stages
  <2>3. QED
    BY <1>1, <2>1, <2>2, Unlogged
<1>6. QED
  BY <1>1, <1>4, <1>5, ErrorStatus

LEMMA RejectStep ==
  ASSUME Inv, NEW r \in Requests, Reject(r)
  PROVE  Inv'
<1>1. /\ stage[r] = "calling" /\ work[r].phase = "calls" /\ Functions /\ log' = log
      /\ \E answer \in {"422", "REFRESH_FAILED"} : Ends(r, answer, session[r])
  BY DEF Reject, Inv
<1>2. PICK answer \in {"422", "REFRESH_FAILED"} : Ends(r, answer, session[r])
  BY <1>1
<1>3. /\ stage'[r] = "closing" /\ work'[r] = work[r] /\ session'[r] = session[r]
      /\ status'[r] = answer /\ Moved(r)
  BY <1>1, <1>2, EndsWith DEF Moved
<1>4. Sound(r, "calling", status[r], session[r], work[r], log[r])
  BY <1>1 DEF Inv
<1>5. Sound(r, "closing", answer, session[r], work[r], log[r])
  BY <1>1, <1>4 DEF Sound, Stages, Progress
<1>6. QED
  BY <1>1, <1>3, <1>5, Unlogged

(* A call that is given up before an answer to it was read.                *)
LEMMA FailStep ==
  ASSUME Inv, NEW r \in Requests, stage[r] \in {"calling", "waiting"}, log' = log, NEW code,
         NEW s \in Sessions, Numbered(s), CallFails(r, code, s)
  PROVE  Inv'
<1>1. Sound(r, stage[r], status[r], session[r], work[r], log[r]) /\ Functions
  BY DEF Inv
<1>2. /\ log[r] \in Seq(Entries) /\ \A i \in DOMAIN log[r] : log[r][i].of = Wanted(r, log[r][i].call)
      /\ Legal(r, work[r]) /\ Reached(r, work[r], log[r])
      /\ \A i \in DOMAIN log[r] : ~Refused(r, log[r][i])
  BY <1>1 DEF Sound, Progress
<1>3. Moved(r) /\ Sound(r, stage'[r], status'[r], session'[r], work'[r], log[r])
  BY <1>1, <1>2, Fails
<1>4. QED
  BY <1>3, Unlogged

LEMMA AskStep ==
  ASSUME Inv, NEW r \in Requests, Ask(r)
  PROVE  Inv'
<1>1. stage[r] = "calling" /\ Functions /\ log' = log
  BY DEF Ask, Inv
<1>2. Sound(r, "calling", status[r], session[r], work[r], log[r])
  BY <1>1 DEF Inv
<1>3. /\ session[r] \in Sessions /\ Numbered(session[r]) /\ Legal(r, work[r])
      /\ work[r] \in Works /\ work[r].task <= Len(Tasks(r, work[r].phase))
  BY <1>2 DEF Sound, Legal
<1>4. CASE CanAsk(session[r]) /\ Goes(r, "waiting", work[r], Asked(session[r], Wanted(r, work[r])))
  <2>1. Wanted(r, work[r]) \in Questions
    <3>1. TaskOf(r, work[r]) \in Calls
      BY <1>3, TaskFacts
    <3>2. work[r].chunk \in Nat \ {0}
      BY <1>3 DEF Works
    <3>3. QED
      BY <3>1, <3>2 DEF Wanted, Questions
  <2>2. PICK t : t = Asked(session[r], Wanted(r, work[r]))
    OBVIOUS
  <2>3. t \in Sessions /\ Numbered(t) /\ Current(t, Wanted(r, work[r]))
    BY <1>3, <1>4, <2>1, <2>2, AskedNumbered
  <2>4. stage'[r] = "waiting" /\ work'[r] = work[r] /\ session'[r] = t /\ Moved(r)
    BY <1>1, <1>4, <2>2, GoesTo DEF Moved
  <2>5. Sound(r, "waiting", status'[r], t, work[r], log[r])
    BY <1>2, <2>3 DEF Sound, Stages
  <2>6. QED
    BY <1>1, <2>4, <2>5, Unlogged
<1>5. CASE CallFails(r, "MCP_CLOSED", Closed(session[r]))
  BY <1>1, <1>3, <1>5, ClosedNumbered, FailStep
<1>6. QED
  BY <1>4, <1>5 DEF Ask, Wanted

LEMMA GiveUpStep ==
  ASSUME Inv, NEW r \in Requests, EndOfFile(r) \/ TimeOut(r)
  PROVE  Inv'
<1>1. /\ stage[r] = "waiting" /\ log' = log
      /\ \E code : CallFails(r, code, Closed(session[r]))
  BY DEF EndOfFile, TimeOut
<1>2. session[r] \in Sessions /\ Numbered(session[r])
  BY DEF Inv, Sound
<1>3. QED
  BY <1>1, <1>2, ClosedNumbered, FailStep

LEMMA ReadStep ==
  ASSUME Inv, NEW r \in Requests, Read(r)
  PROVE  Inv'
<1>1. /\ stage[r] = "waiting" /\ session[r].inbox # <<>> /\ Functions
      /\ Sound(r, "waiting", status[r], session[r], work[r], log[r])
  BY DEF Read, Inv
<1>2. PICK w, l, line, s : /\ w = work[r] /\ l = log[r] /\ line = Head(session[r].inbox)
                           /\ s = [session[r] EXCEPT !.inbox = Tail(@)]
  OBVIOUS
<1>3. /\ s \in Sessions /\ Numbered(s) /\ line \in Lines
      /\ Current(s, Wanted(r, w))
      /\ Meets(s, line) => line.of = Wanted(r, w)
  BY <1>1, <1>2, TailNumbered DEF Sound
<1>4. /\ l \in Seq(Entries) /\ \A i \in DOMAIN l : l[i].of = Wanted(r, l[i].call)
      /\ Legal(r, w) /\ w \in Works /\ Progress(r, w, l)
  BY <1>1, <1>2 DEF Sound, Legal
<1>0. PICK error : error = CallError(r, w.phase, line.body)
  OBVIOUS
<1>5. CASE ~Meets(s, line) /\ Skipped(s, line) /\ Goes(r, "waiting", w, s) /\ log' = log
  <2>1. stage'[r] = "waiting" /\ work'[r] = w /\ session'[r] = s /\ Moved(r)
    BY <1>1, <1>5, GoesTo DEF Moved
  <2>2. Sound(r, "waiting", status'[r], s, w, l)
    BY <1>3, <1>4 DEF Sound, Stages
  <2>3. QED
    BY <1>2, <1>5, <2>1, <2>2, Unlogged
<1>6. CASE CallFails(r, LineError(line), Closed(s)) /\ log' = log
  BY <1>1, <1>3, <1>6, ClosedNumbered, FailStep
<1>7. CASE /\ Meets(s, line)
           /\ log' = [log EXCEPT ![r] = Append(@, [call |-> w, of |-> line.of, body |-> line.body])]
           /\ \/ error = "none" /\ CallSucceeds(r, s)
              \/ error # "none" /\ CallFails(r, error, s)
  <2>1. PICK e : e = [call |-> w, of |-> line.of, body |-> line.body]
    OBVIOUS
  <2>2. e \in Entries /\ e.call = w /\ e.of = Wanted(r, w) /\ e.body = line.body
    BY <1>3, <1>4, <1>7, <2>1 DEF Lines, Entries
  <2>3. PICK m : m = Append(l, e)
    OBVIOUS
  <2>4. /\ m \in Seq(Entries)
        /\ \A i \in DOMAIN m : (i = Len(m) /\ m[i] = e) \/ (i \in DOMAIN l /\ m[i] = l[i])
    BY <1>4, <2>2, <2>3, Logged
  <2>5. /\ log'[r] = m /\ DOMAIN log' = Requests
        /\ \A q \in Requests \ {r} : log'[q] = log[q]
    BY <1>1, <1>2, <1>7, <2>1, <2>3 DEF Functions
  <2>6. Moved(r) /\ Sound(r, stage'[r], status'[r], session'[r], work'[r], m)
    <3>1. CASE error = "none" /\ CallSucceeds(r, s)
      <4>1. Good(r, e)
        BY <1>0, <2>2, <3>1 DEF Good
      <4>2. QED
        BY <1>1, <1>2, <1>3, <1>4, <2>2, <2>3, <3>1, <4>1, Succeeds
    <3>2. CASE error # "none" /\ CallFails(r, error, s)
      <4>1. Reached(r, w, m)
        BY <1>4, <2>2, <2>3, LogReached DEF Progress
      <4>2. \A i \in DOMAIN m : m[i].of = Wanted(r, m[i].call)
        BY <1>4, <2>2, <2>4
      <4>3. Refused(r, e) => error = "AUTH_ERROR"
        BY <1>0, <2>2 DEF Refused, CallError, RowsError
      <4>4. \A i \in DOMAIN m : Refused(r, m[i]) => i = Len(m) /\ error = "AUTH_ERROR"
        BY <1>4, <2>4, <4>3 DEF Progress
      <4>5. QED
        BY <1>1, <1>2, <1>3, <1>4, <2>4, <3>2, <4>1, <4>2, <4>4, Fails
    <3>3. QED
      BY <1>7, <3>1, <3>2
  <2>7. Functions' /\ Apart(r)
    BY <2>5, <2>6 DEF Functions, Moved, Apart
  <2>8. QED
    BY <2>5, <2>6, <2>7, OneRequest
<1>8. QED
  BY <1>0, <1>2, <1>5, <1>6, <1>7 DEF Read

LEMMA CloseStep ==
  ASSUME Inv, NEW r \in Requests, Close(r)
  PROVE  Inv'
<1>1. Sound(r, "closing", status[r], session[r], work[r], log[r]) /\ Functions
  BY DEF Close, Inv
<1>2. /\ stage'[r] = "done" /\ work'[r] = First("setup") /\ log'[r] = <<>> /\ status'[r] = "none"
      /\ session'[r] = IF work[r].phase = "calls" THEN Closed(session[r]) ELSE session[r]
      /\ Functions' /\ Apart(r)
  BY <1>1 DEF Close, Functions, Apart
<1>3. session'[r] \in Sessions /\ Numbered(session'[r]) /\ Ended(session'[r])
  <2>1. session[r] \in Sessions /\ Numbered(session[r]) /\ work[r].phase \in {"setup", "calls"}
        /\ (work[r].phase = "setup" => Ended(session[r]))
    BY <1>1 DEF Sound, Legal, Works
  <2>2. QED
    BY <1>2, <2>1, ClosedNumbered
<1>4. <<>> \in Seq(Entries)
  OBVIOUS
<1>5. Sound(r, stage'[r], status'[r], session'[r], work'[r], log'[r])
  BY <1>2, <1>3, <1>4, FirstWork DEF Sound, Stages
<1>6. QED
  BY <1>2, <1>5, OneRequest

LEMMA ChildStep ==
  ASSUME Inv, NEW r \in Requests, Child(r)
  PROVE  Inv'
<1>1. Sound(r, stage[r], status[r], session[r], work[r], log[r]) /\ Functions
  BY DEF Inv
<1>2. /\ session[r].process = "running" /\ UNCHANGED <<stage, status, work, log>>
  BY DEF Child
<1>3. PICK t \in Sessions : /\ session' = [session EXCEPT ![r] = t]
                            /\ Numbered(t)
                            /\ \A of : Current(session[r], of) => Current(t, of)
  BY <1>1, ChildNumbered DEF Sound
<1>4. session'[r] = t /\ Moved(r)
  BY <1>1, <1>2, <1>3 DEF Functions, Moved
<1>5. ~Ended(session[r]) /\ session[r] # NoSession
  BY <1>2 DEF Ended, NoSession
<1>6. Sound(r, stage[r], status[r], t, work[r], log[r])
  BY <1>1, <1>3, <1>5 DEF Sound
<1>7. QED
  BY <1>2, <1>4, <1>6, Unlogged

LEMMA InvNext == Inv /\ [Next]_vars => Inv'
<1> SUFFICES ASSUME Inv, [Next]_vars PROVE Inv'
  OBVIOUS
<1>1. CASE UNCHANGED <<stage, status, session, work, log>>
  BY <1>1 DEF Inv, Functions
<1>2. ASSUME NEW r \in Requests, Arrive(r) \/ Advance(r) \/ TimeOut(r) \/ Reject(r) \/ Child(r)
      PROVE  Inv'
  BY <1>2, ArriveStep, OpenStep, AskStep, ReadStep, GiveUpStep, CloseStep, RejectStep, ChildStep
  DEF Advance
<1>3. QED
  BY <1>1, <1>2 DEF Next, Tick, vars
-----------------------------------------------------------------------------
(* No child outlives its request: every way a request ends closes its      *)
(* source, and what fails while it is set up closes what it started        *)
(* (mcp_transport.py, market_routes.py, refresh.py).                       *)
THEOREM SessionsAreReaped == Spec => []SessionsReaped
<1>1. Inv => SessionsReaped
  BY DEF Inv, Sound, SessionsReaped, Ended
<1>2. QED
  BY InvInit, InvNext, <1>1, PTL DEF Spec

(* A late, repeated or reordered answer is never taken for that of another *)
(* call, a request answered 200 has every chunk of every call, of one      *)
(* attempt, and a refused credential ends it (mcp_transport.py,            *)
(* mcp_source.py).                                                         *)
THEOREM RequestsAreAnsweredInFull == Spec => []AnsweredInFull
<1>1. Inv => AnsweredInFull
  <2> SUFFICES ASSUME Inv, NEW r \in Requests
               PROVE  LET entries == {log[r][i] : i \in DOMAIN log[r]}
                          wanted(w) == <<TaskOf(r, w), w.chunk>>
                          calls == {w \in [phase : {"setup", "calls"}, task : 1..4, attempt : {1},
                                           chunk : 1..Chunks] :
                                      w.task <= Len(Tasks(r, w.phase)) /\ w.chunk <= ChunksOf(r, w)}
                          satisfied(w) ==
                            \E e \in entries :
                              /\ [e.call EXCEPT !.attempt = 1] = w
                              /\ e.of = wanted(w)
                              /\ \/ e.body = "complete"
                                 \/ e.body = "incomplete" /\ w.phase = "calls" /\ KindOf[r] = "futures"
                              /\ \A f \in entries : f.call.phase = w.phase /\ f.call.task = w.task
                                                      => f.call.attempt <= e.call.attempt
                      IN  /\ status[r] = "200" /\ stage[r] = "closing" => \A w \in calls : satisfied(w)
                          /\ \A i \in DOMAIN log[r] :
                               /\ log[r][i].of = wanted(log[r][i].call)
                               /\ KindOf[r] = "refresh" /\ log[r][i].call.phase = "calls"
                                    /\ log[r][i].body = "AUTH_ERROR"
                                    => i = Len(log[r]) /\ status[r] = "SOURCE_AUTH_ERROR"
    BY DEF AnsweredInFull
  <2>1. PICK l : l = log[r]
    OBVIOUS
  <2>2. /\ l \in Seq(Entries) /\ \A i \in DOMAIN l : l[i].of = Wanted(r, l[i].call)
        /\ \A i \in DOMAIN l : l[i] \in Entries /\ l[i].call \in Works /\ l[i].body \in Bodies
    <3>1. l \in Seq(Entries) /\ \A i \in DOMAIN l : l[i].of = Wanted(r, l[i].call)
      BY <2>1 DEF Inv, Sound
    <3>2. \A i \in DOMAIN l : l[i] \in Entries
      BY <3>1, ElementOfSeq, LenProperties
    <3>3. QED
      BY <3>1, <3>2 DEF Entries
  <2>3. ASSUME NEW c \in CallsOf(r), Satisfied(r, c, l)
        PROVE  \E i \in DOMAIN l :
                 /\ [l[i].call EXCEPT !.attempt = 1] = c
                 /\ l[i].of = <<TaskOf(r, c), c.chunk>>
                 /\ Enough(r, c, l[i].body)
                 /\ \A j \in DOMAIN l : l[j].call.phase = c.phase /\ l[j].call.task = c.task
                                          => l[j].call.attempt <= l[i].call.attempt
    <3>1. PICK i \in DOMAIN l :
            /\ [l[i].call EXCEPT !.attempt = 1] = c
            /\ Good(r, l[i])
            /\ \A j \in DOMAIN l : Position(l[j].call) = Position(c) => l[j].call.attempt <= l[i].call.attempt
      BY <2>3 DEF Satisfied
    <3>2. l[i].call.phase = c.phase /\ l[i].call.task = c.task /\ l[i].call.chunk = c.chunk
      BY <2>2, <3>1 DEF Works
    <3>3. l[i].of = <<TaskOf(r, c), c.chunk>>
      BY <2>2, <3>2 DEF Wanted, TaskOf
    <3>4. Enough(r, c, l[i].body)
      <4>1. l[i].body \in Bodies /\ CallError(r, c.phase, l[i].body) = "none"
        BY <2>2, <3>1, <3>2 DEF Good
      <4>2. QED
        BY <4>1 DEF Enough, CallError, SetupError, RowsError, QueryError, Bodies
    <3>5. \A j \in DOMAIN l : l[j].call.phase = c.phase /\ l[j].call.task = c.task
                                => l[j].call.attempt <= l[i].call.attempt
      BY <3>1 DEF Position
    <3>6. QED
      BY <3>1, <3>3, <3>4, <3>5
  <2>4. status[r] = "200" /\ stage[r] = "closing" => \A c \in CallsOf(r) : Satisfied(r, c, l)
    BY <2>1 DEF Inv, Sound
  <2>5. \A i \in DOMAIN l : Refused(r, l[i]) => i = Len(l) /\ status[r] = "SOURCE_AUTH_ERROR"
    <3>1. Sound(r, stage[r], status[r], session[r], work[r], l) /\ stage[r] \in Stages
      BY <2>1 DEF Inv, Sound
    <3>2. CASE stage[r] \in {"new", "queued", "done"}
      BY <3>1, <3>2 DEF Sound
    <3>3. CASE stage[r] \in {"calling", "waiting"}
      BY <3>1, <3>3 DEF Sound, Progress
    <3>4. CASE stage[r] = "closing"
      BY <3>1, <3>4 DEF Sound
    <3>5. QED
      BY <3>1, <3>2, <3>3, <3>4 DEF Stages
  <2> DEFINE entries == {l[i] : i \in DOMAIN l}
  <2>6. ASSUME status[r] = "200", stage[r] = "closing", NEW c \in CallsOf(r)
        PROVE  \E e \in entries :
                 /\ [e.call EXCEPT !.attempt = 1] = c
                 /\ e.of = <<TaskOf(r, c), c.chunk>>
                 /\ Enough(r, c, e.body)
                 /\ \A f \in entries : f.call.phase = c.phase /\ f.call.task = c.task
                                         => f.call.attempt <= e.call.attempt
    <3>1. PICK i \in DOMAIN l :
            /\ [l[i].call EXCEPT !.attempt = 1] = c
            /\ l[i].of = <<TaskOf(r, c), c.chunk>>
            /\ Enough(r, c, l[i].body)
            /\ \A j \in DOMAIN l : l[j].call.phase = c.phase /\ l[j].call.task = c.task
                                     => l[j].call.attempt <= l[i].call.attempt
      BY <2>3, <2>4, <2>6
    <3>2. l[i] \in entries
      OBVIOUS
    <3>3. \A f \in entries : f.call.phase = c.phase /\ f.call.task = c.task
                               => f.call.attempt <= l[i].call.attempt
      BY <3>1
    <3>4. QED
      BY <3>1, <3>2, <3>3
  <2>7. \A i \in DOMAIN l :
          /\ l[i].of = <<TaskOf(r, l[i].call), l[i].call.chunk>>
          /\ KindOf[r] = "refresh" /\ l[i].call.phase = "calls" /\ l[i].body = "AUTH_ERROR"
               => i = Len(l) /\ status[r] = "SOURCE_AUTH_ERROR"
    BY <2>2, <2>5 DEF Refused, Wanted
  <2>8. QED
    BY <2>1, <2>6, <2>7 DEF CallsOf, Enough
<1>2. QED
  BY InvInit, InvNext, <1>1, PTL DEF Spec
-----------------------------------------------------------------------------
(* The limiter.                                                            *)

(* nth numbers the positions S of seq one to one, as Kept takes them.      *)
Takes(nth, seq, S) ==
  /\ nth \in [1..Cardinality(S) -> S]
  /\ Kept(seq, S) = [k \in 1..Cardinality(S) |-> seq[nth[k]]]
  /\ \A i, j \in 1..Cardinality(S) : nth[i] = nth[j] => i = j
  /\ \A s \in S : \E k \in 1..Cardinality(S) : nth[k] = s

LEMMA KeptIs ==
  ASSUME NEW n \in Nat, NEW seq, NEW S \in SUBSET (1..n)
  PROVE  IsFiniteSet(S) /\ Cardinality(S) \in Nat /\ \E nth : Takes(nth, seq, S)
<1>1. IsFiniteSet(S) /\ Cardinality(S) \in Nat
  <2>1. IsFiniteSet(1..n)
    BY FS_Interval
  <2> QED
    BY <2>1, FS_Subset, FS_CardinalityType
<1>2. PICK m \in Nat : m = Cardinality(S)
  BY <1>1
<1> DEFINE Upto(i) == {j \in S : j <= i}
<1>3. ASSUME NEW i \in S
      PROVE  IsFiniteSet(Upto(i)) /\ Cardinality(Upto(i)) \in 1..m
  <2>1. Upto(i) \in SUBSET S /\ i \in Upto(i)
    OBVIOUS
  <2>2. IsFiniteSet(Upto(i)) /\ Cardinality(Upto(i)) \in Nat /\ Cardinality(Upto(i)) <= m
    BY <1>1, <1>2, <2>1, FS_Subset, FS_CardinalityType
  <2>3. Cardinality(Upto(i)) # 0
    BY <2>1, <2>2, FS_EmptySet
  <2> HIDE DEF Upto
  <2> QED
    BY <2>2, <2>3
<1>4. ASSUME NEW i \in S, NEW j \in S, Cardinality(Upto(i)) = Cardinality(Upto(j)) PROVE i = j
  <2>0. i \in Nat /\ j \in Nat /\ \A s \in S : s \in Nat
    OBVIOUS
  <2>1. Upto(i) \in SUBSET Upto(j) \/ Upto(j) \in SUBSET Upto(i)
    <3>1. ASSUME i <= j, NEW s \in S, s <= i PROVE s <= j
      BY <2>0, <3>1
    <3>2. ASSUME j <= i, NEW s \in S, s <= j PROVE s <= i
      BY <2>0, <3>2
    <3>3. i <= j \/ j <= i
      BY <2>0
    <3> QED
      BY <3>1, <3>2, <3>3
  <2>2. Upto(i) = Upto(j)
    BY <1>3, <1>4, <2>1, FS_Subset
  <2>3. i \in Upto(i) /\ j \in Upto(j)
    OBVIOUS
  <2>4. i <= j /\ j <= i
    BY <2>2, <2>3
  <2> QED
    BY <2>4
<1> DEFINE rank == [i \in S |-> Cardinality(Upto(i))]
<1>5. rank \in Injection(S, 1..m)
  <2>1. rank \in [S -> 1..m]
    BY <1>3
  <2>2. \A i, j \in S : rank[i] = rank[j] => i = j
    BY <1>4
  <2> HIDE DEF rank
  <2> QED
    BY <2>1, <2>2 DEF Injection, IsInjective
<1>6. rank \in Surjection(S, 1..m)
  <2>1. IsFiniteSet(1..m) /\ Cardinality(1..m) = m
    BY FS_Interval
  <2> HIDE DEF rank
  <2> QED
    BY <1>2, <1>5, <2>1, FS_Injection
<1>7. ASSUME NEW k \in 1..m PROVE \E i \in S : Cardinality(Upto(i)) = k
  <2>1. \E i \in S : rank[i] = k
    <3> HIDE DEF rank
    <3> QED
      BY <1>6 DEF Surjection
  <2> QED
    BY <2>1
<1> DEFINE nth == [k \in 1..m |-> CHOOSE i \in S : Cardinality(Upto(i)) = k]
<1>8. ASSUME NEW k \in 1..m PROVE nth[k] \in S /\ Cardinality(Upto(nth[k])) = k
  BY <1>7
<1>9. ASSUME NEW s \in S PROVE \E k \in 1..m : nth[k] = s
  <2>1. Cardinality(Upto(s)) \in 1..m
    BY <1>3
  <2> HIDE DEF nth, Upto
  <2> QED
    BY <1>4, <1>8, <2>1
<1>10. Kept(seq, S) = [k \in 1..m |-> seq[nth[k]]]
  BY <1>2 DEF Kept
<1>11. nth \in [1..m -> S]
  BY <1>8
<1> HIDE DEF nth, Upto
<1>12. \A i, j \in 1..m : nth[i] = nth[j] => i = j
  BY <1>8
<1>13. Takes(nth, seq, S)
  BY <1>2, <1>9, <1>10, <1>11, <1>12 DEF Takes
<1> QED
  BY <1>1, <1>13

(* Requests of client c accepted in the window that ends at t.             *)
Accepted(c, t) ==
  {r \in Requests : ClientOf[r] = c /\ arrived[r].verdict = "accepted" /\ arrived[r].at \in (t - Window + 1)..t}

(* The instants of a list are those of requests of client c that were let  *)
(* in, each of its own, and none of the set recent is missing.             *)
Stands(of, list, history, c, recent) ==
  /\ of \in [DOMAIN list -> Requests]
  /\ \A i \in DOMAIN list : /\ ClientOf[of[i]] = c /\ history[of[i]].verdict = "accepted"
                            /\ list[i] = history[of[i]].at
  /\ \A i, j \in DOMAIN list : of[i] = of[j] => i = j
  /\ \A r \in recent : \E i \in DOMAIN list : of[i] = r

Counted(c) == \E of : Stands(of, hits[c], arrived, c, Accepted(c, now))

Arrivals ==
  /\ now \in Nat /\ DOMAIN stage = Requests
  /\ hits \in [Clients -> Seq(Nat)]
  /\ arrived \in [Requests -> [at : Nat, verdict : {"none", "limited", "accepted"}]]
  /\ \A r \in Requests : /\ arrived[r].at <= now
                         /\ stage[r] = "new" => arrived[r].verdict = "none"

LimiterInv ==
  /\ Arrivals
  /\ \A c \in Clients : Counted(c)
  /\ \A c \in Clients, t \in 0..now : /\ IsFiniteSet(Accepted(c, t))
                                      /\ Cardinality(Accepted(c, t)) <= MaxPerMinute
  /\ \A r \in Requests : arrived[r].verdict = "limited"
                           => Cardinality(Accepted(ClientOf[r], arrived[r].at)) = MaxPerMinute

(* The instants of list are those of the accepted requests of the window.  *)
Stamps(of, list, c) ==
  /\ of \in [1..Len(list) -> Accepted(c, now)]
  /\ \A k \in 1..Len(list) : list[k] = arrived[of[k]].at
  /\ \A i, j \in 1..Len(list) : of[i] = of[j] => i = j
  /\ \A r \in Accepted(c, now) : \E k \in 1..Len(list) : of[k] = r

(* The limiter counts the accepted requests of the client in the window.   *)
LEMMA RecentIs ==
  ASSUME LimiterInv, NEW c \in Clients
  PROVE  /\ Recent(c) \in Seq(Nat) /\ Len(Recent(c)) = Cardinality(Accepted(c, now))
         /\ \E of : Stamps(of, Recent(c), c)
<1>1. PICK list : list = hits[c] /\ list \in Seq(Nat)
  BY DEF LimiterInv, Arrivals
<1>2. PICK n \in Nat : n = Len(list) /\ DOMAIN list = 1..n
  BY <1>1
<1>3. PICK g \in [1..n -> Requests] :
        /\ \A i \in 1..n : /\ ClientOf[g[i]] = c /\ arrived[g[i]].verdict = "accepted"
                           /\ list[i] = arrived[g[i]].at
        /\ \A i, j \in 1..n : g[i] = g[j] => i = j
        /\ \A r \in Accepted(c, now) : \E i \in 1..n : g[i] = r
  BY <1>1, <1>2 DEF LimiterInv, Counted, Stands
<1>4. PICK S \in SUBSET (1..n) : S = {i \in DOMAIN list : now - list[i] < Window}
  BY <1>2
<1>5. PICK recent : recent = Recent(c) /\ recent = Kept(list, S)
  BY <1>1, <1>4 DEF Recent
<1>6. PICK m \in Nat : m = Cardinality(S) /\ IsFiniteSet(S)
  BY KeptIs
<1>7. PICK nth \in [1..m -> S] :
        /\ recent = [k \in 1..m |-> list[nth[k]]]
        /\ \A i, j \in 1..m : nth[i] = nth[j] => i = j
        /\ \A s \in S : \E k \in 1..m : nth[k] = s
  <2>1. PICK nth : Takes(nth, list, S)
    BY KeptIs
  <2> QED
    BY <1>5, <1>6, <2>1, Zenon DEF Takes
<1>8. now \in Nat /\ Window \in Nat \ {0} /\ \A r \in Requests : arrived[r].at \in Nat /\ arrived[r].at <= now
  BY GatewayAssumption DEF LimiterInv, Arrivals
<1>9. ASSUME NEW i \in 1..n PROVE i \in S <=> g[i] \in Accepted(c, now)
  <2>1. g[i] \in Requests /\ ClientOf[g[i]] = c /\ arrived[g[i]].verdict = "accepted"
        /\ list[i] = arrived[g[i]].at
    BY <1>3
  <2>2. PICK at \in Nat : at = list[i] /\ at <= now
    BY <1>8, <2>1
  <2>3. now - at < Window <=> at \in (now - Window + 1)..now
    BY <1>8, <2>2
  <2> QED
    BY <1>2, <1>4, <2>1, <2>2, <2>3 DEF Accepted
<1>10. /\ recent \in Seq(Nat) /\ Len(recent) = m /\ DOMAIN recent = 1..m
  <2>1. \A k \in 1..m : nth[k] \in 1..n
    BY <1>4
  <2>2. \A i \in 1..n : list[i] \in Nat
    BY <1>1, <1>2
  <2>3. recent \in [1..m -> Nat]
    BY <1>7, <2>1, <2>2
  <2> QED
    BY <2>3
<1>11. PICK of : of = [k \in 1..m |-> g[nth[k]]]
  OBVIOUS
<1>12. \A k \in 1..m : of[k] = g[nth[k]] /\ nth[k] \in S /\ nth[k] \in 1..n
  BY <1>4, <1>7, <1>11
<1>13. of \in [1..m -> Accepted(c, now)]
  BY <1>9, <1>11, <1>12
<1>14. \A k \in 1..m : recent[k] = arrived[of[k]].at
  BY <1>3, <1>7, <1>12
<1>15. \A i, j \in 1..m : of[i] = of[j] => i = j
  BY <1>3, <1>7, <1>12
<1>16. ASSUME NEW r \in Accepted(c, now) PROVE \E k \in 1..m : of[k] = r
  <2>1. PICK i \in 1..n : g[i] = r
    BY <1>3
  <2>2. PICK k \in 1..m : nth[k] = i
    BY <1>7, <1>9, <2>1
  <2> QED
    BY <1>12, <2>1, <2>2
<1>17. Cardinality(Accepted(c, now)) = m
  <2>1. of \in Injection(1..m, Accepted(c, now))
    BY <1>13, <1>15 DEF Injection, IsInjective
  <2>2. of \in Surjection(1..m, Accepted(c, now))
    BY <1>13, <1>16 DEF Surjection
  <2>3. IsFiniteSet(1..m) /\ Cardinality(1..m) = m
    BY FS_Interval
  <2> QED
    BY <2>1, <2>2, <2>3, FS_Surjection
<1>18. m = Len(recent)
  BY <1>10
<1>19. Stamps(of, recent, c)
  BY <1>13, <1>14, <1>15, <1>16, <1>18 DEF Stamps
<1> QED
  BY <1>5, <1>10, <1>17, <1>19

(* A window without requests.                                              *)
LEMMA LimiterInit == Init => LimiterInv
<1> SUFFICES ASSUME Init PROVE LimiterInv
  OBVIOUS
<1>1. Arrivals
  <2>1. /\ now = 0 /\ DOMAIN stage = Requests
        /\ \A r \in Requests : arrived[r] = [at |-> 0, verdict |-> "none"]
        /\ arrived \in [Requests -> [at : Nat, verdict : {"none", "limited", "accepted"}]]
    BY DEF Init
  <2>2. hits \in [Clients -> Seq(Nat)]
    BY DEF Init
  <2> QED
    BY <2>1, <2>2 DEF Arrivals
<1>2. \A r \in Requests : arrived[r].verdict = "none"
  BY DEF Init
<1>3. \A c, t : Accepted(c, t) = {}
  BY <1>2 DEF Accepted
<1>4. ASSUME NEW c \in Clients PROVE Counted(c)
  <2>1. hits[c] = <<>>
    BY DEF Init
  <2>2. PICK of : of = [i \in {} |-> CHOOSE r \in Requests : TRUE]
    OBVIOUS
  <2>3. of \in [{} -> Requests] /\ DOMAIN hits[c] = {}
    BY <2>1, <2>2
  <2>4. Stands(of, hits[c], arrived, c, {})
    BY <2>3 DEF Stands
  <2> QED
    BY <1>3, <2>4 DEF Counted
<1>5. ASSUME NEW c, NEW t PROVE IsFiniteSet(Accepted(c, t)) /\ Cardinality(Accepted(c, t)) <= MaxPerMinute
  <2>1. IsFiniteSet({}) /\ Cardinality({}) = 0 /\ 0 <= MaxPerMinute
    BY FS_EmptySet, GatewayAssumption
  <2> QED
    BY <1>3, <2>1
<1> QED
  BY <1>1, <1>2, <1>4, <1>5 DEF LimiterInv

(* Steps of a request that was let in, of its child, and of no one.        *)
LEMMA NotArriving ==
  ASSUME LimiterInv, UNCHANGED <<now, hits, arrived>>, DOMAIN stage' = Requests,
         \A r \in Requests : stage'[r] = "new" => stage[r] = "new"
  PROVE  LimiterInv'
<1>1. Arrivals'
  BY DEF LimiterInv, Arrivals
<1>2. ASSUME NEW c, NEW t PROVE Accepted(c, t)' = Accepted(c, t)
  BY DEF Accepted
<1>3. ASSUME NEW c \in Clients PROVE Counted(c)'
  <2>1. Counted(c)
    BY DEF LimiterInv
  <2>2. Accepted(c, now)' = Accepted(c, now)
    BY DEF Accepted
  <2> QED
    BY <2>1, <2>2 DEF Counted
<1>4. now' = now /\ arrived' = arrived
  OBVIOUS
<1>5. \A c \in Clients, t \in 0..now : /\ IsFiniteSet(Accepted(c, t))
                                       /\ Cardinality(Accepted(c, t)) <= MaxPerMinute
  BY DEF LimiterInv
<1>6. \A r \in Requests : arrived[r].verdict = "limited"
                            => Cardinality(Accepted(ClientOf[r], arrived[r].at)) = MaxPerMinute
  BY DEF LimiterInv
<1> QED
  BY <1>1, <1>2, <1>3, <1>4, <1>5, <1>6 DEF LimiterInv

(* A second passes: the window of now loses requests, and gains none.      *)
LEMMA TickLimited ==
  ASSUME LimiterInv, Tick
  PROVE  LimiterInv'
<1>1. /\ now \in Nat /\ now' = now + 1 /\ UNCHANGED <<hits, arrived, stage>>
  BY DEF LimiterInv, Arrivals, Tick
<1>2. Window \in Nat \ {0} /\ \A r \in Requests : arrived[r].at \in Nat /\ arrived[r].at <= now
  BY GatewayAssumption DEF LimiterInv, Arrivals
<1>3. Arrivals'
  <2>1. \A r \in Requests : arrived[r].at <= now + 1
    BY <1>1, <1>2
  <2> QED
    BY <1>1, <2>1 DEF LimiterInv, Arrivals
<1>4. ASSUME NEW c, NEW t PROVE Accepted(c, t)' = Accepted(c, t)
  BY <1>1 DEF Accepted
<1>5. ASSUME NEW c PROVE Accepted(c, now + 1) \in SUBSET Accepted(c, now)
  <2>1. PICK later : later = now + 1
    OBVIOUS
  <2>2. ASSUME NEW r \in Accepted(c, later) PROVE r \in Accepted(c, now)
    <3>1. /\ r \in Requests /\ ClientOf[r] = c /\ arrived[r].verdict = "accepted"
          /\ arrived[r].at \in (later - Window + 1)..later
      BY DEF Accepted
    <3>2. arrived[r].at \in (now - Window + 1)..now
      BY <1>1, <1>2, <2>1, <3>1
    <3> QED
      BY <3>1, <3>2 DEF Accepted
  <2> QED
    BY <2>1, <2>2
<1>6. PICK later : later = now + 1 /\ later = now'
  BY <1>1
<1>7. ASSUME NEW c \in Clients PROVE Counted(c)'
  <2>1. PICK of : Stands(of, hits[c], arrived, c, Accepted(c, now))
    BY DEF LimiterInv, Counted
  <2>2. Accepted(c, now)' = Accepted(c, later)
    BY <1>1, <1>6 DEF Accepted
  <2>3. Stands(of, hits[c], arrived, c, Accepted(c, later))
    BY <1>5, <1>6, <2>1 DEF Stands
  <2>4. Stands(of, hits'[c], arrived', c, Accepted(c, now)')
    BY <1>1, <2>2, <2>3
  <2> QED
    BY <2>4 DEF Counted
<1>8. ASSUME NEW c \in Clients, NEW t \in 0..now'
      PROVE  IsFiniteSet(Accepted(c, t)) /\ Cardinality(Accepted(c, t)) <= MaxPerMinute
  <2>1. now \in 0..now
    BY <1>1
  <2>2. \A u \in 0..now : IsFiniteSet(Accepted(c, u)) /\ Cardinality(Accepted(c, u)) <= MaxPerMinute
    BY DEF LimiterInv
  <2>3. CASE t \in 0..now
    BY <2>2, <2>3
  <2>4. CASE t = now + 1
    <3>1. /\ IsFiniteSet(Accepted(c, t)) /\ Cardinality(Accepted(c, t)) <= Cardinality(Accepted(c, now))
      BY <1>5, <2>1, <2>2, <2>4, FS_Subset
    <3>2. Cardinality(Accepted(c, t)) \in Nat /\ Cardinality(Accepted(c, now)) \in Nat
      BY <2>1, <2>2, <3>1, FS_CardinalityType
    <3> QED
      BY <2>1, <2>2, <3>1, <3>2, GatewayAssumption
  <2> QED
    BY <1>1, <2>3, <2>4
<1>9. \A r \in Requests : arrived[r].verdict = "limited"
                            => Cardinality(Accepted(ClientOf[r], arrived[r].at)) = MaxPerMinute
  BY DEF LimiterInv
<1> QED
  BY <1>1, <1>3, <1>4, <1>7, <1>8, <1>9 DEF LimiterInv

(* A request is refused when the window of now is full.                    *)
LEMMA LimitedStep ==
  ASSUME LimiterInv, NEW r \in Requests, stage[r] = "new",
         Len(Recent(ClientOf[r])) >= MaxPerMinute,
         stage' = [stage EXCEPT ![r] = "done"],
         arrived' = [arrived EXCEPT ![r] = [at |-> now, verdict |-> "limited"]],
         UNCHANGED <<now, hits>>
  PROVE  LimiterInv'
<1>1. /\ now \in Nat /\ DOMAIN stage = Requests /\ hits \in [Clients -> Seq(Nat)]
      /\ arrived \in [Requests -> [at : Nat, verdict : {"none", "limited", "accepted"}]]
      /\ arrived[r].verdict = "none" /\ \A q \in Requests : arrived[q].at <= now
  BY DEF LimiterInv, Arrivals
<1>2. arrived'[r].at = now /\ arrived'[r].verdict = "limited" /\ \A q \in Requests \ {r} : arrived'[q] = arrived[q]
  BY <1>1
<1>3. arrived' \in [Requests -> [at : Nat, verdict : {"none", "limited", "accepted"}]]
  BY <1>1
<1>4. stage'[r] # "new" /\ DOMAIN stage' = Requests /\ \A q \in Requests \ {r} : stage'[q] = stage[q]
  BY <1>1
<1>5. Arrivals'
  <2>1. \A q \in Requests : arrived'[q].at <= now /\ (stage'[q] = "new" => arrived'[q].verdict = "none")
    BY <1>1, <1>2, <1>4 DEF LimiterInv, Arrivals
  <2> QED
    BY <1>1, <1>3, <1>4, <2>1 DEF Arrivals
<1>6. ASSUME NEW c, NEW t PROVE Accepted(c, t)' = Accepted(c, t)
  BY <1>1, <1>2 DEF Accepted
<1>7. ASSUME NEW c \in Clients PROVE Counted(c)'
  <2>1. PICK of : Stands(of, hits[c], arrived, c, Accepted(c, now))
    BY DEF LimiterInv, Counted
  <2>2. \A i \in DOMAIN hits[c] : of[i] # r /\ of[i] \in Requests
    BY <1>1, <2>1 DEF Stands
  <2>3. \A i \in DOMAIN hits[c] : arrived'[of[i]] = arrived[of[i]]
    BY <1>2, <2>2
  <2>4. Accepted(c, now)' = Accepted(c, now)
    BY <1>1, <1>2 DEF Accepted
  <2>5. Stands(of, hits'[c], arrived', c, Accepted(c, now)')
    BY <2>1, <2>3, <2>4 DEF Stands
  <2> QED
    BY <2>5 DEF Counted
<1>8. Cardinality(Accepted(ClientOf[r], now)) = MaxPerMinute
  <2>1. ClientOf[r] \in Clients
    BY GatewayAssumption
  <2>2. now \in 0..now
    BY <1>1
  <2>3. /\ IsFiniteSet(Accepted(ClientOf[r], now))
        /\ Cardinality(Accepted(ClientOf[r], now)) <= MaxPerMinute
    BY <2>1, <2>2 DEF LimiterInv
  <2>4. Cardinality(Accepted(ClientOf[r], now)) >= MaxPerMinute
    BY <2>1, RecentIs
  <2>5. Cardinality(Accepted(ClientOf[r], now)) \in Nat /\ MaxPerMinute \in Nat
    BY <2>3, FS_CardinalityType, GatewayAssumption
  <2> QED
    BY <2>3, <2>4, <2>5
<1>9. \A q \in Requests : arrived'[q].verdict = "limited"
                            => Cardinality(Accepted(ClientOf[q], arrived'[q].at)) = MaxPerMinute
  BY <1>2, <1>8 DEF LimiterInv
<1>10. \A c \in Clients, t \in 0..now : /\ IsFiniteSet(Accepted(c, t))
                                        /\ Cardinality(Accepted(c, t)) <= MaxPerMinute
  BY DEF LimiterInv
<1> QED
  BY <1>5, <1>6, <1>7, <1>9, <1>10 DEF LimiterInv

(* A request is let in: it is the last of its list, and counts from now on.*)
LEMMA AcceptedStep ==
  ASSUME LimiterInv, NEW r \in Requests, stage[r] = "new",
         Len(Recent(ClientOf[r])) < MaxPerMinute,
         stage' = [stage EXCEPT ![r] = "queued"],
         arrived' = [arrived EXCEPT ![r] = [at |-> now, verdict |-> "accepted"]],
         hits' = [hits EXCEPT ![ClientOf[r]] = Append(Recent(ClientOf[r]), now)],
         now' = now
  PROVE  LimiterInv'
<1>1. /\ now \in Nat /\ DOMAIN stage = Requests /\ hits \in [Clients -> Seq(Nat)]
      /\ arrived \in [Requests -> [at : Nat, verdict : {"none", "limited", "accepted"}]]
      /\ arrived[r].verdict = "none" /\ \A q \in Requests : arrived[q].at <= now
  BY DEF LimiterInv, Arrivals
<1>2. arrived'[r].at = now /\ arrived'[r].verdict = "accepted" /\ \A q \in Requests \ {r} : arrived'[q] = arrived[q]
  BY <1>1
<1>3. arrived' \in [Requests -> [at : Nat, verdict : {"none", "limited", "accepted"}]]
  BY <1>1
<1>4. stage'[r] # "new" /\ DOMAIN stage' = Requests /\ \A q \in Requests \ {r} : stage'[q] = stage[q]
  BY <1>1
<1>5. PICK client \in Clients : client = ClientOf[r]
  BY GatewayAssumption
<1>6. PICK recent, of : recent = Recent(client) /\ Stamps(of, recent, client)
  BY <1>5, RecentIs
<1>7. PICK n \in Nat : /\ n = Len(recent) /\ recent \in Seq(Nat) /\ n = Cardinality(Accepted(client, now))
                       /\ n < MaxPerMinute
  BY <1>5, <1>6, RecentIs
<1>8. PICK list : list = Append(recent, now)
  OBVIOUS
<1>9. /\ list \in Seq(Nat) /\ DOMAIN list = 1..(n + 1) /\ list[n + 1] = now
      /\ \A k \in 1..n : list[k] = recent[k]
  <2>0. now \in Nat /\ recent \in Seq(Nat) /\ Len(recent) = n
    BY <1>1, <1>7
  <2>1. list \in Seq(Nat) /\ Len(list) = n + 1
    BY <1>8, <2>0, AppendProperties
  <2>2. DOMAIN list = 1..(n + 1)
    BY <2>1
  <2>3. \A k \in 1..n : k \in 1..Len(recent)
    BY <1>7
  <2>4. list[n + 1] = now /\ \A k \in 1..n : list[k] = recent[k]
    BY <1>8, <2>0, <2>3, AppendProperties
  <2> QED
    BY <2>1, <2>2, <2>4
<1>10. /\ hits' \in [Clients -> Seq(Nat)] /\ hits'[client] = list
       /\ \A c \in Clients \ {client} : hits'[c] = hits[c]
  BY <1>1, <1>5, <1>6, <1>8, <1>9
<1>11. Arrivals'
  <2>1. \A q \in Requests : arrived'[q].at <= now /\ (stage'[q] = "new" => arrived'[q].verdict = "none")
    BY <1>1, <1>2, <1>4 DEF LimiterInv, Arrivals
  <2> QED
    BY <1>1, <1>3, <1>4, <1>10, <2>1 DEF Arrivals
<1>12. ASSUME NEW c, NEW t, c # client \/ now \notin (t - Window + 1)..t PROVE Accepted(c, t)' = Accepted(c, t)
  BY <1>1, <1>2, <1>5, <1>12 DEF Accepted
<1>13. Window \in Nat \ {0} /\ MaxPerMinute \in Nat /\ now \in (now - Window + 1)..now
  BY <1>1, GatewayAssumption
<1>14. Accepted(client, now)' = Accepted(client, now) \union {r} /\ r \notin Accepted(client, now)
  BY <1>1, <1>2, <1>5, <1>13 DEF Accepted
<1>15. ASSUME NEW c \in Clients PROVE Counted(c)'
  <2>1. CASE c = client
    <3>1. PICK f : f = [k \in 1..(n + 1) |-> IF k = n + 1 THEN r ELSE of[k]]
      OBVIOUS
    <3>2. /\ of \in [1..n -> Accepted(client, now)]
          /\ \A k \in 1..n : recent[k] = arrived[of[k]].at
          /\ \A i, j \in 1..n : of[i] = of[j] => i = j
          /\ \A q \in Accepted(client, now) : \E k \in 1..n : of[k] = q
      BY <1>6, <1>7 DEF Stamps
    <3>3. /\ f[n + 1] = r
          /\ \A k \in 1..n : f[k] = of[k] /\ f[k] \in Requests /\ f[k] # r /\ ClientOf[f[k]] = client
                             /\ arrived[f[k]].verdict = "accepted"
      BY <1>1, <1>14, <3>1, <3>2 DEF Accepted
    <3>4. f \in [1..(n + 1) -> Requests]
      <4>1. \A k \in 1..(n + 1) : k = n + 1 \/ k \in 1..n
        OBVIOUS
      <4>2. \A k \in 1..(n + 1) : f[k] \in Requests
        BY <3>3, <4>1
      <4> QED
        BY <3>1, <4>2
    <3>5. ASSUME NEW k \in 1..(n + 1)
          PROVE  ClientOf[f[k]] = client /\ arrived'[f[k]].verdict = "accepted" /\ list[k] = arrived'[f[k]].at
      <4>1. CASE k = n + 1
        BY <1>2, <1>5, <1>9, <3>3, <4>1
      <4>2. CASE k \in 1..n
        BY <1>2, <1>9, <3>2, <3>3, <4>2
      <4> QED
        BY <4>1, <4>2
    <3>6. ASSUME NEW i \in 1..(n + 1), NEW j \in 1..(n + 1), f[i] = f[j] PROVE i = j
      BY <3>2, <3>3, <3>6
    <3>7. ASSUME NEW q \in Accepted(client, now) \union {r} PROVE \E k \in 1..(n + 1) : f[k] = q
      <4>1. CASE q = r
        BY <3>3, <4>1
      <4>2. CASE q \in Accepted(client, now)
        <5>1. PICK k \in 1..n : of[k] = q
          BY <3>2, <4>2
        <5>2. k \in 1..(n + 1) /\ f[k] = q
          BY <3>3, <5>1
        <5> QED
          BY <5>2
      <4> QED
        BY <4>1, <4>2
    <3>8. /\ DOMAIN hits'[c] = 1..(n + 1) /\ hits'[c] = list
          /\ Accepted(c, now)' = Accepted(client, now) \union {r}
      <4>1. Accepted(c, now)' = Accepted(client, now)'
        BY <2>1 DEF Accepted
      <4> QED
        BY <1>9, <1>10, <1>14, <2>1, <4>1
    <3>9. Stands(f, list, arrived', c, Accepted(client, now) \union {r})
      BY <1>9, <2>1, <3>4, <3>5, <3>6, <3>7 DEF Stands
    <3>10. Stands(f, hits'[c], arrived', c, Accepted(c, now)')
      BY <3>8, <3>9
    <3> QED
      BY <3>10 DEF Counted
  <2>2. CASE c # client
    <3>1. PICK g : Stands(g, hits[c], arrived, c, Accepted(c, now))
      BY DEF LimiterInv, Counted
    <3>2. hits'[c] = hits[c]
      BY <1>10, <2>2
    <3>3. \A i \in DOMAIN hits[c] : g[i] # r /\ g[i] \in Requests
      BY <1>1, <3>1 DEF Stands
    <3>4. \A i \in DOMAIN hits[c] : arrived'[g[i]] = arrived[g[i]]
      BY <1>2, <3>3
    <3>5. Accepted(c, now)' = Accepted(c, now)
      BY <1>1, <1>2, <1>5, <2>2 DEF Accepted
    <3>6. Stands(g, hits[c], arrived', c, Accepted(c, now))
      BY <3>1, <3>4, Zenon DEF Stands
    <3>7. Stands(g, hits'[c], arrived', c, Accepted(c, now)')
      BY <3>2, <3>5, <3>6
    <3> QED
      BY <3>7 DEF Counted
  <2> QED
    BY <2>1, <2>2
<1>16. \A c \in Clients, t \in 0..now : /\ IsFiniteSet(Accepted(c, t))
                                        /\ Cardinality(Accepted(c, t)) <= MaxPerMinute
  BY DEF LimiterInv
<1>17. ASSUME NEW t \in 0..now, t # now PROVE now \notin (t - Window + 1)..t
  BY <1>1, <1>17
<1>18. ASSUME NEW c \in Clients, NEW t \in 0..now
       PROVE  IsFiniteSet(Accepted(c, t)') /\ Cardinality(Accepted(c, t)') <= MaxPerMinute
  <2>1. CASE c = client /\ t = now
    <3>1. Accepted(c, t)' = Accepted(client, now) \union {r}
      <4>1. Accepted(c, t)' = Accepted(client, now)'
        BY <1>1, <2>1 DEF Accepted
      <4> QED
        BY <1>14, <4>1
    <3>2. PICK before : before = Accepted(client, now) /\ IsFiniteSet(before)
      BY <1>1, <1>16
    <3>3. IsFiniteSet(before \union {r}) /\ Cardinality(before \union {r}) = Cardinality(before) + 1
      BY <1>14, <3>2, FS_AddElement
    <3>4. IsFiniteSet(Accepted(c, t)') /\ Cardinality(Accepted(c, t)') = n + 1
      BY <1>7, <3>1, <3>2, <3>3
    <3> QED
      BY <1>7, <1>13, <3>4
  <2>2. CASE ~(c = client /\ t = now)
    BY <1>12, <1>16, <1>17, <2>2
  <2> QED
    BY <2>1, <2>2
<1>19. ASSUME NEW q \in Requests, arrived'[q].verdict = "limited"
       PROVE  Cardinality(Accepted(ClientOf[q], arrived[q].at)') = MaxPerMinute
  <2>1. q # r /\ arrived'[q] = arrived[q]
    BY <1>2, <1>19
  <2>2. PICK t : t = arrived[q].at
    OBVIOUS
  <2>3. t \in 0..now
    BY <1>1, <2>2
  <2>4. Cardinality(Accepted(ClientOf[q], t)) = MaxPerMinute
    BY <1>19, <2>1, <2>2 DEF LimiterInv
  <2>5. ~(ClientOf[q] = client /\ t = now)
    BY <1>7, <1>13, <2>4
  <2>6. Accepted(ClientOf[q], t)' = Accepted(ClientOf[q], t)
    BY <1>12, <1>17, <2>3, <2>5
  <2>7. Accepted(ClientOf[q], arrived[q].at)' = Accepted(ClientOf[q], t)'
    BY <2>1, <2>2 DEF Accepted
  <2> QED
    BY <2>4, <2>6, <2>7
<1> QED
  BY <1>11, <1>15, <1>18, <1>19 DEF LimiterInv

(* A request meets the limiter, or a public path or a wrong token.         *)
LEMMA ArriveLimited ==
  ASSUME LimiterInv, NEW r \in Requests, Arrive(r)
  PROVE  LimiterInv'
<1>1. /\ stage[r] = "new" /\ DOMAIN stage = Requests /\ now' = now
  BY DEF Arrive, LimiterInv, Arrivals
<1>2. CASE stage' = [stage EXCEPT ![r] = "done"] /\ UNCHANGED <<hits, arrived>>
  <2>1. DOMAIN stage' = Requests /\ \A q \in Requests : stage'[q] = "new" => stage[q] = "new"
    BY <1>1, <1>2
  <2> QED
    BY <1>1, <1>2, <2>1, NotArriving
<1>3. CASE /\ Len(Recent(ClientOf[r])) >= MaxPerMinute
           /\ stage' = [stage EXCEPT ![r] = "done"]
           /\ arrived' = [arrived EXCEPT ![r] = [at |-> now, verdict |-> "limited"]]
           /\ UNCHANGED hits
  BY <1>1, <1>3, LimitedStep
<1>4. CASE /\ Len(Recent(ClientOf[r])) < MaxPerMinute
           /\ stage' = [stage EXCEPT ![r] = "queued"]
           /\ arrived' = [arrived EXCEPT ![r] = [at |-> now, verdict |-> "accepted"]]
           /\ hits' = [hits EXCEPT ![ClientOf[r]] = Append(Recent(ClientOf[r]), now)]
  BY <1>1, <1>4, AcceptedStep
<1> QED
  BY <1>2, <1>3, <1>4 DEF Arrive

(* A request that was let in never meets it again.                         *)
LEMMA ServedLimited ==
  ASSUME LimiterInv, NEW r \in Requests, Advance(r) \/ TimeOut(r) \/ Reject(r) \/ Child(r)
  PROVE  LimiterInv'
<1>1. UNCHANGED <<now, hits, arrived>>
  BY DEF Advance, Open, Ask, Read, EndOfFile, TimeOut, Close, Reject, Child
<1>2. \/ UNCHANGED stage
      \/ \E to \in {"calling", "waiting", "closing", "done"} : stage' = [stage EXCEPT ![r] = to]
  <2>1. ASSUME NEW answer, NEW s, Ends(r, answer, s)
        PROVE  \E to \in {"calling", "waiting", "closing", "done"} : stage' = [stage EXCEPT ![r] = to]
    BY <2>1 DEF Ends
  <2>2. ASSUME NEW to \in {"calling", "waiting"}, NEW w, NEW s, Goes(r, to, w, s)
        PROVE  \E q \in {"calling", "waiting", "closing", "done"} : stage' = [stage EXCEPT ![r] = q]
    BY <2>2 DEF Goes
  <2>3. ASSUME NEW code, NEW s, CallFails(r, code, s)
        PROVE  \E to \in {"calling", "waiting", "closing", "done"} : stage' = [stage EXCEPT ![r] = to]
    BY <2>1, <2>2, <2>3 DEF CallFails, StartFails
  <2>4. ASSUME NEW s, CallSucceeds(r, s)
        PROVE  \E to \in {"calling", "waiting", "closing", "done"} : stage' = [stage EXCEPT ![r] = to]
    BY <2>1, <2>2, <2>4 DEF CallSucceeds
  <2>5. CASE Open(r)
    BY <2>1, <2>2, <2>5 DEF Open
  <2>6. CASE Ask(r)
    BY <2>2, <2>3, <2>6 DEF Ask
  <2>7. CASE Read(r)
    BY <2>2, <2>3, <2>4, <2>7 DEF Read
  <2>8. CASE EndOfFile(r) \/ TimeOut(r)
    BY <2>3, <2>8 DEF EndOfFile, TimeOut
  <2>9. CASE Close(r)
    BY <2>9 DEF Close
  <2>10. CASE Reject(r)
    BY <2>1, <2>10 DEF Reject
  <2>11. CASE Child(r)
    BY <2>11 DEF Child
  <2> QED
    BY <2>5, <2>6, <2>7, <2>8, <2>9, <2>10, <2>11 DEF Advance
<1>3. DOMAIN stage = Requests
  BY DEF LimiterInv, Arrivals
<1>4. DOMAIN stage' = Requests /\ \A q \in Requests : stage'[q] = "new" => stage[q] = "new"
  BY <1>2, <1>3
<1> QED
  BY <1>1, <1>4, NotArriving

(* The limiter invariant is inductive.                                     *)
LEMMA LimiterNext == LimiterInv /\ [Next]_vars => LimiterInv'
<1> SUFFICES ASSUME LimiterInv, [Next]_vars PROVE LimiterInv'
  OBVIOUS
<1>1. CASE UNCHANGED vars
  <2>1. DOMAIN stage = Requests
    BY DEF LimiterInv, Arrivals
  <2> QED
    BY <1>1, <2>1, NotArriving DEF vars
<1>2. CASE Tick
  BY <1>2, TickLimited
<1>3. ASSUME NEW r \in Requests, Arrive(r) \/ Advance(r) \/ TimeOut(r) \/ Reject(r) \/ Child(r)
      PROVE  LimiterInv'
  BY <1>3, ArriveLimited, ServedLimited
<1> QED
  BY <1>1, <1>2, <1>3 DEF Next

(* The limiter is exact: no client has more than its share accepted in any *)
(* window of the past or present, and is refused only in a full one        *)
(* (operations/auth.py 48-54).                                             *)
THEOREM LimiterIsExact == Spec => []WindowExact
<1>1. LimiterInv => WindowExact
  BY DEF LimiterInv, WindowExact, Accepted
<1> QED
  BY LimiterInit, LimiterNext, <1>1, PTL DEF Spec
=============================================================================
