---------------------------- MODULE ShadowProofs ----------------------------
(***************************************************************************)
(* Proofs about Shadow, for any contexts, sessions and instants and any    *)
(* number of calls: every call is accounted for, faults are gaps, no       *)
(* metric is stamped before what it was computed from, what a reader may   *)
(* act on passed every gate, and longs and shorts are judged alike.        *)
(***************************************************************************)
EXTENDS Shadow, FiniteSetTheorems, SequenceTheorems, WellFoundedInduction, TLAPS

(* The calls of a list of observations, and that they are in order.        *)
CallsOf(rows) == {rows[i].call : i \in DOMAIN rows}
Increasing(rows) == \A i, j \in DOMAIN rows : i < j => rows[i].call < rows[j].call

(* CallsAccounted with k calls ended.                                      *)
Accounted(j, t, u, k) ==
  /\ CallsOf(j) \union u = 1..k
  /\ CallsOf(j) \cap u = {}
  /\ CallsOf(t) \subseteq 1..k
  /\ Increasing(j) /\ Increasing(t)
  /\ \A i \in DOMAIN t, n \in DOMAIN j : t[i].call = j[n].call => t[i] = j[n]

(* A row of a fault or of a session that was not ready is a gap.           *)
Obstructed(r) == r.fault \in {"network", "missing_field", "stale"} \/ r.status # "ready"
Honest(r) == Obstructed(r) => r.gap /\ r.hard_gate /\ ~r.candidate
AllHonest(rows) == \A i \in DOMAIN rows : Honest(rows[i])

Ended == IF pc = "idle" THEN calls ELSE calls - 1

(* A call in progress passed the watermark and the faults that end it.     *)
Running ==
  pc # "idle" => /\ calls >= 1 /\ call.status = "ready"
                 /\ call.fault \notin {"network", "missing_field", "stale"}

Analyzed == pc \in {"again", "analyzed"} => ctx \in Contexts /\ analysis = Analyze(ctx)

Inv ==
  /\ TypeOK /\ Running /\ Analyzed
  /\ Accounted(journal, table, unrecorded, Ended)
  /\ AllHonest(journal) /\ AllHonest(table)
-----------------------------------------------------------------------------
(* A row appended to a list of earlier calls.                              *)
LEMMA Appended ==
  ASSUME NEW rows \in Seq(Rows), NEW o \in Rows, NEW k \in Nat, o.call = k + 1,
         Increasing(rows), CallsOf(rows) \subseteq 1..k, AllHonest(rows), Honest(o)
  PROVE  /\ Append(rows, o) \in Seq(Rows)
         /\ Increasing(Append(rows, o))
         /\ CallsOf(Append(rows, o)) = CallsOf(rows) \union {k + 1}
         /\ AllHonest(Append(rows, o))
<1>1. PICK all : all = Append(rows, o)  OBVIOUS
<1>2. PICK n \in Nat : n = Len(rows)  BY LenProperties
<1>3. /\ all \in Seq(Rows) /\ DOMAIN rows = 1..n /\ DOMAIN all = 1..(n + 1)
      /\ all[n + 1] = o /\ \A i \in 1..n : all[i] = rows[i]
  BY <1>1, <1>2, AppendProperties, LenProperties
<1>4. \A i \in 1..n : rows[i].call \in 1..k
  BY <1>3 DEF CallsOf
<1>5. Increasing(all)
  <2> SUFFICES ASSUME NEW i \in 1..(n + 1), NEW j \in 1..(n + 1), i < j
               PROVE  all[i].call < all[j].call
    BY <1>3 DEF Increasing
  <2>1. i \in 1..n  OBVIOUS
  <2>2. CASE j = n + 1
    BY <2>1, <2>2, <1>3, <1>4
  <2>3. CASE j \in 1..n
    BY <2>1, <2>3, <1>3 DEF Increasing
  <2>q. QED
    BY <2>2, <2>3
<1>6. CallsOf(all) = CallsOf(rows) \union {k + 1}
  <2>1. ASSUME NEW x \in CallsOf(all)
        PROVE  x \in CallsOf(rows) \union {k + 1}
    <3>1. PICK i \in 1..(n + 1) : x = all[i].call  BY <1>3 DEF CallsOf
    <3>q. QED  BY <3>1, <1>3 DEF CallsOf
  <2>2. ASSUME NEW x \in CallsOf(rows)
        PROVE  x \in CallsOf(all)
    <3>1. PICK i \in 1..n : x = rows[i].call  BY <1>3 DEF CallsOf
    <3>2. i \in DOMAIN all /\ x = all[i].call  BY <3>1, <1>3
    <3>q. QED  BY <3>2 DEF CallsOf
  <2>3. n + 1 \in DOMAIN all /\ all[n + 1].call = k + 1  BY <1>3
  <2>4. k + 1 \in CallsOf(all)  BY <2>3 DEF CallsOf
  <2>q. QED
    BY <2>1, <2>2, <2>4
<1>7. AllHonest(all)
  <2> SUFFICES ASSUME NEW i \in 1..(n + 1)  PROVE Honest(all[i])
    BY <1>3 DEF AllHonest
  <2>1. CASE i = n + 1  BY <2>1, <1>3
  <2>2. CASE i \in 1..n  BY <2>2, <1>3 DEF AllHonest
  <2>q. QED  BY <2>1, <2>2
<1>q. QED
  BY <1>1, <1>3, <1>5, <1>6, <1>7

(* A call that is recorded, whether or not its row reaches the table.      *)
LEMMA RecordedIsAccounted ==
  ASSUME NEW j \in Seq(Rows), NEW t \in Seq(Rows), NEW u, NEW k \in Nat,
         Accounted(j, t, u, k), AllHonest(j), AllHonest(t),
         NEW o \in Rows, o.call = k + 1, Honest(o),
         NEW t2 \in {t, Append(t, o)}
  PROVE  /\ Append(j, o) \in Seq(Rows) /\ t2 \in Seq(Rows)
         /\ Accounted(Append(j, o), t2, u, k + 1)
         /\ AllHonest(Append(j, o)) /\ AllHonest(t2)
<1> PICK j2 : j2 = Append(j, o)  OBVIOUS
<1>1. CallsOf(j) \subseteq 1..k /\ CallsOf(t) \subseteq 1..k /\ u \subseteq 1..k
  BY DEF Accounted
<1>2. /\ j2 \in Seq(Rows) /\ Increasing(j2) /\ AllHonest(j2)
      /\ CallsOf(j2) = CallsOf(j) \union {k + 1}
  BY <1>1, Appended DEF Accounted
<1>3. /\ Append(t, o) \in Seq(Rows) /\ Increasing(Append(t, o)) /\ AllHonest(Append(t, o))
      /\ CallsOf(Append(t, o)) = CallsOf(t) \union {k + 1}
  BY <1>1, Appended DEF Accounted
<1>4. /\ t2 \in Seq(Rows) /\ Increasing(t2) /\ AllHonest(t2)
      /\ CallsOf(t2) \subseteq CallsOf(t) \union {k + 1}
  BY <1>3 DEF Accounted
<1>5. 1..(k + 1) = (1..k) \union {k + 1} /\ k + 1 \notin 1..k
  OBVIOUS
<1>6. ASSUME NEW x \in DOMAIN t2, NEW n \in DOMAIN j2, t2[x].call = j2[n].call
      PROVE  t2[x] = j2[n]
  <2>1. /\ DOMAIN j = 1..Len(j) /\ DOMAIN j2 = 1..(Len(j) + 1) /\ Len(j) \in Nat
        /\ j2[Len(j) + 1] = o /\ \A i \in 1..Len(j) : j2[i] = j[i]
    BY AppendProperties, LenProperties
  <2>2. /\ DOMAIN t = 1..Len(t) /\ DOMAIN Append(t, o) = 1..(Len(t) + 1) /\ Len(t) \in Nat
        /\ Append(t, o)[Len(t) + 1] = o /\ \A i \in 1..Len(t) : Append(t, o)[i] = t[i]
    BY AppendProperties, LenProperties
  <2>3. t2[x] = o \/ (x \in DOMAIN t /\ t2[x] = t[x])
    <3>1. CASE t2 = t  BY <3>1
    <3>2. CASE t2 = Append(t, o)  BY <3>2, <2>2
    <3>q. QED  BY <3>1, <3>2
  <2>4. j2[n] = o \/ (n \in DOMAIN j /\ j2[n] = j[n])
    BY <2>1
  <2>5. ASSUME NEW i \in DOMAIN t  PROVE t[i].call # k + 1
    BY <1>1, <1>5 DEF CallsOf
  <2>6. ASSUME NEW i \in DOMAIN j  PROVE j[i].call # k + 1
    BY <1>1, <1>5 DEF CallsOf
  <2>q. QED
    BY <2>3, <2>4, <2>5, <2>6, <1>6 DEF Accounted
<1>7. CallsOf(j2) \union u = 1..(k + 1)
  BY <1>2, <1>5 DEF Accounted
<1>8. CallsOf(j2) \cap u = {}
  BY <1>2, <1>5, <1>1 DEF Accounted
<1>9. CallsOf(t2) \subseteq 1..(k + 1)
  BY <1>4, <1>5, <1>1
<1>10. Accounted(j2, t2, u, k + 1)
  BY <1>2, <1>4, <1>6, <1>7, <1>8, <1>9 DEF Accounted
<1>q. QED
  BY <1>2, <1>4, <1>10

(* A call that ends without a row.                                         *)
LEMMA UnrecordedIsAccounted ==
  ASSUME NEW j, NEW t, NEW u, NEW k \in Nat, Accounted(j, t, u, k)
  PROVE  Accounted(j, t, u \union {k + 1}, k + 1)
<1>1. 1..(k + 1) = (1..k) \union {k + 1} /\ k + 1 \notin 1..k
  OBVIOUS
<1>q. QED
  BY <1>1, Zenon DEF Accounted

(* The journal is lost and its calls are among the unrecorded.             *)
LEMMA LostIsAccounted ==
  ASSUME NEW j, NEW t, NEW u, NEW k \in Nat, Accounted(j, t, u, k)
  PROVE  Accounted(<<>>, t, u \union CallsOf(j), k)
<1>1. DOMAIN <<>> = {}  OBVIOUS
<1>2. CallsOf(<<>>) = {} /\ Increasing(<<>>)
  BY <1>1 DEF CallsOf, Increasing
<1>q. QED
  BY <1>1, <1>2, Zenon DEF Accounted
-----------------------------------------------------------------------------
(* What the watermark says.                                                *)
LEMMA StatusIsKnown ==
  ASSUME NEW exchange, NEW session, NEW now, NEW settlement
  PROVE  evaluate_watermark(exchange, session, now, settlement) \in Statuses \union {"ValueError"}
BY DEF evaluate_watermark, Statuses

(* The injected stale fault keeps a session from being ready.              *)
LEMMA StaleIsNotReady ==
  ASSUME NEW exchange, NEW session \in Int, NEW now \in Int, NEW settlement
  PROVE  evaluate_watermark(exchange, session, now, Settlement(session, settlement, "stale"))
           # "ready"
<1>1. Close(session - 3) = 2 * (session - 3) + 1  BY DEF Close
<1>2. Close(session - 3) \in Int /\ Day(Close(session - 3)) < session
  BY <1>1 DEF Day
<1>3. Settlement(session, settlement, "stale") = Close(session - 3)
  BY DEF Settlement
<1>q. QED
  BY <1>2, <1>3 DEF evaluate_watermark

(* The gates of an analysis are a truth value.                             *)
LEMMA GatesAreBoolean ==
  ASSUME NEW context
  PROVE  Analyze(context).risk.hard_gate_triggered \in BOOLEAN
BY DEF Analyze, Judged, Judgement, Assessment, Conclusion, assess_risk
-----------------------------------------------------------------------------
LEMMA InvInit == Init => Inv
<1> SUFFICES ASSUME Init  PROVE Inv
  OBVIOUS
<1>1. TypeOK
  BY ShadowAssumption DEF Init, TypeOK, NoCall, Faults
<1>2. DOMAIN <<>> = {} /\ 1..0 = {}
  OBVIOUS
<1>3. Accounted(journal, table, unrecorded, Ended)
  BY <1>2 DEF Init, Accounted, Ended, CallsOf, Increasing
<1>q. QED
  BY <1>1, <1>2, <1>3 DEF Init, Inv, Running, Analyzed, AllHonest

(* What a record leaves behind: of the call that is in progress when k     *)
(* calls had ended.                                                        *)
LEMMA RecordKeeps ==
  ASSUME Inv, NEW o \in Rows, NEW k \in Nat, Ended = k, o.call = k + 1, Honest(o),
         calls' = k + 1, k + 1 <= MaxCalls, Record(o)
  PROVE  Inv'
<1>1. /\ journal \in Seq(Rows) /\ table \in Seq(Rows) /\ unrecorded \subseteq 1..calls
      /\ Accounted(journal, table, unrecorded, k) /\ AllHonest(journal) /\ AllHonest(table)
  BY DEF Inv, TypeOK
<1>2. /\ journal' = Append(journal, o) /\ table' \in {table, Append(table, o)}
      /\ pc' = "idle" /\ call' = NoCall /\ ctx' = None /\ unrecorded' = unrecorded
  BY DEF Record
<1>3. /\ journal' \in Seq(Rows) /\ table' \in Seq(Rows)
      /\ Accounted(journal', table', unrecorded', k + 1)
      /\ AllHonest(journal') /\ AllHonest(table')
  BY <1>1, <1>2, RecordedIsAccounted
<1>4. unrecorded' \subseteq 1..(k + 1)
  BY <1>3 DEF Accounted
<1>5. call' \in [fault : Faults, status : Statuses \union {None}]
  BY <1>2 DEF NoCall, Faults
<1>6. calls' \in 0..MaxCalls
  BY ShadowAssumption
<1>7. TypeOK'
  BY <1>2, <1>3, <1>4, <1>5, <1>6 DEF TypeOK
<1>8. Ended' = k + 1
  BY <1>2 DEF Ended
<1>q. QED
  BY <1>2, <1>3, <1>7, <1>8 DEF Inv, Running, Analyzed

LEMMA KeptByRunSession ==
  ASSUME Inv, NEW exchange \in Exchanges, NEW session \in Sessions, NEW now \in Instants,
         NEW settlement \in Instants \union {None}, NEW fault \in Faults,
         RunSession(exchange, session, now, settlement, fault)
  PROVE  Inv'
<1> DEFINE seen == evaluate_watermark(exchange, session, now,
                                      Settlement(session, settlement, fault))
<1>1. PICK status \in Statuses \union {"ValueError"} : status = seen
  BY StatusIsKnown
<1>2. PICK c : c = [fault |-> fault, status |-> status]
  OBVIOUS
<1>3. session \in Int /\ now \in Int
  BY ShadowAssumption
<1>4. fault = "stale" => status # "ready"
  BY <1>1, <1>3, StaleIsNotReady
<1>5. /\ pc = "idle" /\ calls < MaxCalls /\ calls \in Nat /\ calls' = calls + 1 /\ Ended = calls
  BY DEF RunSession, Inv, TypeOK, Ended
<1>6. CASE /\ status # "ValueError" /\ Blocked(c)
           /\ fault \in {"network", "missing_field"} \/ status # "ready"
  <2>1. PICK o : o = Observation(c, TRUE, TRUE, FALSE)
    OBVIOUS
  <2>2. o \in Rows /\ o.call = calls + 1 /\ Honest(o)
    BY <2>1, <1>2, <1>5, <1>6, ShadowAssumption DEF Observation, Rows, Honest
  <2>3. Record(o)
    BY <2>1, <1>6 DEF Blocked
  <2>q. QED
    BY <2>2, <2>3, <1>5, ShadowAssumption, RecordKeeps
<1>7. CASE /\ fault \notin {"network", "missing_field"} /\ status = "ready"
           /\ pc' = "analyzing" /\ call' = c
           /\ UNCHANGED <<ctx, analysis, journal, table, unrecorded>>
  <2>1. TypeOK'
    <3>1. call' \in [fault : Faults, status : Statuses \union {None}]
      BY <1>7, <1>2
    <3>2. calls' \in 0..MaxCalls /\ unrecorded' \subseteq 1..calls'
      BY <1>7, <1>5, ShadowAssumption DEF Inv, TypeOK
    <3>q. QED
      BY <3>1, <3>2, <1>7 DEF Inv, TypeOK
  <2>2. Running'
    BY <1>7, <1>2, <1>4, <1>5 DEF Running
  <2>3. Ended' = Ended
    BY <1>7, <1>5 DEF Ended
  <2>q. QED
    BY <2>1, <2>2, <2>3, <1>7 DEF Inv, Analyzed
<1>8. CASE /\ unrecorded' = unrecorded \union {calls'}
           /\ UNCHANGED <<pc, call, ctx, analysis, journal, table>>
  <2>1. PICK k \in Nat : k = calls
    BY <1>5
  <2>2. Accounted(journal, table, unrecorded \union {k + 1}, k + 1)
    BY <1>5, <2>1, UnrecordedIsAccounted DEF Inv
  <2>3. unrecorded' = unrecorded \union {k + 1} /\ calls' = k + 1 /\ k + 1 <= MaxCalls
    BY <1>5, <1>8, <2>1, ShadowAssumption
  <2>4. TypeOK'
    <3>1. calls' \in 0..MaxCalls /\ unrecorded' \subseteq 1..calls'
      BY <2>1, <2>3, ShadowAssumption DEF Inv, TypeOK
    <3>q. QED
      BY <3>1, <1>8 DEF Inv, TypeOK
  <2>5. Ended' = k + 1
    BY <1>5, <1>8, <2>3 DEF Ended
  <2>q. QED
    BY <2>2, <2>3, <2>4, <2>5, <1>5, <1>8 DEF Inv, Running, Analyzed
<1>q. QED
  BY <1>1, <1>2, <1>6, <1>7, <1>8 DEF RunSession

LEMMA KeptByAnalyzeReturns ==
  ASSUME Inv, NEW context \in Contexts, AnalyzeReturns(context)
  PROVE  Inv'
<1>1. /\ pc = "analyzing" /\ ctx' = context /\ analysis' = Analyze(context)
      /\ pc' \in {"again", "analyzed"}
      /\ calls' = calls /\ call' = call /\ journal' = journal /\ table' = table
      /\ unrecorded' = unrecorded
  BY DEF AnalyzeReturns
<1>2. TypeOK'
  BY <1>1 DEF Inv, TypeOK
<1>3. Running' /\ Analyzed' /\ Ended' = Ended
  BY <1>1 DEF Inv, Running, Analyzed, Ended
<1>q. QED
  BY <1>1, <1>2, <1>3 DEF Inv

LEMMA KeptByAnalyzeAgain ==
  ASSUME Inv, AnalyzeAgain
  PROVE  Inv'
<1>1. TypeOK'
  BY DEF AnalyzeAgain, Inv, TypeOK
<1>2. Running' /\ Analyzed' /\ Ended' = Ended
  BY DEF AnalyzeAgain, Inv, Running, Analyzed, Ended
<1>q. QED
  BY <1>1, <1>2 DEF Inv, AnalyzeAgain

(* A call in progress is the one after those that have ended.              *)
LEMMA InProgress ==
  ASSUME Inv, pc # "idle"
  PROVE  /\ calls \in Nat /\ calls >= 1 /\ calls <= MaxCalls /\ MaxCalls \in Nat
         /\ calls - 1 \in Nat /\ Ended = calls - 1
         /\ call \in [fault : Faults, status : Statuses \union {None}] /\ call.status = "ready"
         /\ call.fault \in Faults \ {"network", "missing_field", "stale"}
BY ShadowAssumption DEF Inv, TypeOK, Running, Ended

LEMMA KeptByAnalyzeTimesOut ==
  ASSUME Inv, AnalyzeTimesOut
  PROVE  Inv'
<1>1. pc # "idle" /\ calls' = calls
  BY DEF AnalyzeTimesOut
<1>2. PICK k \in Nat : k = calls - 1
  BY <1>1, InProgress
<1>3. PICK o : o = Observation([call EXCEPT !.fault = "timeout"], TRUE, TRUE, FALSE)
  OBVIOUS
<1>4. /\ o.call = k + 1 /\ o.fault = "timeout" /\ o.status = "ready" /\ o.gap /\ o.hard_gate
      /\ ~o.candidate
  BY <1>1, <1>2, <1>3, InProgress DEF Observation
<1>5. o \in Rows
  BY <1>1, <1>2, <1>3, InProgress DEF Observation, Rows, Faults, Statuses
<1>6. Record(o)
  BY <1>3 DEF AnalyzeTimesOut, Blocked
<1>q. QED
  BY <1>1, <1>2, <1>4, <1>5, <1>6, InProgress, RecordKeeps DEF Honest

LEMMA KeptByRecordAnalysis ==
  ASSUME Inv, RecordAnalysis
  PROVE  Inv'
<1>1. pc = "analyzed" /\ calls' = calls
  BY DEF RecordAnalysis
<1>2. PICK k \in Nat : k = calls - 1
  BY <1>1, InProgress
<1>3. PICK gated \in BOOLEAN : gated = analysis.risk.hard_gate_triggered
  BY <1>1, GatesAreBoolean DEF Inv, Analyzed
<1>4. PICK candidate \in BOOLEAN : candidate = IsCandidate
  BY Zenon DEF IsCandidate
<1>5. PICK o : o = Observation(call, FALSE, gated, candidate)
  OBVIOUS
<1>6. /\ o.call = k + 1 /\ o.fault = call.fault /\ o.status = "ready"
  BY <1>1, <1>2, <1>5, InProgress DEF Observation
<1>7. o \in Rows
  BY <1>1, <1>2, <1>5, InProgress DEF Observation, Rows, Statuses
<1>8. Honest(o)
  BY <1>1, <1>6, InProgress DEF Honest, Obstructed
<1>9. Record(o)
  BY <1>3, <1>4, <1>5, Zenon DEF RecordAnalysis
<1>q. QED
  BY <1>1, <1>2, <1>6, <1>7, <1>8, <1>9, InProgress, RecordKeeps

LEMMA KeptByAnalyzeFails ==
  ASSUME Inv, AnalyzeFails
  PROVE  Inv'
<1>1. /\ pc # "idle" /\ pc' = "idle" /\ call' = NoCall /\ ctx' = None
      /\ unrecorded' = unrecorded \union {calls}
      /\ calls' = calls /\ journal' = journal /\ table' = table
  BY DEF AnalyzeFails
<1>2. PICK k \in Nat : k = calls - 1 /\ calls = k + 1
  BY <1>1, InProgress
<1>3. Accounted(journal, table, unrecorded \union {k + 1}, k + 1)
  BY <1>1, <1>2, InProgress, UnrecordedIsAccounted DEF Inv
<1>4. Ended' = k + 1
  BY <1>1, <1>2 DEF Ended
<1>5. TypeOK'
  <2>1. calls' \in 0..MaxCalls /\ unrecorded' \subseteq 1..calls'
    BY <1>1, InProgress DEF Inv, TypeOK
  <2>q. QED
    BY <1>1, <2>1 DEF Inv, TypeOK, NoCall, Faults
<1>q. QED
  BY <1>1, <1>2, <1>3, <1>4, <1>5 DEF Inv, Running, Analyzed

LEMMA KeptByCrash ==
  ASSUME Inv, Crash
  PROVE  Inv'
<1>1. /\ unrecorded' = unrecorded \union CallsOf(journal) \union OnlyIf(pc # "idle", {calls})
      /\ journal' = <<>> /\ pc' = "idle" /\ call' = NoCall /\ ctx' = None
      /\ calls' = calls /\ table' = table
  BY DEF Crash, CallsOf
<1>2. Ended \in Nat /\ calls \in Nat
  BY InProgress DEF Inv, TypeOK, Ended
<1>3. PICK k \in Nat : k = Ended
  BY <1>2
<1>4. PICK u : u = unrecorded \union CallsOf(journal)
  OBVIOUS
<1>5. Accounted(<<>>, table, u, k)
  BY <1>3, <1>4, LostIsAccounted DEF Inv
<1>6. Ended' = calls
  BY <1>1 DEF Ended
<1>7. Accounted(<<>>, table, unrecorded', calls)
  <2>1. CASE pc = "idle"
    BY <2>1, <1>1, <1>3, <1>4, <1>5 DEF Ended, OnlyIf
  <2>2. CASE pc # "idle"
    <3>1. calls = k + 1 /\ unrecorded' = u \union {k + 1}
      BY <2>2, <1>1, <1>2, <1>3, <1>4 DEF Ended, OnlyIf
    <3>q. QED
      BY <3>1, <1>5, UnrecordedIsAccounted
  <2>q. QED
    BY <2>1, <2>2
<1>8. TypeOK'
  <2>1. unrecorded' \subseteq 1..calls
    BY <1>7 DEF Accounted
  <2>2. <<>> \in Seq(Rows)
    OBVIOUS
  <2>q. QED
    BY <1>1, <2>1, <2>2 DEF Inv, TypeOK, NoCall, Faults
<1>9. AllHonest(<<>>)
  BY DEF AllHonest
<1>q. QED
  BY <1>1, <1>6, <1>7, <1>8, <1>9 DEF Inv, Running, Analyzed

LEMMA InvStep == Inv /\ [Next]_vars => Inv'
<1> SUFFICES ASSUME Inv, [Next]_vars  PROVE Inv'
  OBVIOUS
<1>1. CASE UNCHANGED vars
  BY <1>1 DEF vars, Inv, TypeOK, Running, Analyzed, Ended
<1>2. CASE Next
  BY <1>2, KeptByRunSession, KeptByAnalyzeReturns, KeptByAnalyzeAgain, KeptByAnalyzeTimesOut,
     KeptByAnalyzeFails, KeptByRecordAnalysis, KeptByCrash DEF Next
<1>q. QED
  BY <1>1, <1>2

LEMMA InvAlways == Spec => []Inv
BY InvInit, InvStep, PTL DEF Spec
-----------------------------------------------------------------------------
(* The state of a shadow process keeps its types (Shadow's TypeOK).        *)
THEOREM TypeCorrect == Spec => []TypeOK
<1>1. Inv => TypeOK
  BY DEF Inv
<1>q. QED
  BY <1>1, InvAlways, PTL

(* Every call of run_session that has ended left one observation in the    *)
(* journal, or none because its exchange has no watermark, analyze()       *)
(* raised something other than a timeout or the process died; the table    *)
(* holds rows of the journal in the order of the calls.                    *)
THEOREM CallsAreAccounted == Spec => []CallsAccounted
<1>1. Inv => CallsAccounted
  <2> SUFFICES ASSUME Inv  PROVE CallsAccounted
    OBVIOUS
  <2>1. Accounted(journal, table, unrecorded, Ended)
    BY DEF Inv
  <2>2. (IF pc = "idle" THEN 1..calls ELSE 1..(calls - 1)) = 1..Ended
    BY DEF Ended
  <2>q. QED
    BY <2>1, <2>2, Zenon DEF CallsAccounted, Accounted, CallsOf, Increasing
<1>q. QED
  BY <1>1, InvAlways, PTL

(* An observation of an outage, a missing field, a stale settlement or a   *)
(* session that is not ready is a gap without a candidate, and pages; a    *)
(* candidate observed under any other fault pages too.                     *)
THEOREM FaultsAreRecordedAsGaps == Spec => []FaultsAreGaps
<1>1. Inv => FaultsAreGaps
  <2> SUFFICES ASSUME Inv  PROVE FaultsAreGaps
    OBVIOUS
  <2>1. ASSUME NEW r \in {journal[i] : i \in DOMAIN journal} \union {table[i] : i \in DOMAIN table},
               Obstructed(r)
        PROVE  r.gap /\ r.hard_gate /\ ~r.candidate
    <3>1. Honest(r)
      BY DEF Inv, AllHonest
    <3>q. QED
      BY <3>1, <2>1 DEF Honest
  <2>2. ASSUME NEW i \in DOMAIN journal, Obstructed(journal[i])
        PROVE  "shadow_gap" \in Alerts
    <3>1. journal[i].gap
      BY <2>1, <2>2
    <3>q. QED
      BY <3>1 DEF Alerts, OnlyIf
  <2>3. ASSUME NEW i \in DOMAIN journal, journal[i].candidate, journal[i].fault # "none"
        PROVE  "candidate_emitted_during_fault" \in Alerts
    BY <2>3 DEF Alerts, OnlyIf
  <2>q. QED
    BY <2>1, <2>2, <2>3 DEF FaultsAreGaps, Obstructed
<1>q. QED
  BY <1>1, InvAlways, PTL
-----------------------------------------------------------------------------
(* How far sums of a function over a finite set are known:                 *)
(* SumFunctionOnSet is defined by recursion on the set, and its function   *)
(* exists because it exists up to n elements for every n.                  *)

(* A bounded set of naturals has a greatest element.                       *)
LEMMA Greatest ==
  ASSUME NEW S \in SUBSET Nat, S # {}, NEW b \in Nat, \A s \in S : s <= b
  PROVE  \E m \in S : \A s \in S : s <= m
<1> DEFINE T == {s..b : s \in S}
           R == StrictSubsetOrdering(0..b)
<1>1. T \subseteq FiniteSubsetsOf(0..b) /\ T # {}
  <2>1. IsFiniteSet(0..b)
    BY FS_Interval
  <2>2. ASSUME NEW s \in S PROVE s..b \in FiniteSubsetsOf(0..b)
    <3>1. s..b \in SUBSET (0..b)
      OBVIOUS
    <3>2. QED
      BY <3>1, <2>1, FS_Subset DEF FiniteSubsetsOf
  <2>3. QED
    BY <2>2
<1>2. IsWellFoundedOn(R, FiniteSubsetsOf(0..b))
  BY FS_StrictSubsetOrderingWellFounded
<1>3. PICK x \in T : \A y \in T : <<y, x>> \notin R
  <2> HIDE DEF T, R
  <2>1. QED
    BY <1>1, <1>2, WFMin
<1>4. PICK m \in S : x = m..b
  OBVIOUS
<1>5. \A s \in S : s <= m
  <2> SUFFICES ASSUME NEW s \in S, s > m PROVE FALSE
    OBVIOUS
  <2>1. /\ s..b \in SUBSET (0..b) /\ m..b \in SUBSET (0..b)
        /\ s..b \subseteq m..b
        /\ m \in m..b /\ m \notin s..b
    OBVIOUS
  <2>2. <<s..b, m..b>> \in R
    BY <2>1 DEF StrictSubsetOrdering
  <2>3. QED
    BY <2>2, <1>3, <1>4
<1>6. QED
  BY <1>5

(* Induction up to n, over a set for want of a predicate.                  *)
LEMMA UpTo ==
  ASSUME NEW n \in Nat, NEW S, 0 \in S, \A k \in 0..(n - 1) : k \in S => k + 1 \in S
  PROVE  0..n \subseteq S
<1> DEFINE U == {k \in 0..n : 0..k \subseteq S}
<1>1. PICK m \in U : \A k \in U : k <= m
  <2>1. U \in SUBSET Nat /\ 0 \in U /\ \A k \in U : k <= n
    OBVIOUS
  <2> QED
    BY <2>1, Greatest
<1>2. CASE m = n
  BY <1>2
<1>3. CASE m # n
  <2>1. m \in 0..(n - 1) /\ 0..m \subseteq S
    BY <1>3
  <2>2. m + 1 \in S
    BY <2>1
  <2>3. 0..(m + 1) \subseteq S
    BY <2>1, <2>2
  <2> QED
    BY <1>1, <2>1, <2>3
<1> QED
  BY <1>2, <1>3

Chosen(T) == CHOOSE x \in T : TRUE

(* F adds up f over the subsets of S.                                      *)
IsSum(F, f, S) ==
  F = [T \in SUBSET S |-> IF T = {} THEN 0 ELSE f[Chosen(T)] + F[T \ {Chosen(T)}]]

(* F adds up f over the subsets of S with at most n elements.              *)
Adds(F, f, S, n) ==
  \A T \in SUBSET S : Cardinality(T) <= n =>
    F[T] = IF T = {} THEN 0 ELSE f[Chosen(T)] + F[T \ {Chosen(T)}]

(* A finite set without one of its elements.                               *)
LEMMA OneLess ==
  ASSUME NEW T, IsFiniteSet(T), NEW x \in T
  PROVE  /\ IsFiniteSet(T \ {x}) /\ Cardinality(T) \in Nat
         /\ Cardinality(T \ {x}) = Cardinality(T) - 1
  BY FS_RemoveElement, FS_CardinalityType

(* The recursive function behind a sum exists.                             *)
LEMMA SomeAdds ==
  ASSUME NEW S, IsFiniteSet(S), NEW f
  PROVE  \E F : IsSum(F, f, S)
<1> DEFINE N == Cardinality(S)
           Ok == {n \in 0..N : \E F : F = [T \in SUBSET S |-> F[T]] /\ Adds(F, f, S, n)}
<1>1. N \in Nat
  BY FS_CardinalityType
<1>2. \A T \in SUBSET S : IsFiniteSet(T) /\ Cardinality(T) \in 0..N
  BY FS_Subset, FS_CardinalityType
<1>3. 0 \in Ok
  <2>1. PICK F : F = [T \in SUBSET S |-> 0]
    OBVIOUS
  <2>2. \A T \in SUBSET S : Cardinality(T) <= 0 => T = {}
    BY <1>2, FS_EmptySet
  <2> QED
    BY <2>1, <2>2, <1>1 DEF Adds
<1>4. ASSUME NEW n \in 0..(N - 1), n \in Ok PROVE n + 1 \in Ok
  <2>1. PICK F : F = [T \in SUBSET S |-> F[T]] /\ Adds(F, f, S, n)
    BY <1>4
  <2>2. PICK G : G = [T \in SUBSET S |-> IF Cardinality(T) <= n THEN F[T]
                                         ELSE f[Chosen(T)] + F[T \ {Chosen(T)}]]
    OBVIOUS
  <2>3. ASSUME NEW T \in SUBSET S, Cardinality(T) <= n + 1
        PROVE  G[T] = IF T = {} THEN 0 ELSE f[Chosen(T)] + G[T \ {Chosen(T)}]
    <3>1. CASE T = {}
      <4>1. Cardinality(T) = 0
        BY <3>1, FS_EmptySet
      <4>2. Cardinality(T) <= n
        BY <4>1
      <4>3. G[T] = F[T]
        BY <2>2, <4>2
      <4>4. F[T] = 0
        BY <2>1, <3>1, <4>2, Zenon DEF Adds
      <4> QED
        BY <3>1, <4>3, <4>4
    <3>2. CASE T # {}
      <4>1. PICK x : x = Chosen(T)
        OBVIOUS
      <4>2. x \in T
        BY <3>2, <4>1 DEF Chosen
      <4>3. /\ T \ {x} \in SUBSET S /\ Cardinality(T) \in Nat
            /\ Cardinality(T \ {x}) = Cardinality(T) - 1
        BY <4>2, <1>2, OneLess
      <4>4. Cardinality(T \ {x}) <= n
        BY <4>3, <2>3
      <4>5. G[T \ {x}] = F[T \ {x}]
        BY <2>2, <4>3, <4>4
      <4>6. CASE Cardinality(T) <= n
        BY <2>1, <2>2, <3>2, <4>1, <4>5, <4>6 DEF Adds
      <4>7. CASE ~(Cardinality(T) <= n)
        BY <2>2, <3>2, <4>1, <4>5, <4>7
      <4> QED
        BY <4>6, <4>7
    <3> QED
      BY <3>1, <3>2
  <2>4. Adds(G, f, S, n + 1) /\ G = [T \in SUBSET S |-> G[T]]
    BY <2>2, <2>3 DEF Adds
  <2> QED
    BY <2>4, <1>1
<1>5. N \in Ok
  <2> HIDE DEF Ok, N
  <2>1. 0..N \subseteq Ok
    BY <1>1, <1>3, <1>4, UpTo
  <2> QED  BY <1>1, <2>1
<1>6. PICK F : F = [T \in SUBSET S |-> F[T]] /\ Adds(F, f, S, N)
  BY <1>5
<1>7. ASSUME NEW T \in SUBSET S
      PROVE  F[T] = IF T = {} THEN 0 ELSE f[Chosen(T)] + F[T \ {Chosen(T)}]
  <2>1. Cardinality(T) <= N
    BY <1>1, <1>2
  <2> QED
    BY <1>6, <2>1, Zenon DEF Adds
<1>8. IsSum(F, f, S)
  BY <1>6, <1>7, Zenon DEF IsSum
<1> QED
  BY <1>8

(* SumFunctionOnSet is such a function.                                    *)
LEMMA SumIs ==
  ASSUME NEW S, IsFiniteSet(S), NEW f
  PROVE  \E F : IsSum(F, f, S) /\ SumFunctionOnSet(f, S) = F[S]
<1> DEFINE G == CHOOSE F : IsSum(F, f, S)
<1>1. SumFunctionOnSet(f, S) = G[S]
  BY DEF SumFunctionOnSet, FoldFunctionOnSet, MapThenFoldSet, Chosen, IsSum
<1>2. IsSum(G, f, S)
  <2>1. \E F : IsSum(F, f, S)
    BY SomeAdds
  <2> QED
    BY <2>1, Zenon
<1> QED
  BY <1>1, <1>2

(* The recursion by which SumFunctionOnSet is computed: it takes away the  *)
(* elements in the order in which they are chosen.                         *)
LEMMA SumStep ==
  ASSUME NEW S, IsFiniteSet(S), NEW f
  PROVE  SumFunctionOnSet(f, S) = IF S = {} THEN 0
                                  ELSE f[Chosen(S)] + SumFunctionOnSet(f, S \ {Chosen(S)})
<1>0. PICK F : IsSum(F, f, S) /\ SumFunctionOnSet(f, S) = F[S]
  BY SumIs
<1>1. /\ SumFunctionOnSet(f, S) = F[S]
      /\ \A T \in SUBSET S : F[T] = IF T = {} THEN 0 ELSE f[Chosen(T)] + F[T \ {Chosen(T)}]
  <2>1. F = [T \in SUBSET S |-> IF T = {} THEN 0 ELSE f[Chosen(T)] + F[T \ {Chosen(T)}]]
    BY <1>0 DEF IsSum
  <2> QED
    BY <1>0, <2>1, Zenon
<1>2. CASE S = {}
  BY <1>1, <1>2
<1>3. CASE S # {}
  <2>1. PICK R : R = S \ {Chosen(S)}
    OBVIOUS
  <2>2. R \in SUBSET S /\ IsFiniteSet(R)
    BY <2>1, FS_Subset
  <2>0. PICK G : IsSum(G, f, R) /\ SumFunctionOnSet(f, R) = G[R]
    BY <2>2, SumIs
  <2>3. /\ SumFunctionOnSet(f, R) = G[R]
        /\ \A T \in SUBSET R : G[T] = IF T = {} THEN 0 ELSE f[Chosen(T)] + G[T \ {Chosen(T)}]
    <3>1. G = [T \in SUBSET R |-> IF T = {} THEN 0 ELSE f[Chosen(T)] + G[T \ {Chosen(T)}]]
      BY <2>0 DEF IsSum
    <3> QED
      BY <2>0, <3>1, Zenon
  <2> DEFINE N == Cardinality(R)
             Same == {n \in 0..N : \A T \in SUBSET R : Cardinality(T) <= n => F[T] = G[T]}
  <2>4. N \in Nat /\ \A T \in SUBSET R : IsFiniteSet(T) /\ Cardinality(T) \in 0..N
    BY <2>2, FS_Subset, FS_CardinalityType
  <2>5. F[{}] = G[{}]
    BY <1>1, <2>3
  <2>6. 0 \in Same
    <3>1. \A T \in SUBSET R : Cardinality(T) <= 0 => T = {}
      BY <2>4, FS_EmptySet
    <3> QED
      BY <2>4, <2>5, <3>1
  <2>7. ASSUME NEW n \in 0..(N - 1), n \in Same PROVE n + 1 \in Same
    <3>1. ASSUME NEW T \in SUBSET R, Cardinality(T) <= n + 1, T # {}
          PROVE  F[T] = G[T]
      <4>1. PICK x : x = Chosen(T)
        OBVIOUS
      <4>2. x \in T
        BY <3>1, <4>1 DEF Chosen
      <4>3. T \ {x} \in SUBSET R /\ Cardinality(T \ {x}) <= n
        BY <2>4, <3>1, <4>2, OneLess
      <4>4. F[T \ {x}] = G[T \ {x}]
        BY <2>7, <4>3
      <4>5. T \in SUBSET S
        BY <2>2
      <4>6. F[T] = f[x] + F[T \ {x}]
        BY <1>1, <3>1, <4>1, <4>5
      <4>7. G[T] = f[x] + G[T \ {x}]
        BY <2>3, <3>1, <4>1
      <4> QED
        BY <4>4, <4>6, <4>7
    <3>2. n + 1 \in 0..N
      BY <2>4
    <3> QED
      BY <2>5, <3>1, <3>2
  <2>8. N \in Same
    <3> HIDE DEF Same, N
    <3>1. 0..N \subseteq Same
      BY <2>4, <2>6, <2>7, UpTo
    <3> QED
      BY <2>4, <3>1
  <2>9. F[R] = G[R]
    <3>1. Cardinality(R) <= N /\ R \in SUBSET R
      BY <2>4
    <3> QED
      BY <2>8, <3>1
  <2>10. F[S] = f[Chosen(S)] + F[R]
    BY <1>1, <1>3, <2>1
  <2> QED
    BY <1>1, <1>3, <2>1, <2>3, <2>9, <2>10
<1> QED
  BY <1>2, <1>3

(* A sum of integers is an integer, and any element can be taken away.     *)
LEMMA SumRemove ==
  ASSUME NEW S, IsFiniteSet(S), NEW f, \A s \in S : f[s] \in Int
  PROVE  /\ SumFunctionOnSet(f, S) \in Int
         /\ \A x \in S : SumFunctionOnSet(f, S) = f[x] + SumFunctionOnSet(f, S \ {x})
<1> DEFINE Sum(T) == SumFunctionOnSet(f, T)
           N == Cardinality(S)
           Good(T) == Sum(T) \in Int /\ \A x \in T : Sum(T) = f[x] + Sum(T \ {x})
           Ok == {n \in 0..N : \A T \in SUBSET S : Cardinality(T) <= n => Good(T)}
<1>1. N \in Nat /\ \A T \in SUBSET S : IsFiniteSet(T) /\ Cardinality(T) \in 0..N
  BY FS_Subset, FS_CardinalityType
<1>2. Good({})
  BY FS_EmptySet, SumStep
<1>3. \A T \in SUBSET S : T # {} => Chosen(T) \in T /\ Sum(T) = f[Chosen(T)] + Sum(T \ {Chosen(T)})
  <2> SUFFICES ASSUME NEW T \in SUBSET S, T # {}
               PROVE  Chosen(T) \in T /\ Sum(T) = f[Chosen(T)] + Sum(T \ {Chosen(T)})
    OBVIOUS
  <2>1. Chosen(T) \in T
    BY DEF Chosen
  <2> QED
    BY <1>1, <2>1, SumStep
<1> HIDE DEF Sum
<1>4. 0 \in Ok
  <2>1. \A T \in SUBSET S : Cardinality(T) <= 0 => T = {}
    BY <1>1, FS_EmptySet
  <2> QED
    BY <1>1, <1>2, <2>1
<1>5. ASSUME NEW n \in 0..(N - 1), n \in Ok PROVE n + 1 \in Ok
  <2>1. ASSUME NEW T \in SUBSET S, Cardinality(T) <= n + 1, T # {}
        PROVE  Good(T)
    <3>1. PICK c \in T : Sum(T) = f[c] + Sum(T \ {c})
      BY <1>3, <2>1
    <3>2. ASSUME NEW y \in T
          PROVE  /\ T \ {y} \in SUBSET S /\ Sum(T \ {y}) \in Int /\ f[y] \in Int
                 /\ \A x \in T \ {y} : Sum(T \ {y}) = f[x] + Sum((T \ {y}) \ {x})
      <4>1. Cardinality(T \ {y}) <= n
        BY <1>1, <2>1, OneLess
      <4>2. T \ {y} \in SUBSET S
        OBVIOUS
      <4>3. Good(T \ {y})
        BY <1>5, <4>1, <4>2
      <4> QED
        BY <4>2, <4>3
    <3>3. ASSUME NEW x \in T PROVE Sum(T) = f[x] + Sum(T \ {x})
      <4>1. CASE x = c
        BY <3>1, <4>1
      <4>2. CASE x # c
        <5>1. Sum(T \ {c}) = f[x] + Sum((T \ {c}) \ {x})
          BY <3>2, <4>2
        <5>2. Sum(T \ {x}) = f[c] + Sum((T \ {x}) \ {c})
          BY <3>2, <4>2
        <5>3. (T \ {c}) \ {x} = (T \ {x}) \ {c}
          OBVIOUS
        <5>4. PICK rest : rest = Sum((T \ {c}) \ {x})
          OBVIOUS
        <5>5. rest \in Int
          <6>1. (T \ {c}) \ {x} \in SUBSET S /\ Cardinality((T \ {c}) \ {x}) <= n
            <7>1. IsFiniteSet(T \ {c}) /\ x \in T \ {c} /\ Cardinality(T \ {c}) = Cardinality(T) - 1
              BY <1>1, <4>2, OneLess
            <7>2. Cardinality((T \ {c}) \ {x}) = Cardinality(T \ {c}) - 1
              BY <7>1, OneLess
            <7> QED
              BY <1>1, <2>1, <7>1, <7>2
          <6> QED
            BY <1>5, <5>4, <6>1
        <5>6. f[x] \in Int /\ f[c] \in Int
          BY <3>2
        <5>7. Sum(T \ {c}) = f[x] + rest /\ Sum(T \ {x}) = f[c] + rest
          BY <5>1, <5>2, <5>3, <5>4, Zenon
        <5> HIDE DEF Good, Ok, N
        <5> QED
          BY <3>1, <5>5, <5>6, <5>7
      <4> QED
        BY <4>1, <4>2
    <3>4. Sum(T) \in Int
      BY <3>1, <3>2
    <3> QED
      BY <3>3, <3>4
  <2>2. n + 1 \in 0..N
    BY <1>1
  <2> HIDE DEF Good
  <2> QED
    BY <1>2, <2>1, <2>2
<1>6. N \in Ok
  <2> HIDE DEF Ok, N
  <2>1. 0..N \subseteq Ok
    BY <1>1, <1>4, <1>5, UpTo
  <2> QED
    BY <1>1, <2>1
<1>7. Good(S)
  <2>1. Cardinality(S) <= N /\ S \in SUBSET S
    BY <1>1
  <2> HIDE DEF Good
  <2> QED
    BY <1>6, <2>1
<1> QED
  BY <1>7 DEF Sum

(* The sum of an opposite function is the opposite.                        *)
LEMMA SumNegated ==
  ASSUME NEW S, IsFiniteSet(S), NEW f, NEW g, \A s \in S : f[s] \in Int /\ g[s] = -f[s]
  PROVE  SumFunctionOnSet(g, S) = -SumFunctionOnSet(f, S)
<1> DEFINE N == Cardinality(S)
           Good(T) == SumFunctionOnSet(g, T) = -SumFunctionOnSet(f, T)
           Ok == {n \in 0..N : \A T \in SUBSET S : Cardinality(T) <= n => Good(T)}
<1>1. N \in Nat /\ \A T \in SUBSET S : IsFiniteSet(T) /\ Cardinality(T) \in 0..N
  BY FS_Subset, FS_CardinalityType
<1>2. Good({})
  BY FS_EmptySet, SumStep
<1>3. 0 \in Ok
  <2>1. \A T \in SUBSET S : Cardinality(T) <= 0 => T = {}
    BY <1>1, FS_EmptySet
  <2> QED
    BY <1>1, <1>2, <2>1
<1>4. ASSUME NEW n \in 0..(N - 1), n \in Ok PROVE n + 1 \in Ok
  <2>1. ASSUME NEW T \in SUBSET S, Cardinality(T) <= n + 1, T # {}
        PROVE  Good(T)
    <3>1. PICK x \in T : TRUE
      BY <2>1
    <3>2. T \ {x} \in SUBSET S /\ Cardinality(T \ {x}) <= n
      BY <1>1, <2>1, OneLess
    <3>3. Good(T \ {x})
      BY <1>4, <3>2
    <3>4. /\ SumFunctionOnSet(f, T) = f[x] + SumFunctionOnSet(f, T \ {x})
          /\ SumFunctionOnSet(f, T \ {x}) \in Int
      <4>1. IsFiniteSet(T) /\ IsFiniteSet(T \ {x}) /\ \A s \in T : f[s] \in Int
        BY <1>1, OneLess
      <4> QED
        BY <4>1, SumRemove
    <3>5. SumFunctionOnSet(g, T) = g[x] + SumFunctionOnSet(g, T \ {x})
      <4>1. IsFiniteSet(T) /\ \A s \in T : g[s] \in Int
        BY <1>1
      <4> QED
        BY <4>1, SumRemove
    <3>6. f[x] \in Int /\ g[x] = -f[x]
      OBVIOUS
    <3> HIDE DEF Ok, N
    <3> QED
      BY <3>3, <3>4, <3>5, <3>6
  <2>2. n + 1 \in 0..N
    BY <1>1
  <2> HIDE DEF Good
  <2> QED
    BY <1>2, <2>1, <2>2
<1>5. N \in Ok
  <2> HIDE DEF Ok, N
  <2>1. 0..N \subseteq Ok
    BY <1>1, <1>3, <1>4, UpTo
  <2> QED
    BY <1>1, <2>1
<1>6. Cardinality(S) <= N /\ S \in SUBSET S
  BY <1>1
<1> HIDE DEF Good
<1>7. Good(S)
  BY <1>5, <1>6
<1> QED
  BY <1>7 DEF Good

(* A sum of natural numbers is at least each of them.                      *)
LEMMA SumNat ==
  ASSUME NEW S, IsFiniteSet(S), NEW f, \A s \in S : f[s] \in Nat
  PROVE  SumFunctionOnSet(f, S) \in Nat /\ \A s \in S : SumFunctionOnSet(f, S) >= f[s]
<1> DEFINE N == Cardinality(S)
           Good(T) == SumFunctionOnSet(f, T) \in Nat
           Ok == {n \in 0..N : \A T \in SUBSET S : Cardinality(T) <= n => Good(T)}
<1>1. N \in Nat /\ \A T \in SUBSET S : IsFiniteSet(T) /\ Cardinality(T) \in 0..N
  BY FS_Subset, FS_CardinalityType
<1>2. Good({})
  <2>1. SumFunctionOnSet(f, {}) = 0
    BY FS_EmptySet, SumStep
  <2> QED
    BY <2>1
<1>r. ASSUME NEW T \in SUBSET S, NEW x \in T
      PROVE  SumFunctionOnSet(f, T) = f[x] + SumFunctionOnSet(f, T \ {x})
  <2>1. IsFiniteSet(T) /\ \A s \in T : f[s] \in Int
    BY <1>1
  <2> QED
    BY <2>1, SumRemove
<1>3. 0 \in Ok
  <2>1. \A T \in SUBSET S : Cardinality(T) <= 0 => T = {}
    BY <1>1, FS_EmptySet
  <2> QED
    BY <1>1, <1>2, <2>1
<1>4. ASSUME NEW n \in 0..(N - 1), n \in Ok PROVE n + 1 \in Ok
  <2>1. ASSUME NEW T \in SUBSET S, Cardinality(T) <= n + 1, T # {}
        PROVE  Good(T)
    <3>1. PICK x \in T : TRUE
      BY <2>1
    <3>2. T \ {x} \in SUBSET S /\ Cardinality(T \ {x}) <= n
      BY <1>1, <2>1, OneLess
    <3>3. Good(T \ {x})
      BY <1>4, <3>2
    <3>4. SumFunctionOnSet(f, T) = f[x] + SumFunctionOnSet(f, T \ {x})
      BY <1>r
    <3>5. f[x] \in Nat
      OBVIOUS
    <3> HIDE DEF Ok, N
    <3> QED
      BY <3>3, <3>4, <3>5
  <2>2. n + 1 \in 0..N
    BY <1>1
  <2> HIDE DEF Good
  <2> QED
    BY <1>2, <2>1, <2>2
<1>5. N \in Ok
  <2> HIDE DEF Ok, N
  <2>1. 0..N \subseteq Ok
    BY <1>1, <1>3, <1>4, UpTo
  <2> QED
    BY <1>1, <2>1
<1>6. \A T \in SUBSET S : Good(T)
  <2>1. \A T \in SUBSET S : Cardinality(T) <= N
    BY <1>1
  <2> HIDE DEF Good
  <2> QED
    BY <1>5, <2>1
<1>7. ASSUME NEW s \in S PROVE SumFunctionOnSet(f, S) >= f[s]
  <2>1. SumFunctionOnSet(f, S) = f[s] + SumFunctionOnSet(f, S \ {s})
    BY <1>r
  <2>2. SumFunctionOnSet(f, S \ {s}) \in Nat /\ f[s] \in Nat
    BY <1>6
  <2> QED
    BY <2>1, <2>2
<1> QED
  BY <1>6, <1>7

(* A finite set of integers has a greatest element, which Max picks.       *)
LEMMA MaxIs ==
  ASSUME NEW S, \A x \in S : x \in Int, IsFiniteSet(S), S # {}
  PROVE  Max(S) \in S
<1> DEFINE N == Cardinality(S)
           Has(T) == \E m \in T : \A x \in T : x <= m
           Ok == {n \in 0..N : \A T \in SUBSET S : T # {} /\ Cardinality(T) <= n => Has(T)}
<1>1. N \in Nat /\ \A T \in SUBSET S : IsFiniteSet(T) /\ Cardinality(T) \in 0..N
  BY FS_Subset, FS_CardinalityType
<1>2. 0 \in Ok
  <2>1. \A T \in SUBSET S : Cardinality(T) <= 0 => T = {}
    BY <1>1, FS_EmptySet
  <2> QED
    BY <1>1, <2>1
<1>3. ASSUME NEW n \in 0..(N - 1), n \in Ok PROVE n + 1 \in Ok
  <2>1. ASSUME NEW T \in SUBSET S, Cardinality(T) <= n + 1, T # {}
        PROVE  Has(T)
    <3>1. PICK x \in T : TRUE
      BY <2>1
    <3>2. CASE T \ {x} = {}
      BY <3>2
    <3>3. CASE T \ {x} # {}
      <4>1. T \ {x} \in SUBSET S /\ Cardinality(T \ {x}) <= n
        BY <1>1, <2>1, OneLess
      <4>2. PICK m \in T \ {x} : \A y \in T \ {x} : y <= m
        BY <1>3, <3>3, <4>1
      <4>3. CASE x <= m
        BY <4>2, <4>3
      <4>4. CASE ~(x <= m)
        <5>1. \A y \in T : y <= x
          BY <4>2, <4>4
        <5> QED
          BY <5>1
      <4> QED
        BY <4>3, <4>4
    <3> QED
      BY <3>2, <3>3
  <2>2. n + 1 \in 0..N
    BY <1>1
  <2> HIDE DEF Has
  <2> QED
    BY <2>1, <2>2
<1>4. N \in Ok
  <2> HIDE DEF Ok, N
  <2>1. 0..N \subseteq Ok
    BY <1>1, <1>2, <1>3, UpTo
  <2> QED
    BY <1>1, <2>1
<1>5. Cardinality(S) <= N /\ S \in SUBSET S
  BY <1>1
<1>6. Has(S)
  <2> HIDE DEF Has
  <2> QED
    BY <1>4, <1>5
<1>7. \E m \in S : \A x \in S : m >= x
  BY <1>6
<1> QED
  BY <1>7 DEF Max
-----------------------------------------------------------------------------
(* The arithmetic of whole points is the same on both sides of zero.       *)

Scores == Int \union {None}
Opposite(x) == IF x = None THEN None ELSE -x

LEMMA AbsIs ==
  ASSUME NEW x \in Int
  PROVE  Abs(x) \in Nat /\ Abs(-x) = Abs(x)
BY DEF Abs

LEMMA SignIs ==
  ASSUME NEW x \in Int, NEW y \in Int
  PROVE  /\ Sign(x) \in {-1, 0, 1} /\ Sign(-x) = -Sign(x)
         /\ Sign(x) * y \in Int /\ Sign(-x) * y = -(Sign(x) * y)
<1>1. CASE x > 0
  BY <1>1 DEF Sign
<1>2. CASE x < 0
  BY <1>2 DEF Sign
<1>3. CASE ~(x > 0) /\ ~(x < 0)
  <2>1. -x = x /\ Sign(x) = x
    BY <1>3 DEF Sign
  <2>2. x \in 0..0 /\ x * y = 0
    BY <1>3
  <2> QED
    BY <2>1, <2>2
<1> QED
  BY <1>1, <1>2, <1>3

LEMMA OverIs ==
  ASSUME NEW a \in Int, NEW b \in Nat \ {0}
  PROVE  Over(a, b) \in Int /\ Over(-a, b) = -Over(a, b)
<1>1. PICK q : q = Abs(a) \div b
  OBVIOUS
<1>2. q \in Int /\ Abs(-a) \div b = q
  BY <1>1, AbsIs
<1>3. Over(a, b) = Sign(a) * q /\ Over(-a, b) = Sign(-a) * q
  BY <1>1, <1>2 DEF Over
<1>4. -a \in Int
  OBVIOUS
<1> QED
  BY <1>2, <1>3, SignIs

LEMMA BoundIs ==
  ASSUME NEW x \in Int, NEW y \in Int
  PROVE  AtMost(x, y) \in Int /\ AtLeast(x, y) \in Int
BY DEF AtMost, AtLeast

LEMMA ClipIs ==
  ASSUME NEW x \in Int, NEW lo \in Int, NEW hi \in Int, lo <= hi
  PROVE  clip(x, lo, hi) \in lo..hi
BY DEF clip, AtMost, AtLeast

LEMMA ClipOdd ==
  ASSUME NEW x \in Int
  PROVE  clip(x, -100, 100) \in Int /\ clip(-x, -100, 100) = -clip(x, -100, 100)
BY DEF clip, AtMost, AtLeast

LEMMA TanhOdd ==
  ASSUME NEW x \in Int
  PROVE  tanh_score(x) \in Int /\ tanh_score(-x) = -tanh_score(x)
<1>1. PICK i : i = AtMost(Abs(x), 4) + 1
  OBVIOUS
<1>2. i \in 1..5
  BY <1>1, AbsIs DEF AtMost
<1>3. PICK y : y = (<<0, 46, 76, 90, 96>>)[i]
  OBVIOUS
<1>4. y \in Int
  <2>1. i = 1 \/ i = 2 \/ i = 3 \/ i = 4 \/ i = 5
    BY <1>2
  <2> QED
    BY <1>3, <2>1
<1>5. tanh_score(x) = Sign(x) * y /\ tanh_score(-x) = Sign(-x) * y
  BY <1>1, <1>3, AbsIs DEF tanh_score
<1> QED
  BY <1>4, <1>5, SignIs

(* The strength of a position is a whole number, its sign the price's.     *)
LEMMA PositioningOdd ==
  ASSUME NEW price \in Int, NEW oi \in Int, NEW volume \in Scores
  PROVE  /\ Positioning(price, oi, volume) \in Int
         /\ Positioning(-price, oi, volume) = -Positioning(price, oi, volume)
<1>1. PICK strength :
        strength = IF oi >= 0 THEN Over(70 * Abs(price) + 30 * Abs(oi), 100)
                   ELSE Over(45 * Abs(price) + 10 * Abs(oi), 100)
  OBVIOUS
<1>2. strength \in Int
  <2>1. PICK p, o \in Nat : p = Abs(price) /\ o = Abs(oi)
    BY AbsIs
  <2>2. 70 * p + 30 * o \in Int /\ 45 * p + 10 * o \in Int /\ 100 \in Nat \ {0}
    BY <2>1
  <2>3. Over(70 * p + 30 * o, 100) \in Int /\ Over(45 * p + 10 * o, 100) \in Int
    BY <2>2, OverIs
  <2> QED
    BY <1>1, <2>1, <2>3
<1>3. PICK size :
        size = IF volume = None THEN strength ELSE Over(90 * strength + 10 * AtLeast(volume, 0), 100)
  OBVIOUS
<1>4. size \in Int
  <2>1. CASE volume = None
    BY <1>2, <1>3, <2>1
  <2>2. CASE volume # None
    <3>1. AtLeast(volume, 0) \in Int
      BY <2>2, BoundIs DEF Scores
    <3>2. 90 * strength + 10 * AtLeast(volume, 0) \in Int /\ 100 \in Nat \ {0}
      BY <1>2, <3>1
    <3> QED
      BY <1>3, <2>2, <3>2, OverIs
  <2> QED
    BY <2>1, <2>2
<1>5. Positioning(price, oi, volume) = Sign(price) * size
  BY <1>1, <1>3 DEF Positioning
<1>6. Positioning(-price, oi, volume) = Sign(-price) * size
  BY <1>1, <1>3, AbsIs DEF Positioning
<1> QED
  BY <1>4, <1>5, <1>6, SignIs
-----------------------------------------------------------------------------
(* A context and its mirror image.                                         *)

Turned == {"short", "mid", "long", "acceleration", "structure", "extension", "ma60", "price",
           "slope", "change", "curvature"}

LEMMA ContextIs ==
  ASSUME NEW c \in MarketContexts
  PROVE  /\ c.horizon \in {"swing", "position"} /\ c.as_of \in Int /\ c.dte \in Int
         /\ c.cont \in Nat /\ c.prices \in Nat /\ c.bars \in Nat /\ c.points \in Nat
         /\ c.eligible \in Nat /\ c.hist \in Nat /\ c.pairs \in Nat
         /\ \A g \in {"cont", "bars", "curve"} : c.age[g] \in Int
         /\ \A g \in Groups : c.at[g] \in Int
         /\ c.readings \in [Statistics -> Int]
BY DEF MarketContexts

LEMMA MirrorIs ==
  ASSUME NEW c \in MarketContexts, NEW d, d = Mirror(c)
  PROVE  /\ d.horizon = c.horizon /\ d.as_of = c.as_of /\ d.dte = c.dte /\ d.limit = c.limit
         /\ d.cont = c.cont /\ d.prices = c.prices /\ d.bars = c.bars /\ d.points = c.points
         /\ d.eligible = c.eligible /\ d.hist = c.hist /\ d.pairs = c.pairs
         /\ d.flat = c.flat /\ d.ohlc = c.ohlc /\ d.oi = c.oi /\ d.selected = c.selected
         /\ d.age = c.age /\ d.at = c.at
         /\ d.readings["rsi"] = 100 - c.readings["rsi"]
         /\ \A n \in Turned : d.readings[n] = -c.readings[n]
         /\ \A n \in Statistics \ (Turned \union {"rsi"}) : d.readings[n] = c.readings[n]
<1>1. PICK r : r = [n \in DOMAIN c.readings |->
                      IF n = "rsi" THEN 100 - c.readings[n]
                      ELSE IF n \in Turned THEN -c.readings[n]
                      ELSE c.readings[n]]
  OBVIOUS
<1>2. d = [c EXCEPT !.readings = r]
  BY <1>1 DEF Mirror, Turned
<1>3. DOMAIN c.readings = Statistics
  BY ContextIs
<1>4. d.readings = r
  BY <1>2 DEF MarketContexts
<1>5. /\ r["rsi"] = 100 - c.readings["rsi"]
      /\ \A n \in Turned : r[n] = -c.readings[n]
      /\ \A n \in Statistics \ (Turned \union {"rsi"}) : r[n] = c.readings[n]
  BY <1>1, <1>3 DEF Turned, Statistics
<1> QED
  BY <1>2, <1>4, <1>5 DEF MarketContexts
-----------------------------------------------------------------------------
(* The metrics and their instants.                                         *)

LEMMA SinceIsAnInstant ==
  ASSUME NEW c \in Contexts, NEW g \in Groups
  PROVE  Since(c, g) \subseteq {c.at[g]} /\ c.at[g] \in Int
BY ShadowAssumption, ContextIs DEF Since, OnlyIf

HasLast(T) == T = {} \/ \E t \in T : \A u \in T : u <= t

LEMMA OneInstantMore ==
  ASSUME NEW S, NEW T, NEW x \in Int, S \subseteq Int, HasLast(S), T \in {S, S \union {x}}
  PROVE  HasLast(T)
<1>1. CASE T = S \/ S = {}
  BY <1>1 DEF HasLast
<1>2. CASE S # {} /\ T = S \union {x}
  <2>1. PICK t \in S : \A u \in S : u <= t
    BY <1>2 DEF HasLast
  <2>2. CASE x <= t
    BY <1>2, <2>1, <2>2 DEF HasLast
  <2>3. CASE t <= x
    BY <1>2, <2>1, <2>3 DEF HasLast
  <2>q. QED
    BY <2>1, <2>2, <2>3
<1>q. QED
  BY <1>1, <1>2

(* Of five instants, some of which are taken, one is the last.             *)
LEMMA LastInstant ==
  ASSUME NEW a \in Int, NEW b \in Int, NEW d \in Int, NEW e \in Int, NEW f \in Int,
         NEW T, T \subseteq {a, b, d, e, f}, T # {}
  PROVE  \E t \in T : \A u \in T : u <= t
<1>1. HasLast({})
  BY DEF HasLast
<1>2. HasLast(T \cap {a})
  BY <1>1, OneInstantMore
<1>3. HasLast(T \cap {a, b})
  <2>1. T \cap {a, b} \in {T \cap {a}, (T \cap {a}) \union {b}}
    OBVIOUS
  <2>q. QED
    BY <1>2, <2>1, OneInstantMore
<1>4. HasLast(T \cap {a, b, d})
  <2>1. T \cap {a, b, d} \in {T \cap {a, b}, (T \cap {a, b}) \union {d}}
    OBVIOUS
  <2>q. QED
    BY <1>3, <2>1, OneInstantMore
<1>5. HasLast(T \cap {a, b, d, e})
  <2>1. T \cap {a, b, d, e} \in {T \cap {a, b, d}, (T \cap {a, b, d}) \union {e}}
    OBVIOUS
  <2>q. QED
    BY <1>4, <2>1, OneInstantMore
<1>6. HasLast(T \cap {a, b, d, e, f})
  <2>1. T \cap {a, b, d, e, f} \in {T \cap {a, b, d, e}, (T \cap {a, b, d, e}) \union {f}}
    OBVIOUS
  <2>q. QED
    BY <1>5, <2>1, OneInstantMore
<1>7. T \cap {a, b, d, e, f} = T
  OBVIOUS
<1>q. QED
  BY <1>6, <1>7 DEF HasLast

(* The instants a metric is stamped from.                                  *)
Passed(n) == CASE n \in ResearchMetrics -> "cont"
               [] n \in CurveMetrics -> "curve"
               [] OTHER -> "bars"

Declared(n) ==
  {g \in Groups :
     \/ g \in {"hist", "curve"} /\ n \in CurveMetrics \union ShareMetrics
     \/ g = "bars" /\ n \in PositionMetrics \union LiquidityMetrics
     \/ g = "curve" /\ n \in LiquidityMetrics
     \/ g = "cont" /\ n \in {"settlement_vs_ma60", "contract_return_5d", "positioning_composite"}}

Stamps(c, n) ==
  OnlyIf(Since(c, Passed(n)) = {}, {c.as_of}) \union Since(c, Passed(n))
    \union UNION {Since(c, g) : g \in Declared(n)}

LEMMA StampedFrom ==
  ASSUME NEW c, NEW n
  PROVE  available_at(c, n) = CHOOSE t \in Stamps(c, n) : \A u \in Stamps(c, n) : u <= t
BY Zenon DEF available_at, Stamps, Passed, Declared

(* A metric is stamped with the last of them.                              *)
LEMMA StampIsLast ==
  ASSUME NEW c \in Contexts, NEW n \in Names
  PROVE  \A t \in Stamps(c, n) : t <= available_at(c, n)
<1>1. available_at(c, n) = CHOOSE t \in Stamps(c, n) : \A u \in Stamps(c, n) : u <= t
  BY StampedFrom
<1>2. Passed(n) \in Groups /\ Declared(n) \subseteq Groups
  BY DEF Passed, Declared, Groups
<1>3. Stamps(c, n) \subseteq {c.as_of, c.at["cont"], c.at["bars"], c.at["curve"], c.at["hist"]}
  BY <1>2, SinceIsAnInstant DEF Stamps, OnlyIf, Groups
<1>4. Stamps(c, n) # {}
  BY DEF Stamps, OnlyIf
<1>5. /\ c.as_of \in Int /\ c.at["cont"] \in Int /\ c.at["bars"] \in Int
      /\ c.at["curve"] \in Int /\ c.at["hist"] \in Int
  BY ShadowAssumption, ContextIs DEF Groups
<1>6. \E t \in Stamps(c, n) : \A u \in Stamps(c, n) : u <= t
  BY <1>3, <1>4, <1>5, LastInstant
<1>q. QED
  BY <1>1, <1>6

(* What a formula reads is among what its metric is stamped from.          *)
LEMMA ReadIsStamped ==
  ASSUME NEW c, NEW n \in Names, NEW g \in Reads(n)
  PROVE  Since(c, g) \subseteq Stamps(c, n)
<1>1. g = Passed(n) \/ g \in Declared(n)
  BY DEF Reads, Passed, Declared, Groups, Names, ResearchMetrics, PositionMetrics, CurveMetrics,
         ShareMetrics, LiquidityMetrics, MetadataMetrics
<1>q. QED
  BY <1>1 DEF Stamps

(* No metric of an analysis is stamped available before an input that its  *)
(* formula reads, for any context whose instants are whole numbers.        *)
THEOREM MetricsAreCausal == Spec => []MetricCausal
<1>1. Inv => MetricCausal
  <2> SUFFICES ASSUME Inv, pc = "analyzed", NEW n \in Names, NEW g \in Reads(n),
                      NEW t \in Since(ctx, g)
               PROVE  t <= analysis.metrics[n].available_at
    BY DEF MetricCausal
  <2>1. ctx \in Contexts /\ analysis = Analyze(ctx)
    BY DEF Inv, Analyzed
  <2>2. analysis.metrics = compute(ctx)
    BY <2>1 DEF Analyze, Judged, Judgement, Assessment, Conclusion
  <2>3. analysis.metrics[n].available_at = available_at(ctx, n)
    BY <2>2 DEF compute
  <2>q. QED
    BY <2>1, <2>3, StampIsLast, ReadIsStamped
<1>q. QED
  BY <1>1, InvAlways, PTL
-----------------------------------------------------------------------------
(* Where the readings of the metrics come from.                            *)

PriceNames == {"return_5d", "return_20d", "return_60d", "return_120d", "ma_structure",
               "breakout_position_120d", "rsi_14", "momentum_acceleration"}
ContractNames == {"settlement_vs_ma20", "settlement_vs_ma60", "extension_atr"}
PositioningNames == {"contract_return_5d", "oi_change_5d", "volume_zscore_20d",
                     "positioning_composite"}
VolatilityNames == {"realized_vol_20d", "realized_vol_60d", "volatility_percentile"}

LEMMA NamesAre ==
  Names = PriceNames \union ContractNames \union PositioningNames \union CurveMetrics
            \union VolatilityNames \union LiquidityMetrics \union MetadataMetrics
BY DEF Names, ResearchMetrics, PositionMetrics, PriceNames, ContractNames, PositioningNames,
       VolatilityNames

LEMMA ReadingsOf ==
  ASSUME NEW c
  PROVE  /\ \A n \in PriceNames : Readings(c)[n] = PriceReadings(c)[n]
         /\ \A n \in ContractNames : Readings(c)[n] = ContractReadings(c)[n]
         /\ \A n \in PositioningNames : Readings(c)[n] = PositioningReadings(c)[n]
         /\ \A n \in CurveMetrics : Readings(c)[n] = CurveReadings(c)[n]
         /\ \A n \in VolatilityNames : Readings(c)[n] = VolatilityReadings(c)[n]
         /\ \A n \in LiquidityMetrics : Readings(c)[n] = LiquidityReadings(c)[n]
         /\ \A n \in MetadataMetrics : Readings(c)[n] = RollAndLimitReadings(c)[n]
<1>1. PICK p, q, r, s, v, l, m :
        /\ p = PriceReadings(c) /\ q = ContractReadings(c) /\ r = PositioningReadings(c)
        /\ s = CurveReadings(c) /\ v = VolatilityReadings(c) /\ l = LiquidityReadings(c)
        /\ m = RollAndLimitReadings(c)
  OBVIOUS
<1>2. /\ DOMAIN p = PriceNames /\ DOMAIN q = ContractNames /\ DOMAIN r = PositioningNames
      /\ DOMAIN s = CurveMetrics
  BY <1>1 DEF PriceReadings, ContractReadings, PositioningReadings, CurveReadings, CurveMetrics,
              PriceNames, ContractNames, PositioningNames
<1>3. /\ DOMAIN v = VolatilityNames /\ DOMAIN l = LiquidityMetrics /\ DOMAIN m = MetadataMetrics
  BY <1>1 DEF VolatilityReadings, LiquidityReadings, RollAndLimitReadings, VolatilityNames,
              LiquidityMetrics, ShareMetrics, MetadataMetrics
<1>4. PICK groups : groups = {p, q, r, s, v, l, m}
  OBVIOUS
<1>5. \A n \in Names : Readings(c)[n] = (CHOOSE g \in groups : n \in DOMAIN g)[n]
  BY <1>1, <1>4, Zenon DEF Readings
<1>6. \A g \in groups, h \in groups : (DOMAIN g) \cap (DOMAIN h) # {} => g = h
  BY <1>2, <1>3, <1>4 DEF PriceNames, ContractNames, PositioningNames, CurveMetrics,
     VolatilityNames, LiquidityMetrics, ShareMetrics, MetadataMetrics
<1>7. ASSUME NEW g \in groups, NEW n \in DOMAIN g
      PROVE  Readings(c)[n] = g[n]
  <2>1. n \in Names
    BY <1>2, <1>3, <1>4, NamesAre
  <2>2. (CHOOSE h \in groups : n \in DOMAIN h) = g
    BY <1>6
  <2> QED
    BY <1>5, <2>1, <2>2
<1> QED
  BY <1>1, <1>2, <1>3, <1>4, <1>7

(* A reading with the opposite sign, from the same samples.                *)
Flipped(x, y) == /\ y.value = Opposite(x.value) /\ y.score = Opposite(x.score)
                 /\ y.sample = x.sample /\ y.minimum = x.minimum

Whole(x) == x.value \in Scores /\ x.score \in Scores

LEMMA WhenIs ==
  ASSUME NEW x \in Scores, NEW holds
  PROVE  /\ When(holds, x) \in Scores
         /\ When(holds, Opposite(x)) = Opposite(When(holds, x))
BY DEF When, Scores, Opposite

LEMMA OppositeIs ==
  ASSUME NEW x \in Int
  PROVE  x \in Scores /\ Opposite(x) = -x /\ Opposite(x) \in Scores
BY NoneIsNoNumber DEF Opposite, Scores

LEMMA FlippedIs ==
  ASSUME NEW x \in Int, NEW z \in Int, NEW g, NEW h, NEW n, NEW k
  PROVE  /\ Whole(Reading(When(g, x), When(h, z), n, k))
         /\ Flipped(Reading(When(g, x), When(h, z), n, k), Reading(When(g, -x), When(h, -z), n, k))
BY NoneIsNoNumber DEF Flipped, Reading, Whole, When, Opposite, Scores

LEMMA PriceMirrored ==
  ASSUME NEW c \in MarketContexts, NEW d, d = Mirror(c)
  PROVE  /\ \A n \in PriceNames : Whole(PriceReadings(c)[n])
         /\ \A n \in PriceNames \ {"rsi_14"} : Flipped(PriceReadings(c)[n], PriceReadings(d)[n])
         /\ LET x == PriceReadings(c)["rsi_14"]
                y == PriceReadings(d)["rsi_14"]
            IN  /\ y.value = IF x.value = None THEN None ELSE 100 - x.value
                /\ y.score = Opposite(x.score) /\ y.sample = x.sample /\ y.minimum = x.minimum
<1>1. PICK r, t : r = c.readings /\ t = d.readings
  OBVIOUS
<1>2. /\ r.short \in Int /\ r.mid \in Int /\ r.long \in Int /\ r.structure \in Int
      /\ r.acceleration \in Int /\ r.rsi \in Int
  BY <1>1, ContextIs DEF Statistics
<1>3. /\ t.short = -r.short /\ t.mid = -r.mid /\ t.long = -r.long /\ t.structure = -r.structure
      /\ t.acceleration = -r.acceleration /\ t.rsi = 100 - r.rsi
  BY <1>1, MirrorIs DEF Turned
<1>4. PICK P, V : P = c.prices /\ V = DailyVol(c)
  OBVIOUS
<1>5. P = d.prices /\ V = DailyVol(d)
  BY <1>4, MirrorIs DEF DailyVol
<1> DEFINE scaled(x, least) == When(P >= least /\ V, x)
           of(x, least) == Reading(When(P >= least, x), scaled(x, least), P, least)
           out(x) == Reading(When(P >= 120, x), When(P >= 120, x), P, 120)
           heat(x) == Reading(When(P >= 15, x), When(P >= 15, clip(2 * (x - 50), -100, 100)), P, 15)
           made(x) == Reading(scaled(x, 65), scaled(x, 65), P, 65)
<1>6. PriceReadings(c) =
        [return_5d |-> of(r.short, 6), return_20d |-> of(r.mid, 21), return_60d |-> of(r.long, 61),
         return_120d |-> of(r.long, 121), momentum_acceleration |-> of(r.acceleration, 21),
         ma_structure |-> made(r.structure), breakout_position_120d |-> out(r.structure),
         rsi_14 |-> heat(r.rsi)]
  BY <1>1, <1>4 DEF PriceReadings
<1>7. PriceReadings(d) =
        [return_5d |-> of(t.short, 6), return_20d |-> of(t.mid, 21), return_60d |-> of(t.long, 61),
         return_120d |-> of(t.long, 121), momentum_acceleration |-> of(t.acceleration, 21),
         ma_structure |-> made(t.structure), breakout_position_120d |-> out(t.structure),
         rsi_14 |-> heat(t.rsi)]
  BY <1>1, <1>5 DEF PriceReadings
<1>8. ASSUME NEW x \in Int, NEW least
      PROVE  /\ Whole(of(x, least)) /\ Flipped(of(x, least), of(-x, least))
             /\ Whole(made(x)) /\ Flipped(made(x), made(-x))
             /\ Whole(out(x)) /\ Flipped(out(x), out(-x))
  BY FlippedIs, Zenon
<1>9. ASSUME NEW x \in Int
      PROVE  /\ Whole(heat(x))
             /\ heat(100 - x).value = IF heat(x).value = None THEN None ELSE 100 - heat(x).value
             /\ heat(100 - x).score = Opposite(heat(x).score)
             /\ heat(100 - x).sample = heat(x).sample /\ heat(100 - x).minimum = heat(x).minimum
  <2>1. PICK z \in Int : z = 2 * (x - 50)
    OBVIOUS
  <2>2. 2 * ((100 - x) - 50) = -z
    BY <2>1
  <2>3. PICK k \in Int : k = clip(z, -100, 100) /\ clip(-z, -100, 100) = -k
    BY ClipOdd
  <2>4. /\ heat(x) = Reading(When(P >= 15, x), When(P >= 15, k), P, 15)
        /\ heat(100 - x) = Reading(When(P >= 15, 100 - x), When(P >= 15, -k), P, 15)
    BY <2>1, <2>2, <2>3
  <2>5. 100 - x \in Int
    OBVIOUS
  <2> HIDE DEF heat
  <2> QED
    BY <2>4, <2>5, NoneIsNoNumber DEF Reading, When, Whole, Scores, Opposite
<1> HIDE DEF of, made, out, heat
<1>10. ASSUME NEW n \in PriceNames \ {"rsi_14"}
       PROVE  Whole(PriceReadings(c)[n]) /\ Flipped(PriceReadings(c)[n], PriceReadings(d)[n])
  <2>1. CASE n \in {"return_5d", "return_20d", "return_60d", "return_120d", "momentum_acceleration"}
    <3>1. PICK x, least : /\ x \in Int
                           /\ PriceReadings(c)[n] = of(x, least) /\ PriceReadings(d)[n] = of(-x, least)
      BY <1>2, <1>3, <1>6, <1>7, <2>1
    <3> QED
      BY <3>1, <1>8
  <2>2. CASE n = "ma_structure"
    BY <1>2, <1>3, <1>6, <1>7, <1>8, <2>2
  <2>3. CASE n = "breakout_position_120d"
    BY <1>2, <1>3, <1>6, <1>7, <1>8, <2>3
  <2> QED
    BY <2>1, <2>2, <2>3 DEF PriceNames
<1>11. /\ PriceReadings(c)["rsi_14"] = heat(r.rsi)
       /\ PriceReadings(d)["rsi_14"] = heat(100 - r.rsi)
  BY <1>3, <1>6, <1>7
<1> QED
  BY <1>2, <1>9, <1>10, <1>11
-----------------------------------------------------------------------------
(* The other readings that change sign, group by group.                   *)
LEMMA ContractMirrored ==
  ASSUME NEW c \in MarketContexts, NEW d, d = Mirror(c)
  PROVE  \A n \in ContractNames :
           Whole(ContractReadings(c)[n]) /\ Flipped(ContractReadings(c)[n], ContractReadings(d)[n])
<1>1. PICK x, m : x = c.readings.extension /\ m = c.readings.ma60
  OBVIOUS
<1>2. x \in Int /\ m \in Int /\ d.readings.extension = -x /\ d.readings.ma60 = -m
  BY <1>1, ContextIs, MirrorIs DEF Statistics, Turned
<1>3. PICK z \in Int : z = tanh_score(x) /\ tanh_score(-x) = -z
  BY <1>2, TanhOdd
<1>4. PICK B, e, v : B = c.bars /\ e = (B >= 21 /\ c.ohlc) /\ v = (B >= 60 /\ DailyVol(c))
  OBVIOUS
<1>5. B = d.bars /\ e = (B >= 21 /\ d.ohlc) /\ v = (B >= 60 /\ DailyVol(d))
  BY <1>4, MirrorIs DEF DailyVol
<1>6. ContractReadings(c) =
        [settlement_vs_ma20 |-> Reading(When(B >= 20, x), When(e, z), B, 20),
         settlement_vs_ma60 |-> Reading(When(B >= 60, m), When(v, m), B, 60),
         extension_atr |-> Reading(When(e, x), When(e, z), B, 21)]
  BY <1>1, <1>3, <1>4, Zenon DEF ContractReadings
<1>7. ContractReadings(d) =
        [settlement_vs_ma20 |-> Reading(When(B >= 20, -x), When(e, -z), B, 20),
         settlement_vs_ma60 |-> Reading(When(B >= 60, -m), When(v, -m), B, 60),
         extension_atr |-> Reading(When(e, -x), When(e, -z), B, 21)]
  BY <1>2, <1>3, <1>5 DEF ContractReadings
<1>8. /\ ContractReadings(c)["settlement_vs_ma20"] = Reading(When(B >= 20, x), When(e, z), B, 20)
      /\ ContractReadings(c)["settlement_vs_ma60"] = Reading(When(B >= 60, m), When(v, m), B, 60)
      /\ ContractReadings(c)["extension_atr"] = Reading(When(e, x), When(e, z), B, 21)
      /\ ContractReadings(d)["settlement_vs_ma20"] = Reading(When(B >= 20, -x), When(e, -z), B, 20)
      /\ ContractReadings(d)["settlement_vs_ma60"] = Reading(When(B >= 60, -m), When(v, -m), B, 60)
      /\ ContractReadings(d)["extension_atr"] = Reading(When(e, -x), When(e, -z), B, 21)
  BY <1>6, <1>7
<1> QED
  BY <1>2, <1>8, FlippedIs DEF ContractNames

LEMMA PositioningMirrored ==
  ASSUME NEW c \in MarketContexts, NEW d, d = Mirror(c)
  PROVE  /\ \A n \in PositioningNames : Whole(PositioningReadings(c)[n])
         /\ \A n \in {"contract_return_5d", "positioning_composite"} :
              Flipped(PositioningReadings(c)[n], PositioningReadings(d)[n])
         /\ \A n \in {"oi_change_5d", "volume_zscore_20d"} :
              PositioningReadings(d)[n] = PositioningReadings(c)[n]
<1>1. PICK B, v, x, o, u :
        /\ B = c.bars /\ v = (B >= 6 /\ DailyVol(c)) /\ x = c.readings.price
        /\ o = When(B >= 6 /\ c.oi, c.readings.oi) /\ u = When(B >= 21, c.readings.volume)
  OBVIOUS
<1>2. /\ B = d.bars /\ v = (B >= 6 /\ DailyVol(d)) /\ d.readings.price = -x
      /\ o = When(B >= 6 /\ d.oi, d.readings.oi) /\ u = When(B >= 21, d.readings.volume)
  BY <1>1, MirrorIs DEF DailyVol, Statistics, Turned
<1>3. x \in Int /\ o \in Scores /\ u \in Scores
  <2>1. x \in Int /\ c.readings.oi \in Int /\ c.readings.volume \in Int
    BY <1>1, ContextIs DEF Statistics
  <2> QED
    BY <1>1, <2>1 DEF When, Scores
<1> DEFINE composite(p) == When(p # None /\ o # None, Positioning(p, o, u))
           readings(p, price) ==
             [contract_return_5d |-> Reading(When(B >= 6, p), price, B, 6),
              oi_change_5d |-> Reading(o, o, B, 6),
              volume_zscore_20d |-> Reading(u, u, B, 21),
              positioning_composite |-> Reading(composite(price), composite(price), B, 6)]
<1>4. /\ PositioningReadings(c) = readings(x, When(v, x))
      /\ PositioningReadings(d) = readings(-x, When(v, -x))
  BY <1>1, <1>2 DEF PositioningReadings
<1>5. /\ composite(When(v, x)) \in Scores
      /\ composite(When(v, -x)) = Opposite(composite(When(v, x)))
  <2>1. CASE ~v \/ o = None
    BY <2>1 DEF When, Scores, Opposite
  <2>2. CASE v /\ o # None
    <3>1. o \in Int
      BY <1>3, <2>2 DEF Scores
    <3>2. PICK k \in Int : k = Positioning(x, o, u) /\ Positioning(-x, o, u) = -k
      BY <1>3, <3>1, PositioningOdd
    <3>3. /\ When(v, x) = x /\ When(v, -x) = -x /\ x # None /\ -x # None /\ k # None
      BY <1>3, <2>2, NoneIsNoNumber DEF When
    <3>4. composite(x) = k /\ composite(-x) = -k
      BY <2>2, <3>2, <3>3 DEF When
    <3> QED
      BY <3>2, <3>3, <3>4 DEF Scores, Opposite
  <2> QED
    BY <2>1, <2>2
<1>6. PICK k \in Scores : k = composite(When(v, x)) /\ composite(When(v, -x)) = Opposite(k)
  BY <1>5
<1>7. /\ PositioningReadings(c)["contract_return_5d"] = Reading(When(B >= 6, x), When(v, x), B, 6)
      /\ PositioningReadings(d)["contract_return_5d"] = Reading(When(B >= 6, -x), When(v, -x), B, 6)
      /\ PositioningReadings(c)["positioning_composite"] = Reading(k, k, B, 6)
      /\ PositioningReadings(d)["positioning_composite"] = Reading(Opposite(k), Opposite(k), B, 6)
      /\ PositioningReadings(c)["oi_change_5d"] = Reading(o, o, B, 6)
      /\ PositioningReadings(d)["oi_change_5d"] = Reading(o, o, B, 6)
      /\ PositioningReadings(c)["volume_zscore_20d"] = Reading(u, u, B, 21)
      /\ PositioningReadings(d)["volume_zscore_20d"] = Reading(u, u, B, 21)
  <2> HIDE DEF composite
  <2> QED
    BY <1>4, <1>6
<1> HIDE DEF composite, readings
<1>8. /\ Whole(Reading(k, k, B, 6)) /\ Whole(Reading(o, o, B, 6)) /\ Whole(Reading(u, u, B, 21))
      /\ Flipped(Reading(k, k, B, 6), Reading(Opposite(k), Opposite(k), B, 6))
  BY <1>3, <1>6 DEF Whole, Reading, Flipped
<1> QED
  BY <1>3, <1>7, <1>8, FlippedIs DEF PositioningNames

LEMMA CurveMirrored ==
  ASSUME NEW c \in MarketContexts, NEW d, d = Mirror(c)
  PROVE  \A n \in CurveMetrics :
           Whole(CurveReadings(c)[n]) /\ Flipped(CurveReadings(c)[n], CurveReadings(d)[n])
<1>1. PICK s, x, u, h : /\ s = c.readings.slope /\ x = c.readings.change
                        /\ u = c.readings.curvature /\ h = c.hist
  OBVIOUS
<1>2. /\ s \in Int /\ x \in Int /\ u \in Int
      /\ d.readings.slope = -s /\ d.readings.change = -x /\ d.readings.curvature = -u
      /\ h = d.hist /\ d.eligible = c.eligible /\ d.pairs = c.pairs
  BY <1>1, ContextIs, MirrorIs DEF Statistics, Turned
<1>3. PICK two, ten, three : /\ two = (c.eligible >= 2) /\ three = (c.eligible >= 3)
                             /\ ten = (c.eligible >= 2 /\ c.pairs >= 20)
  OBVIOUS
<1>4. /\ CurveReadings(c)["curve_slope"] = Reading(When(two, s), When(two, s), h, 1)
      /\ CurveReadings(c)["curve_slope_change_20d"] = Reading(When(ten, x), When(ten, x), h, 20)
      /\ CurveReadings(c)["curve_curvature"] = Reading(When(three, u), When(three, u), h, 1)
  BY <1>1, <1>3 DEF CurveReadings
<1>5. /\ CurveReadings(d)["curve_slope"] = Reading(When(two, -s), When(two, -s), h, 1)
      /\ CurveReadings(d)["curve_slope_change_20d"] = Reading(When(ten, -x), When(ten, -x), h, 20)
      /\ CurveReadings(d)["curve_curvature"] = Reading(When(three, -u), When(three, -u), h, 1)
  BY <1>2, <1>3 DEF CurveReadings
<1> QED
  BY <1>2, <1>4, <1>5, FlippedIs DEF CurveMetrics

(* Volatility, liquidity, the roll and the limits have no direction.       *)
LEMMA RestMirrored ==
  ASSUME NEW c \in MarketContexts, NEW d, d = Mirror(c)
  PROVE  /\ VolatilityReadings(d) = VolatilityReadings(c)
         /\ LiquidityReadings(d) = LiquidityReadings(c)
         /\ RollAndLimitReadings(d) = RollAndLimitReadings(c)
<1>1. /\ d.readings.volatility = c.readings.volatility
      /\ d.readings.volume_pct = c.readings.volume_pct /\ d.readings.oi_pct = c.readings.oi_pct
      /\ d.readings.volume_share = c.readings.volume_share
      /\ d.readings.oi_share = c.readings.oi_share /\ d.readings.proximity = c.readings.proximity
  BY MirrorIs DEF Statistics, Turned
<1>2. /\ d.prices = c.prices /\ d.bars = c.bars /\ d.points = c.points /\ d.selected = c.selected
      /\ d.dte = c.dte /\ d.limit = c.limit
  BY MirrorIs
<1>3. VolatilityReadings(d) = VolatilityReadings(c)
  BY <1>1, <1>2, Zenon DEF VolatilityReadings
<1>4. LiquidityReadings(d) = LiquidityReadings(c)
  <2> DEFINE parts(x) ==
               <<When(x.bars >= 2, x.readings.volume_pct), When(x.bars >= 2, x.readings.oi_pct),
                 When(x.points > 0 /\ x.selected, x.readings.volume_share),
                 When(x.points > 0 /\ x.selected, x.readings.oi_share)>>
             readings(ps, B) ==
               LET clean == {i \in 1..4 : ps[i] # None}
                   part(i) == IF i \in clean THEN ps[i] ELSE 0
                   quality == When(clean # {}, (part(1) + part(2) + part(3) + part(4))
                                                 \div AtLeast(Cardinality(clean), 1))
               IN  [volume_percentile |-> Reading(ps[1], None, B, 20),
                    open_interest_percentile |-> Reading(ps[2], None, B, 20),
                    contract_volume_share |-> Reading(ps[3], None, B, 20),
                    contract_open_interest_share |-> Reading(ps[4], None, B, 20),
                    liquidity_quality_score |-> Reading(quality, None, B, 20)]
  <2>1. LiquidityReadings(c) = readings(parts(c), c.bars)
    BY Zenon DEF LiquidityReadings
  <2>2. LiquidityReadings(d) = readings(parts(d), d.bars)
    BY Zenon DEF LiquidityReadings
  <2>3. parts(d) = parts(c)
    BY <1>1, <1>2
  <2> HIDE DEF readings, parts
  <2> QED
    BY <1>2, <2>1, <2>2, <2>3
<1>5. RollAndLimitReadings(d) = RollAndLimitReadings(c)
  BY <1>1, <1>2, Zenon DEF RollAndLimitReadings
<1> QED
  BY <1>3, <1>4, <1>5
-----------------------------------------------------------------------------
(* The readings without a sign are whole numbers or missing.               *)
LEMMA VolatilityWhole ==
  ASSUME NEW c \in MarketContexts
  PROVE  \A n \in VolatilityNames : Whole(VolatilityReadings(c)[n])
<1>1. c.readings.volatility \in Int
  BY ContextIs DEF Statistics
<1>2. ASSUME NEW x \in Int, NEW holds, NEW n, NEW k
      PROVE  Whole(Reading(When(holds, x), None, n, k))
  BY DEF Whole, Reading, When, Scores
<1>3. /\ VolatilityReadings(c)["realized_vol_20d"] = Reading(When(c.prices >= 21, 1), None, c.prices, 21)
      /\ VolatilityReadings(c)["realized_vol_60d"] = Reading(When(c.prices >= 61, 1), None, c.prices, 61)
      /\ VolatilityReadings(c)["volatility_percentile"]
           = Reading(When(c.prices >= 22, c.readings.volatility), None, c.prices, 20)
  BY DEF VolatilityReadings
<1> QED
  BY <1>1, <1>2, <1>3 DEF VolatilityNames

LEMMA RollAndLimitWhole ==
  ASSUME NEW c \in MarketContexts
  PROVE  \A n \in MetadataMetrics : Whole(RollAndLimitReadings(c)[n])
<1>1. c.dte \in Int /\ c.readings.proximity \in Int /\ RollRisk(c.dte) \in Int
  BY ContextIs DEF RollRisk, Statistics
<1>2. /\ RollAndLimitReadings(c)["days_to_expiry"] = Reading(c.dte, None, 1, 1)
      /\ RollAndLimitReadings(c)["roll_risk_score"] = Reading(RollRisk(c.dte), None, 1, 1)
      /\ RollAndLimitReadings(c)["price_limit_proximity_risk"]
           = Reading(When(c.bars > 0 /\ c.limit = "ok", c.readings.proximity), None, 1, 1)
  BY DEF RollAndLimitReadings
<1> QED
  BY <1>1, <1>2 DEF MetadataMetrics, Whole, Reading, When, Scores

LEMMA LiquidityWhole ==
  ASSUME NEW c \in MarketContexts
  PROVE  \A n \in LiquidityMetrics : Whole(LiquidityReadings(c)[n])
<1> DEFINE parts == <<When(c.bars >= 2, c.readings.volume_pct), When(c.bars >= 2, c.readings.oi_pct),
                      When(c.points > 0 /\ c.selected, c.readings.volume_share),
                      When(c.points > 0 /\ c.selected, c.readings.oi_share)>>
           clean == {i \in 1..4 : parts[i] # None}
           part(i) == IF i \in clean THEN parts[i] ELSE 0
<1>1. /\ c.readings["volume_pct"] \in Int /\ c.readings["oi_pct"] \in Int
      /\ c.readings["volume_share"] \in Int /\ c.readings["oi_share"] \in Int
  BY ContextIs DEF Statistics
<1>2. /\ parts[1] \in Scores /\ parts[2] \in Scores /\ parts[3] \in Scores /\ parts[4] \in Scores
      /\ \A i \in 1..4 : parts[i] \in Scores
  <2>1. /\ parts[1] \in Scores /\ parts[2] \in Scores /\ parts[3] \in Scores /\ parts[4] \in Scores
    BY <1>1 DEF When, Scores
  <2>2. \A i \in 1..4 : i = 1 \/ i = 2 \/ i = 3 \/ i = 4
    OBVIOUS
  <2> HIDE DEF parts
  <2> QED
    BY <2>1, <2>2
<1>3. part(1) \in Int /\ part(2) \in Int /\ part(3) \in Int /\ part(4) \in Int
  <2> HIDE DEF parts
  <2> QED
    BY <1>2 DEF Scores
<1>4. Cardinality(clean) \in Nat
  <2>1. 1 \in Int /\ 4 \in Int
    OBVIOUS
  <2>2. IsFiniteSet(1..4)
    BY <2>1, FS_Interval, Zenon
  <2>3. clean \subseteq 1..4
    OBVIOUS
  <2> HIDE DEF clean
  <2> QED
    BY <2>2, <2>3, FS_Subset, FS_CardinalityType
<1>5. PICK quality :
        quality = When(clean # {}, (part(1) + part(2) + part(3) + part(4))
                                     \div AtLeast(Cardinality(clean), 1))
  OBVIOUS
<1>6. /\ LiquidityReadings(c)["liquidity_quality_score"] = Reading(quality, None, c.bars, 20)
      /\ LiquidityReadings(c)["volume_percentile"] = Reading(parts[1], None, c.bars, 20)
      /\ LiquidityReadings(c)["open_interest_percentile"] = Reading(parts[2], None, c.bars, 20)
      /\ LiquidityReadings(c)["contract_volume_share"] = Reading(parts[3], None, c.bars, 20)
      /\ LiquidityReadings(c)["contract_open_interest_share"] = Reading(parts[4], None, c.bars, 20)
  BY <1>5 DEF LiquidityReadings
<1>7. AtLeast(Cardinality(clean), 1) \in Nat \ {0}
  BY <1>4 DEF AtLeast
<1> HIDE DEF parts, clean, part
<1>8. quality \in Scores
  BY <1>3, <1>5, <1>7 DEF When, Scores
<1>9. ASSUME NEW x \in Scores  PROVE Whole(Reading(x, None, c.bars, 20))
  BY DEF Whole, Reading, Scores
<1> QED
  BY <1>2, <1>6, <1>8, <1>9 DEF LiquidityMetrics, ShareMetrics

(* The metrics of a context: whole points, or none.                        *)
MetricsWhole(m) ==
  \A n \in Names : m[n].value \in Scores /\ m[n].score \in Scores

LEMMA MetricOf ==
  ASSUME NEW c, NEW n \in Names
  PROVE  /\ compute(c)[n].value = Readings(c)[n].value
         /\ compute(c)[n].score = Readings(c)[n].score
         /\ compute(c)[n].status = Status(c, n, Readings(c)[n])
         /\ compute(c)[n].available_at = available_at(c, n)
BY DEF compute

LEMMA ComputeWhole ==
  ASSUME NEW c \in MarketContexts
  PROVE  MetricsWhole(compute(c))
<1>1. PICK d : d = Mirror(c)
  OBVIOUS
<1>2. \A n \in PriceNames : Whole(Readings(c)[n])
  BY <1>1, PriceMirrored, ReadingsOf
<1>3. \A n \in ContractNames : Whole(Readings(c)[n])
  BY <1>1, ContractMirrored, ReadingsOf
<1>4. \A n \in PositioningNames : Whole(Readings(c)[n])
  BY <1>1, PositioningMirrored, ReadingsOf
<1>5. \A n \in CurveMetrics : Whole(Readings(c)[n])
  BY <1>1, CurveMirrored, ReadingsOf
<1>6. \A n \in VolatilityNames \union LiquidityMetrics \union MetadataMetrics : Whole(Readings(c)[n])
  BY VolatilityWhole, LiquidityWhole, RollAndLimitWhole, ReadingsOf
<1>7. \A n \in Names : Whole(Readings(c)[n])
  BY <1>2, <1>3, <1>4, <1>5, <1>6, NamesAre
<1> QED
  BY <1>7, MetricOf DEF MetricsWhole, Whole

Signed == (PriceNames \ {"rsi_14"}) \union ContractNames \union CurveMetrics
            \union {"contract_return_5d", "positioning_composite"}

(* The metrics w are those of the mirror image of m.                       *)
Reflected(m, w) ==
  /\ \A n \in Names : w[n].status = m[n].status /\ w[n].available_at = m[n].available_at
  /\ \A n \in Signed : w[n].value = Opposite(m[n].value)
  /\ \A n \in Signed \union {"rsi_14"} : w[n].score = Opposite(m[n].score)
  /\ w["rsi_14"].value = IF m["rsi_14"].value = None THEN None ELSE 100 - m["rsi_14"].value
  /\ \A n \in Names \ (Signed \union {"rsi_14"}) : w[n].value = m[n].value

LEMMA SinceMirrored ==
  ASSUME NEW c \in MarketContexts, NEW d, d = Mirror(c), NEW g
  PROVE  Since(d, g) = Since(c, g)
<1>1. /\ d.cont = c.cont /\ d.bars = c.bars /\ d.points = c.points /\ d.hist = c.hist /\ d.at = c.at
  BY MirrorIs
<1> QED
  BY <1>1, Zenon DEF Since

LEMMA ComputeMirrored ==
  ASSUME NEW c \in MarketContexts, NEW d, d = Mirror(c)
  PROVE  Reflected(compute(c), compute(d))
<1> DEFINE x(n) == Readings(c)[n]
           y(n) == Readings(d)[n]
<1>1. \A n \in Signed : Flipped(x(n), y(n))
  BY PriceMirrored, ContractMirrored, CurveMirrored, PositioningMirrored, ReadingsOf
     DEF Signed, PositioningNames
<1>2. /\ y("rsi_14").value = IF x("rsi_14").value = None THEN None ELSE 100 - x("rsi_14").value
      /\ y("rsi_14").score = Opposite(x("rsi_14").score)
      /\ y("rsi_14").sample = x("rsi_14").sample /\ y("rsi_14").minimum = x("rsi_14").minimum
  <2>1. "rsi_14" \in PriceNames
    BY DEF PriceNames
  <2> QED
    BY <2>1, PriceMirrored, ReadingsOf
<1>3. \A n \in Names \ (Signed \union {"rsi_14"}) : y(n) = x(n)
  <2>1. \A n \in {"oi_change_5d", "volume_zscore_20d"} : y(n) = x(n)
    BY PositioningMirrored, ReadingsOf DEF PositioningNames
  <2>2. \A n \in VolatilityNames \union LiquidityMetrics \union MetadataMetrics : y(n) = x(n)
    BY RestMirrored, ReadingsOf
  <2>3. Names \ (Signed \union {"rsi_14"}) =
          {"oi_change_5d", "volume_zscore_20d"} \union VolatilityNames \union LiquidityMetrics
            \union MetadataMetrics
    BY NamesAre DEF Signed, PriceNames, ContractNames, PositioningNames, CurveMetrics,
       VolatilityNames, LiquidityMetrics, ShareMetrics, MetadataMetrics
  <2> QED
    BY <2>1, <2>2, <2>3
<1>4. Signed \union {"rsi_14"} \subseteq Names
  BY NamesAre DEF Signed, PriceNames, PositioningNames
<1>5. \A n \in Names : x(n).value \in Scores
  BY ComputeWhole, MetricOf DEF MetricsWhole
<1>6. ASSUME NEW n \in Names
      PROVE  Status(d, n, y(n)) = Status(c, n, x(n)) /\ available_at(d, n) = available_at(c, n)
  <2>1. y(n).value = None <=> x(n).value = None
    <3>1. \A v \in Scores : Opposite(v) = None <=> v = None
      BY NoneIsNoNumber DEF Scores, Opposite
    <3>2. \A v \in Scores : v # None => 100 - v # None
      BY NoneIsNoNumber DEF Scores
    <3> HIDE DEF x, y
    <3> QED
      BY <1>1, <1>2, <1>3, <1>5, <3>1, <3>2 DEF Flipped
  <2>2. y(n).sample = x(n).sample /\ y(n).minimum = x(n).minimum
    <3> HIDE DEF x, y
    <3> QED
      BY <1>1, <1>2, <1>3 DEF Flipped
  <2>3. d.bars = c.bars /\ d.limit = c.limit /\ d.as_of = c.as_of
    BY MirrorIs
  <2>4. Status(d, n, y(n)) = Status(c, n, x(n))
    <3> HIDE DEF x, y
    <3> QED
      BY <2>1, <2>2, <2>3 DEF Status
  <2>5. available_at(d, n) = available_at(c, n)
    <3>1. \A g : Since(d, g) = Since(c, g)
      BY SinceMirrored
    <3>2. UNION {Since(d, g) : g \in Declared(n)} = UNION {Since(c, g) : g \in Declared(n)}
      BY <3>1
    <3>3. Stamps(d, n) = Stamps(c, n)
      BY <2>3, <3>1, <3>2 DEF Stamps
    <3> QED
      BY <3>3, StampedFrom
  <2> QED
    BY <2>4, <2>5
<1> QED
  <2>1. \A n \in Names : compute(d)[n].status = compute(c)[n].status
                         /\ compute(d)[n].available_at = compute(c)[n].available_at
    BY <1>6, MetricOf
  <2>2. /\ \A n \in Names : compute(d)[n].value = y(n).value /\ compute(d)[n].score = y(n).score
        /\ \A n \in Names : compute(c)[n].value = x(n).value /\ compute(c)[n].score = x(n).score
    BY MetricOf
  <2> HIDE DEF x, y
  <2> QED
    BY <1>1, <1>2, <1>3, <1>4, <2>1, <2>2 DEF Reflected, Flipped
-----------------------------------------------------------------------------
(* The sets that are summed over are finite.                               *)
LEMMA FewAreFinite ==
  ASSUME NEW a, NEW b, NEW c, NEW d, NEW e, NEW f
  PROVE  IsFiniteSet({a, b, c, d, e, f})
<1>1. IsFiniteSet({})
  BY FS_EmptySet
<1>2. \A S, x : IsFiniteSet(S) => IsFiniteSet(S \union {x})
  BY FS_AddElement
<1>3. IsFiniteSet(((((({} \union {a}) \union {b}) \union {c}) \union {d}) \union {e}) \union {f})
  BY <1>1, <1>2
<1>4. (((((({} \union {a}) \union {b}) \union {c}) \union {d}) \union {e}) \union {f}) = {a, b, c, d, e, f}
  OBVIOUS
<1> QED
  BY <1>3, <1>4

LEMMA NamesFinite == IsFiniteSet(Names)
<1>1. \A S, T : IsFiniteSet(S) /\ IsFiniteSet(T) => IsFiniteSet(S \union T)
  BY FS_Union
<1>2. \A a, b, c, d, e, f : IsFiniteSet({a, b, c, d, e, f})
  BY FewAreFinite
<1>3. IsFiniteSet(PriceNames)
  <2>1. /\ IsFiniteSet({"return_5d", "return_20d", "return_60d", "return_120d", "ma_structure", "ma_structure"})
        /\ IsFiniteSet({"breakout_position_120d", "rsi_14", "momentum_acceleration", "rsi_14", "rsi_14", "rsi_14"})
    BY <1>2
  <2>2. PriceNames =
          {"return_5d", "return_20d", "return_60d", "return_120d", "ma_structure", "ma_structure"} \union
          {"breakout_position_120d", "rsi_14", "momentum_acceleration", "rsi_14", "rsi_14", "rsi_14"}
    BY DEF PriceNames
  <2> QED
    BY <1>1, <2>1, <2>2
<1>4. /\ IsFiniteSet(ContractNames) /\ IsFiniteSet(PositioningNames) /\ IsFiniteSet(CurveMetrics)
      /\ IsFiniteSet(VolatilityNames) /\ IsFiniteSet(LiquidityMetrics) /\ IsFiniteSet(MetadataMetrics)
  <2>1. /\ ContractNames = {"settlement_vs_ma20", "settlement_vs_ma60", "extension_atr",
                            "extension_atr", "extension_atr", "extension_atr"}
        /\ PositioningNames = {"contract_return_5d", "oi_change_5d", "volume_zscore_20d",
                     "positioning_composite", "positioning_composite", "positioning_composite"}
        /\ CurveMetrics = {"curve_slope", "curve_slope_change_20d", "curve_curvature", "curve_curvature",
                           "curve_curvature", "curve_curvature"}
        /\ VolatilityNames = {"realized_vol_20d", "realized_vol_60d", "volatility_percentile",
                              "realized_vol_20d", "realized_vol_20d", "realized_vol_20d"}
        /\ LiquidityMetrics = {"contract_volume_share", "contract_open_interest_share", "volume_percentile",
                               "open_interest_percentile", "liquidity_quality_score", "volume_percentile"}
        /\ MetadataMetrics = {"days_to_expiry", "roll_risk_score", "price_limit_proximity_risk",
                              "days_to_expiry", "days_to_expiry", "days_to_expiry"}
    BY DEF ContractNames, PositioningNames, CurveMetrics, VolatilityNames, LiquidityMetrics,
           ShareMetrics, MetadataMetrics
  <2> QED
    BY <1>2, <2>1
<1> QED
  BY <1>1, <1>3, <1>4, NamesAre

(* The weighted sums of scores and of their opposites.                     *)
LEMMA WeightedSums ==
  ASSUME NEW S, IsFiniteSet(S), NEW w, \A s \in S : w[s] \in Nat,
         NEW x, NEW y, \A s \in S : x[s] \in Int /\ y[s] = -x[s]
  PROVE  /\ SumFunction([s \in S |-> w[s] * x[s]]) \in Int
         /\ SumFunction([s \in S |-> w[s] * y[s]]) = -SumFunction([s \in S |-> w[s] * x[s]])
<1>1. PICK f, g : f = [s \in S |-> w[s] * x[s]] /\ g = [s \in S |-> w[s] * y[s]]
  OBVIOUS
<1>2. ASSUME NEW s \in S PROVE f[s] \in Int /\ g[s] \in Int /\ g[s] = -f[s]
  <2>1. PICK i \in Int, j \in Int : i = w[s] /\ j = x[s]
    OBVIOUS
  <2>2. i * (-j) = -(i * j) /\ i * j \in Int /\ -(i * j) \in Int
    OBVIOUS
  <2> QED
    BY <1>1, <2>1, <2>2
<1>3. SumFunctionOnSet(g, S) = -SumFunctionOnSet(f, S)
  BY <1>2, SumNegated
<1>4. SumFunctionOnSet(f, S) \in Int
  BY <1>2, SumRemove
<1>5. SumFunction(f) = SumFunctionOnSet(f, S) /\ SumFunction(g) = SumFunctionOnSet(g, S)
  <2>1. DOMAIN f = S /\ DOMAIN g = S
    BY <1>1
  <2> QED
    BY <2>1, Zenon DEF SumFunction, SumFunctionOnSet, FoldFunction
<1> QED
  BY <1>1, <1>3, <1>4, <1>5
-----------------------------------------------------------------------------
(* Factors and direction.                                                  *)

LEMMA OppositeOf ==
  ASSUME NEW x \in Scores
  PROVE  /\ Opposite(x) \in Scores /\ (Opposite(x) = None <=> x = None)
         /\ x # None => x \in Int /\ Opposite(x) \in Int /\ Opposite(x) = -x
BY NoneIsNoNumber DEF Scores, Opposite

LEMMA FeatureWeightsAre ==
  ASSUME NEW f \in Factors
  PROVE  /\ DOMAIN FeatureWeights[f] \subseteq Signed \union {"rsi_14"}
         /\ DOMAIN FeatureWeights[f] \subseteq Names
         /\ IsFiniteSet(DOMAIN FeatureWeights[f])
         /\ \A n \in DOMAIN FeatureWeights[f] : FeatureWeights[f][n] \in Nat
         /\ MinimumCoverage[f] \in Nat \ {0}
<1>1. DOMAIN FeatureWeights[f] \subseteq Signed \union {"rsi_14"}
  BY DEF Factors, FeatureWeights, Signed, PriceNames, CurveMetrics
<1>2. DOMAIN FeatureWeights[f] \subseteq Names
  BY <1>1, NamesAre DEF Signed, PriceNames, PositioningNames
<1>3. \A n \in DOMAIN FeatureWeights[f] : FeatureWeights[f][n] \in Nat
  BY DEF Factors, FeatureWeights
<1>4. MinimumCoverage[f] \in Nat \ {0}
  BY DEF Factors, MinimumCoverage
<1> QED
  BY <1>1, <1>2, <1>3, <1>4, NamesFinite, FS_Subset

(* The mean of scores with a coverage, and that of their opposites.        *)
LEMMA MeanMirrored ==
  ASSUME NEW raw \in Int, NEW k \in Nat \ {0}
  PROVE  /\ clip(Over(raw, k), -100, 100) \in Int
         /\ clip(Over(-raw, k), -100, 100) = -clip(Over(raw, k), -100, 100)
BY OverIs, ClipOdd

LEMMA FactorMirrored ==
  ASSUME NEW f \in Factors, NEW m, NEW w, MetricsWhole(m), Reflected(m, w)
  PROVE  /\ score_factor(f, m).score \in Scores
         /\ score_factor(f, w).score = Opposite(score_factor(f, m).score)
<1> DEFINE W == FeatureWeights[f]
           S == {n \in DOMAIN W : m[n].score # None /\ m[n].status = "ok"}
<1>1. /\ DOMAIN W \subseteq Signed \union {"rsi_14"} /\ DOMAIN W \subseteq Names
      /\ IsFiniteSet(DOMAIN W) /\ \A n \in DOMAIN W : W[n] \in Nat
      /\ MinimumCoverage[f] \in Nat \ {0}
  BY FeatureWeightsAre
<1>2. \A n \in DOMAIN W : /\ m[n].score \in Scores /\ w[n].score = Opposite(m[n].score)
                          /\ w[n].status = m[n].status
  BY <1>1 DEF MetricsWhole, Reflected
<1>3. S = {n \in DOMAIN W : w[n].score # None /\ w[n].status = "ok"}
  BY <1>2, OppositeOf
<1>4. PICK x, y : x = [n \in S |-> m[n].score] /\ y = [n \in S |-> w[n].score]
  OBVIOUS
<1>5. \A n \in S : x[n] \in Int /\ y[n] = -x[n]
  BY <1>2, <1>4, OppositeOf
<1>6. IsFiniteSet(S) /\ \A n \in S : W[n] \in Nat
  BY <1>1, FS_Subset
<1>7. PICK k : k = SumFunctionOnSet(W, S)
  OBVIOUS
<1>8. k \in Nat
  BY <1>6, <1>7, SumNat
<1>9. PICK r : r = SumFunction([n \in S |-> W[n] * m[n].score])
  OBVIOUS
<1>10. r \in Int /\ SumFunction([n \in S |-> W[n] * w[n].score]) = -r
  <2>1. /\ [n \in S |-> W[n] * m[n].score] = [n \in S |-> W[n] * x[n]]
        /\ [n \in S |-> W[n] * w[n].score] = [n \in S |-> W[n] * y[n]]
    BY <1>4
  <2> HIDE DEF S, W
  <2>2. /\ SumFunction([n \in S |-> W[n] * x[n]]) \in Int
        /\ SumFunction([n \in S |-> W[n] * y[n]]) = -SumFunction([n \in S |-> W[n] * x[n]])
    BY <1>5, <1>6, WeightedSums
  <2> QED
    BY <1>9, <2>1, <2>2
<1>11. score_factor(f, m) =
         IF S = {} THEN Scored(None, "missing")
         ELSE IF S # {} /\ k < MinimumCoverage[f] THEN Scored(None, "insufficient")
         ELSE Scored(clip(Over(r, k), -100, 100), IF k = 100 THEN "ok" ELSE "partial")
  BY <1>7, <1>9, Zenon DEF score_factor
<1>12. score_factor(f, w) =
         IF S = {} THEN Scored(None, "missing")
         ELSE IF S # {} /\ k < MinimumCoverage[f] THEN Scored(None, "insufficient")
         ELSE Scored(clip(Over(-r, k), -100, 100), IF k = 100 THEN "ok" ELSE "partial")
  BY <1>3, <1>7, <1>10, Zenon DEF score_factor
<1> HIDE DEF S, W
<1>13. CASE S = {} \/ k < MinimumCoverage[f]
  <2>1. score_factor(f, m).score = None /\ score_factor(f, w).score = None
    BY <1>11, <1>12, <1>13 DEF Scored
  <2> QED
    BY <2>1 DEF Scores, Opposite
<1>14. CASE ~(S = {} \/ k < MinimumCoverage[f])
  <2>1. k \in Nat \ {0}
    BY <1>1, <1>8, <1>14
  <2>2. PICK s, z : s = clip(Over(r, k), -100, 100) /\ z = clip(Over(-r, k), -100, 100)
    OBVIOUS
  <2>3. s \in Int /\ z = -s
    BY <1>10, <2>1, <2>2, MeanMirrored
  <2>4. score_factor(f, m).score = s /\ score_factor(f, w).score = z
    BY <1>11, <1>12, <1>14, <2>2 DEF Scored
  <2> QED
    BY <2>3, <2>4, OppositeIs
<1> QED
  BY <1>13, <1>14

(* Scores of all factors, and of the mirrored ones.                        *)
FactorsWhole(t) == \A f \in Factors : t[f].score \in Scores
Turn(t, u) == \A f \in Factors : u[f].score = Opposite(t[f].score)

LEMMA FactorsMirrored ==
  ASSUME NEW m, NEW w, MetricsWhole(m), Reflected(m, w)
  PROVE  FactorsWhole(score_factors(m)) /\ Turn(score_factors(m), score_factors(w))
<1>1. \A f \in Factors : /\ score_factors(m)[f].score \in Scores
                         /\ score_factors(w)[f].score = Opposite(score_factors(m)[f].score)
  BY FactorMirrored DEF score_factors
<1> QED
  BY <1>1 DEF FactorsWhole, Turn

LEMMA DirectionWeights ==
  ASSUME NEW h \in {"swing", "position"}, NEW S \in SUBSET Factors
  PROVE  /\ IsFiniteSet(S) /\ \A f \in S : Config.direction[h][f] \in Nat
         /\ SumFunctionOnSet(Config.direction[h], S) \in Nat
         /\ Config.minimum_available_weight \in Nat \ {0}
<1>1. Config.direction[h] \in Weights(Factors) /\ Config.minimum_available_weight \in Nat \ {0}
  BY ScoringAssumption DEF ValidConfig
<1>2. \A f \in S : Config.direction[h][f] \in Nat
  BY <1>1 DEF Weights
<1>3. IsFiniteSet(S)
  <2>1. IsFiniteSet({"trend", "momentum", "positioning", "term_structure", "trend", "trend"})
    BY FewAreFinite
  <2>2. S \subseteq {"trend", "momentum", "positioning", "term_structure", "trend", "trend"}
    BY DEF Factors
  <2> QED
    BY <2>1, <2>2, FS_Subset
<1> QED
  BY <1>1, <1>2, <1>3, SumNat

LEMMA DirectionMirrored ==
  ASSUME NEW h \in {"swing", "position"}, NEW t, NEW u, FactorsWhole(t), Turn(t, u)
  PROVE  /\ assess_direction(h, t).score \in Scores
         /\ assess_direction(h, u).score = Opposite(assess_direction(h, t).score)
         /\ assess_direction(h, t).coverage \in Nat
         /\ assess_direction(h, u).coverage = assess_direction(h, t).coverage
<1> DEFINE W == Config.direction[h]
           S == {f \in Factors : t[f].score # None}
           K == Config.minimum_available_weight
<1>1. \A f \in Factors : t[f].score \in Scores /\ u[f].score = Opposite(t[f].score)
  BY DEF FactorsWhole, Turn
<1>2. S = {f \in Factors : u[f].score # None}
  BY <1>1, OppositeOf
<1>3. PICK x, y : x = [f \in S |-> t[f].score] /\ y = [f \in S |-> u[f].score]
  OBVIOUS
<1>4. \A f \in S : x[f] \in Int /\ y[f] = -x[f]
  BY <1>1, <1>3, OppositeOf
<1>5. S \in SUBSET Factors
  OBVIOUS
<1>6. /\ IsFiniteSet(S) /\ \A f \in S : W[f] \in Nat
      /\ SumFunctionOnSet(W, S) \in Nat /\ K \in Nat \ {0}
  BY <1>5, DirectionWeights
<1>7. PICK k \in Nat : k = SumFunctionOnSet(W, S)
  BY <1>6
<1>8. PICK r : r = SumFunction([f \in S |-> W[f] * t[f].score])
  OBVIOUS
<1>9. r \in Int /\ SumFunction([f \in S |-> W[f] * u[f].score]) = -r
  <2>1. /\ [f \in S |-> W[f] * t[f].score] = [f \in S |-> W[f] * x[f]]
        /\ [f \in S |-> W[f] * u[f].score] = [f \in S |-> W[f] * y[f]]
    BY <1>3
  <2> HIDE DEF S, W
  <2>2. /\ SumFunction([f \in S |-> W[f] * x[f]]) \in Int
        /\ SumFunction([f \in S |-> W[f] * y[f]]) = -SumFunction([f \in S |-> W[f] * x[f]])
    BY <1>4, <1>6, WeightedSums
  <2> QED
    BY <1>8, <2>1, <2>2
<1>10. LET s == IF k < K THEN None ELSE clip(Over(r, k), -100, 100)
       IN  assess_direction(h, t) = [score |-> s, label |-> Label(s), coverage |-> k]
  BY <1>7, <1>8, Zenon DEF assess_direction
<1>11. LET s == IF k < K THEN None ELSE clip(Over(-r, k), -100, 100)
       IN  assess_direction(h, u) = [score |-> s, label |-> Label(s), coverage |-> k]
  BY <1>2, <1>7, <1>9, Zenon DEF assess_direction
<1> HIDE DEF S, W, K
<1>12. CASE k < K
  <2>1. assess_direction(h, t).score = None /\ assess_direction(h, u).score = None
    BY <1>10, <1>11, <1>12
  <2> QED
    BY <1>10, <1>11, <2>1 DEF Scores, Opposite
<1>13. CASE ~(k < K)
  <2>1. k \in Nat \ {0}
    BY <1>6, <1>13
  <2>2. PICK s \in Int : s = clip(Over(r, k), -100, 100) /\ clip(Over(-r, k), -100, 100) = -s
    BY <1>9, <2>1, MeanMirrored
  <2>3. assess_direction(h, t).score = s /\ assess_direction(h, u).score = -s
    BY <1>10, <1>11, <1>13, <2>2
  <2> QED
    BY <1>10, <1>11, <2>3, OppositeIs
<1> QED
  BY <1>12, <1>13
-----------------------------------------------------------------------------
(* Quality and risk have no direction.                                     *)

LEMMA QualityIsWhole ==
  ASSUME NEW c \in MarketContexts
  PROVE  assess_quality(c).overall \in Int
<1>1. c.cont \in Int /\ c.bars \in Int /\ c.points \in Int /\ c.dte \in Int
  BY ContextIs
<1> DEFINE required == IF c.horizon = "swing" THEN 61 ELSE 121
           part(n, of) == clip((100 * n) \div of, 0, 100)
<1>2. required \in {61, 121}
  OBVIOUS
<1>3. part(c.cont, required) \in Int /\ part(c.bars, 21) \in Int
  BY <1>1, <1>2 DEF clip, AtLeast, AtMost
<1>4. PICK x, y : x = part(c.cont, required) /\ y = part(c.bars, 21)
  OBVIOUS
<1>5. x \in Int /\ y \in Int
  BY <1>3, <1>4
<1>6. PICK p, d : p = (IF c.points >= 2 THEN 100 ELSE 0) /\ d = (IF c.dte >= 0 THEN 100 ELSE 0)
  OBVIOUS
<1>7. p \in Int /\ d \in Int
  BY <1>6
<1>8. PICK coverage : coverage = (40 * x + 25 * y + 20 * p + 15 * d) \div 100
  OBVIOUS
<1>9. coverage \in Int
  BY <1>5, <1>7, <1>8
<1>10. PICK fresh : fresh = coverage - (IF StaleSources(c) # {} THEN 15 ELSE 0)
  OBVIOUS
<1>11. fresh \in Int
  BY <1>9, <1>10
<1>12. assess_quality(c).overall =
         clip(IF BlockingIssues(c) # {} THEN AtMost(fresh, 40) ELSE fresh, 0, 100)
  BY <1>4, <1>6, <1>8, <1>10 DEF assess_quality
<1>q. QED
  BY <1>11, <1>12 DEF clip, AtLeast, AtMost

LEMMA QualityMirrored ==
  ASSUME NEW c \in MarketContexts, NEW d, d = Mirror(c)
  PROVE  assess_quality(d) = assess_quality(c)
<1>1. /\ d.horizon = c.horizon /\ d.as_of = c.as_of /\ d.cont = c.cont /\ d.bars = c.bars
      /\ d.points = c.points /\ d.dte = c.dte /\ d.age = c.age
  BY MirrorIs
<1>2. StaleSources(d) = StaleSources(c)
  BY <1>1, Zenon DEF StaleSources
<1>3. FutureData(d) <=> FutureData(c)
  BY <1>1, SinceMirrored DEF FutureData
<1>4. BlockingIssues(d) = BlockingIssues(c)
  BY <1>1, <1>2, <1>3 DEF BlockingIssues, OnlyIf
<1> QED
  BY <1>1, <1>2, <1>4 DEF assess_quality

RiskNames == {"volatility_percentile", "liquidity_quality_score", "open_interest_percentile",
              "roll_risk_score", "price_limit_proximity_risk"}

LEMMA RiskNamesAre ==
  RiskNames \subseteq Names /\ RiskNames \cap (Signed \union {"rsi_14"}) = {}
BY NamesAre DEF RiskNames, Signed, PriceNames, ContractNames, CurveMetrics, VolatilityNames,
   LiquidityMetrics, ShareMetrics, MetadataMetrics

LEMMA RiskValueIs ==
  ASSUME NEW m, NEW n \in Names, MetricsWhole(m)
  PROVE  RiskValue(m, n) \in Scores
BY DEF MetricsWhole, RiskValue, When, Scores

LEMMA RiskValueMirrored ==
  ASSUME NEW m, NEW w, Reflected(m, w), NEW n \in RiskNames
  PROVE  RiskValue(w, n) = RiskValue(m, n)
<1>1. w[n].status = m[n].status /\ w[n].value = m[n].value
  BY RiskNamesAre DEF Reflected
<1> QED
  BY <1>1 DEF RiskValue, Usable, When

LEMMA RiskMirrored ==
  ASSUME NEW c \in MarketContexts, NEW d, d = Mirror(c), NEW m, NEW w, Reflected(m, w), NEW q
  PROVE  assess_risk(d, w, q) = assess_risk(c, m, q)
<1>1. PICK v, l, o, r, p :
        /\ v = RiskValue(m, "volatility_percentile") /\ l = RiskValue(m, "liquidity_quality_score")
        /\ o = RiskValue(m, "open_interest_percentile") /\ r = RiskValue(m, "roll_risk_score")
        /\ p = RiskValue(m, "price_limit_proximity_risk")
  OBVIOUS
<1>2. /\ v = RiskValue(w, "volatility_percentile") /\ l = RiskValue(w, "liquidity_quality_score")
      /\ o = RiskValue(w, "open_interest_percentile") /\ r = RiskValue(w, "roll_risk_score")
      /\ p = RiskValue(w, "price_limit_proximity_risk")
  BY <1>1, RiskValueMirrored DEF RiskNames
<1> DEFINE risks ==
             [volatility_risk |-> When(v # None, clip(2 * (v - 50), 0, 100)),
              liquidity_risk |-> When(l # None, clip(100 - l, 0, 100)),
              roll_risk |-> r,
              price_limit_risk |-> p,
              crowding_risk |-> When(o # None, clip(5 * (o - 80), 0, 100)),
              data_quality_risk |-> clip(100 - q.overall, 0, 100)]
<1>3. SoftRisks(m, q) = risks
  BY <1>1, Zenon DEF SoftRisks
<1>4. SoftRisks(w, q) = risks
  BY <1>2, Zenon DEF SoftRisks
<1>5. PICK soft : soft = SoftRisks(m, q) /\ soft = SoftRisks(w, q)
  BY <1>3, <1>4
<1>6. PICK days : days = c.dte /\ days = d.dte
  BY MirrorIs
<1> HIDE DEF risks
<1> DEFINE gates ==
      OnlyIf(l # None /\ l < Config.hard_gates.minimum_liquidity_quality,
             {Gate("liquidity_risk", AtLeast(soft.liquidity_risk, 85))})
        \union OnlyIf(p # None /\ p >= 90, {Gate("price_limit_risk", p)})
        \union OnlyIf(q.overall < Config.hard_gates.minimum_data_quality,
                      {Gate("data_quality_risk", AtLeast(soft.data_quality_risk, 90))})
        \union OnlyIf(l = None, {Gate("unknown_liquidity_risk", 100)})
        \union OnlyIf(p = None, {Gate("unknown_price_limit_risk", 100)})
        \union OnlyIf(days < Config.hard_gates.minimum_days_to_expiry, {Gate("expiry_hard_gate", 100)})
<1>7. HardGates(c, m, q) = gates
  BY <1>1, <1>5, <1>6, Zenon DEF HardGates
<1>8. HardGates(d, w, q) = gates
  BY <1>2, <1>5, <1>6, Zenon DEF HardGates
<1> HIDE DEF gates
<1>9. PICK known, g : /\ known = {n \in DOMAIN soft : soft[n] # None}
                      /\ g = gates
  OBVIOUS
<1> DEFINE risk ==
      [score |-> clip(Max({SumFunction([n \in known |-> SoftWeights[n] * soft[n]])
                              \div SumFunctionOnSet(SoftWeights, known)}
                            \union {x.severity : x \in g}), 0, 100),
       codes |-> {x.code : x \in g},
       hard_gate_triggered |-> g # {}]
<1>10. assess_risk(c, m, q) = risk
  BY <1>5, <1>7, <1>9, Zenon DEF assess_risk
<1>11. assess_risk(d, w, q) = risk
  BY <1>5, <1>8, <1>9, Zenon DEF assess_risk
<1> HIDE DEF risk
<1> QED
  BY <1>10, <1>11

(* The risks that have codes.                                              *)
SoftNames == {"volatility_risk", "liquidity_risk", "roll_risk", "price_limit_risk", "crowding_risk",
              "data_quality_risk"}

LEMMA SoftRisksWhole ==
  ASSUME NEW m, MetricsWhole(m), NEW q, q.overall \in Int
  PROVE  /\ DOMAIN SoftRisks(m, q) = SoftNames
         /\ \A n \in SoftNames : SoftRisks(m, q)[n] \in Scores
         /\ SoftRisks(m, q).data_quality_risk \in Int
         /\ RiskValue(m, "liquidity_quality_score") # None => SoftRisks(m, q).liquidity_risk \in Int
<1>1. PICK v, l, o, r, p :
        /\ v = RiskValue(m, "volatility_percentile") /\ l = RiskValue(m, "liquidity_quality_score")
        /\ o = RiskValue(m, "open_interest_percentile") /\ r = RiskValue(m, "roll_risk_score")
        /\ p = RiskValue(m, "price_limit_proximity_risk")
  OBVIOUS
<1>2. v \in Scores /\ l \in Scores /\ o \in Scores /\ r \in Scores /\ p \in Scores
  BY <1>1, RiskNamesAre, RiskValueIs DEF RiskNames
<1>3. SoftRisks(m, q) =
        [volatility_risk |-> When(v # None, clip(2 * (v - 50), 0, 100)),
         liquidity_risk |-> When(l # None, clip(100 - l, 0, 100)),
         roll_risk |-> r,
         price_limit_risk |-> p,
         crowding_risk |-> When(o # None, clip(5 * (o - 80), 0, 100)),
         data_quality_risk |-> clip(100 - q.overall, 0, 100)]
  BY <1>1, Zenon DEF SoftRisks
<1>4. ASSUME NEW x \in Int PROVE clip(x, 0, 100) \in Int
  BY BoundIs DEF clip
<1>5. /\ When(v # None, clip(2 * (v - 50), 0, 100)) \in Scores
      /\ When(o # None, clip(5 * (o - 80), 0, 100)) \in Scores
      /\ When(l # None, clip(100 - l, 0, 100)) \in Scores
  <2>1. v # None => 2 * (v - 50) \in Int
    BY <1>2 DEF Scores
  <2>2. o # None => 5 * (o - 80) \in Int
    BY <1>2 DEF Scores
  <2>3. l # None => 100 - l \in Int
    BY <1>2 DEF Scores
  <2> QED
    BY <1>4, <2>1, <2>2, <2>3 DEF When, Scores
<1>6. clip(100 - q.overall, 0, 100) \in Int
  <2>1. 100 - q.overall \in Int
    OBVIOUS
  <2> QED
    BY <1>4, <2>1
<1>7. l # None => When(l # None, clip(100 - l, 0, 100)) \in Int
  <2>1. l # None => 100 - l \in Int
    BY <1>2 DEF Scores
  <2> QED
    BY <1>4, <2>1 DEF When
<1>8. DOMAIN SoftRisks(m, q) = SoftNames
  BY <1>3 DEF SoftNames
<1>9. /\ SoftRisks(m, q).data_quality_risk = clip(100 - q.overall, 0, 100)
      /\ SoftRisks(m, q).liquidity_risk = When(l # None, clip(100 - l, 0, 100))
  BY <1>3
<1>10. \A n \in SoftNames : SoftRisks(m, q)[n] \in Scores
  <2>1. PICK a, b, e, f : /\ a = When(v # None, clip(2 * (v - 50), 0, 100))
                          /\ b = When(l # None, clip(100 - l, 0, 100))
                          /\ e = When(o # None, clip(5 * (o - 80), 0, 100))
                          /\ f = clip(100 - q.overall, 0, 100)
    OBVIOUS
  <2>2. a \in Scores /\ b \in Scores /\ e \in Scores /\ f \in Scores
    BY <1>5, <1>6, <2>1 DEF Scores
  <2>3. SoftRisks(m, q) = [volatility_risk |-> a, liquidity_risk |-> b, roll_risk |-> r,
                           price_limit_risk |-> p, crowding_risk |-> e, data_quality_risk |-> f]
    BY <1>3, <2>1, Zenon
  <2> QED
    BY <1>2, <2>2, <2>3 DEF SoftNames
<1> QED
  BY <1>1, <1>6, <1>7, <1>8, <1>9, <1>10

LEMMA RiskWhole ==
  ASSUME NEW c \in MarketContexts, NEW m, MetricsWhole(m), NEW q, q.overall \in Int
  PROVE  assess_risk(c, m, q).score \in Int
<1>1. PICK soft : soft = SoftRisks(m, q)
  OBVIOUS
<1>2. /\ DOMAIN soft = SoftNames /\ \A n \in SoftNames : soft[n] \in Scores
      /\ soft.data_quality_risk \in Int
      /\ RiskValue(m, "liquidity_quality_score") # None => soft.liquidity_risk \in Int
  BY <1>1, SoftRisksWhole
<1> DEFINE known == {n \in SoftNames : soft[n] # None}
<1>3. IsFiniteSet(known)
  <2>1. IsFiniteSet(SoftNames)
    BY FewAreFinite DEF SoftNames
  <2> QED
    BY <2>1, FS_Subset
<1>4. \A n \in SoftNames : SoftWeights[n] \in Nat
  BY DEF SoftWeights, SoftNames
<1>5. "data_quality_risk" \in known /\ SoftWeights["data_quality_risk"] = 10
  BY <1>2, NoneIsNoNumber DEF SoftNames, SoftWeights
<1>6. PICK total : total = SumFunctionOnSet(SoftWeights, known)
  OBVIOUS
<1>7. total \in Nat \ {0}
  <2>1. \A n \in known : SoftWeights[n] \in Nat
    BY <1>4
  <2>2. total \in Nat /\ total >= SoftWeights["data_quality_risk"]
    <3> HIDE DEF known
    <3> QED
      BY <1>3, <1>5, <1>6, <2>1, SumNat
  <2> QED
    BY <1>5, <2>2
<1>8. PICK raw : raw = SumFunction([n \in known |-> SoftWeights[n] * soft[n]])
  OBVIOUS
<1>9. raw \in Int
  <2>1. \A n \in known : SoftWeights[n] \in Nat
    BY <1>4
  <2>2. PICK y : y = [n \in known |-> -soft[n]]
    OBVIOUS
  <2>3. \A n \in known : soft[n] \in Int /\ y[n] = -soft[n]
    BY <1>2, <2>2 DEF Scores
  <2> HIDE DEF known
  <2>4. /\ SumFunction([n \in known |-> SoftWeights[n] * soft[n]]) \in Int
        /\ SumFunction([n \in known |-> SoftWeights[n] * y[n]])
             = -SumFunction([n \in known |-> SoftWeights[n] * soft[n]])
    BY <1>3, <2>1, <2>3, WeightedSums
  <2> QED
    BY <1>8, <2>4
<1>10. PICK mean \in Int : mean = raw \div total
  BY <1>7, <1>9
<1> DEFINE gates == HardGates(c, m, q)
           severities == {mean} \union {g.severity : g \in gates}
<1>11. assess_risk(c, m, q).score = clip(Max(severities), 0, 100)
  BY <1>1, <1>2, <1>6, <1>8, <1>10, Zenon DEF assess_risk
<1>12. PICK a, b, e :
         /\ a = AtLeast(soft.liquidity_risk, 85) /\ b = RiskValue(m, "price_limit_proximity_risk")
         /\ e = AtLeast(soft.data_quality_risk, 90)
  OBVIOUS
<1>13. /\ RiskValue(m, "liquidity_quality_score") # None => a \in Int
       /\ b # None => b \in Int
       /\ e \in Int
  <2>1. b \in Scores
    BY <1>12, RiskNamesAre, RiskValueIs DEF RiskNames
  <2>2. \A x \in Int : AtLeast(x, 85) \in Int /\ AtLeast(x, 90) \in Int
    BY DEF AtLeast
  <2>3. e \in Int
    BY <1>2, <1>12, <2>2
  <2>4. RiskValue(m, "liquidity_quality_score") # None => a \in Int
    BY <1>2, <1>12, <2>2
  <2> QED
    BY <2>1, <2>3, <2>4 DEF Scores
<1>14. \A g \in gates :
         \/ RiskValue(m, "liquidity_quality_score") # None /\ g.severity = a
         \/ b # None /\ g.severity = b
         \/ g.severity = e \/ g.severity = 100
  BY <1>1, <1>12 DEF HardGates, OnlyIf, Gate
<1>15. severities \subseteq {mean, a, b, e, 100} /\ \A x \in severities : x \in Int
  BY <1>10, <1>13, <1>14
<1>16. IsFiniteSet(severities)
  <2>1. IsFiniteSet({mean, a, b, e, 100, 100})
    BY FewAreFinite
  <2>2. severities \subseteq {mean, a, b, e, 100, 100}
    BY <1>15
  <2> HIDE DEF severities
  <2> QED
    BY <2>1, <2>2, FS_Subset
<1>17. Max(severities) \in severities
  <2>1. severities # {}
    OBVIOUS
  <2> HIDE DEF severities
  <2> QED
    BY <1>15, <1>16, <2>1, MaxIs
<1>18. Max(severities) \in Int
  <2> HIDE DEF severities
  <2> QED
    BY <1>15, <1>17
<1> HIDE DEF severities
<1> QED
  BY <1>11, <1>18, BoundIs DEF clip
-----------------------------------------------------------------------------
(* Confidence: of opposite directions the same.                            *)

LEMMA UsableMirrored ==
  ASSUME NEW m, NEW w, MetricsWhole(m), Reflected(m, w), NEW n \in Names
  PROVE  Usable(w[n]) <=> Usable(m[n])
<1>1. w[n].status = m[n].status /\ m[n].value \in Scores
  BY DEF MetricsWhole, Reflected
<1>2. w[n].value = None <=> m[n].value = None
  <2>1. CASE n \in Signed
    BY <1>1, <2>1, OppositeOf DEF Reflected
  <2>2. CASE n = "rsi_14"
    BY <1>1, <2>2, NoneIsNoNumber DEF Reflected, Scores
  <2>3. CASE n \notin Signed \union {"rsi_14"}
    BY <2>3 DEF Reflected
  <2> QED
    BY <2>1, <2>2, <2>3
<1> QED
  BY <1>1, <1>2 DEF Usable

LEMMA FreshnessWhole ==
  ASSUME NEW c \in Contexts, NEW m, m = compute(c)
  PROVE  freshness(c, m) \in Int
<1> DEFINE valid == {n \in Names : Usable(m[n])}
           age(n) == AtLeast(c.as_of - m[n].available_at, 0)
<1>1. IsFiniteSet(valid)
  BY NamesFinite, FS_Subset
<1>2. PICK f : f = [n \in valid |-> Freshness[age(n)]]
  OBVIOUS
<1>3. \A n \in valid : f[n] \in Int
  <2> SUFFICES ASSUME NEW n \in valid PROVE f[n] \in Int
    OBVIOUS
  <2>1. age(n) \in DOMAIN Freshness
    BY MetricOf, ShadowAssumption
  <2>2. Freshness[age(n)] \in 0..100
    BY <2>1, ScoringAssumption
  <2>3. f[n] = Freshness[age(n)]
    BY <1>2
  <2> HIDE DEF age
  <2> QED
    BY <2>2, <2>3
<1>4. SumFunction(f) \in Int
  <2>1. SumFunctionOnSet(f, valid) \in Int
    <3> HIDE DEF valid
    <3> QED
      BY <1>1, <1>3, SumRemove
  <2>2. DOMAIN f = valid
    BY <1>2
  <2> HIDE DEF valid
  <2> QED
    BY <2>1, <2>2, Zenon DEF SumFunction
<1>5. freshness(c, m) = IF valid = {} THEN 0 ELSE SumFunction(f) \div Cardinality(valid)
  BY <1>2, Zenon DEF freshness
<1>6. valid # {} => Cardinality(valid) \in Nat \ {0}
  <2> HIDE DEF valid
  <2> QED
    BY <1>1, FS_CardinalityType, FS_EmptySet
<1> HIDE DEF valid
<1> QED
  BY <1>4, <1>5, <1>6

LEMMA FreshnessMirrored ==
  ASSUME NEW c \in MarketContexts, NEW d, d = Mirror(c), NEW m, NEW w, MetricsWhole(m),
         Reflected(m, w)
  PROVE  freshness(d, w) = freshness(c, m)
<1>1. d.as_of = c.as_of /\ \A n \in Names : w[n].available_at = m[n].available_at
  BY MirrorIs DEF Reflected
<1>2. PICK valid : valid = {n \in Names : Usable(m[n])}
  OBVIOUS
<1>3. valid = {n \in Names : Usable(w[n])} /\ valid \subseteq Names
  BY <1>2, UsableMirrored
<1>4. PICK f : f = [n \in valid |-> Freshness[AtLeast(c.as_of - m[n].available_at, 0)]]
  OBVIOUS
<1>5. f = [n \in valid |-> Freshness[AtLeast(d.as_of - w[n].available_at, 0)]]
  BY <1>1, <1>3, <1>4
<1>6. freshness(c, m) = IF valid = {} THEN 0 ELSE SumFunction(f) \div Cardinality(valid)
  BY <1>2, <1>4, Zenon DEF freshness
<1>7. freshness(d, w) = IF valid = {} THEN 0 ELSE SumFunction(f) \div Cardinality(valid)
  BY <1>3, <1>5, Zenon DEF freshness
<1> QED
  BY <1>6, <1>7

LEMMA AgreementWhole ==
  ASSUME NEW h \in {"swing", "position"}, NEW direction, NEW t
  PROVE  agreement(h, direction, t) \in Scores
<1> DEFINE W == Config.direction[h]
           available == {f \in Factors : t[f].score # None}
           opposing == {f \in available : /\ Abs(t[f].score) >= 20
                                          /\ t[f].score * Sign(direction.score) < 0}
<1>1. available \in SUBSET Factors /\ opposing \in SUBSET Factors
  OBVIOUS
<1>2. PICK x \in Nat, y \in Nat : x = SumFunctionOnSet(W, available) /\ y = SumFunctionOnSet(W, opposing)
  <2> HIDE DEF available, opposing
  <2> QED
    BY <1>1, DirectionWeights
<1>3. agreement(h, direction, t) =
        IF direction.score = None THEN None
        ELSE IF direction.score = 0 THEN None
        ELSE IF x = 0 THEN 0
        ELSE (100 * (x - y)) \div x
  BY <1>2, Zenon DEF agreement
<1> QED
  BY <1>2, <1>3 DEF Scores

LEMMA AgreementMirrored ==
  ASSUME NEW h, NEW p, NEW q, p.score \in Scores, q.score = Opposite(p.score),
         NEW t, NEW u, FactorsWhole(t), Turn(t, u)
  PROVE  agreement(h, q, u) = agreement(h, p, t)
<1>1. CASE p.score = None \/ p.score = 0
  <2>1. /\ q.score = None \/ q.score = 0
        /\ p.score = None => q.score = None
    <3>1. CASE p.score = None
      BY <3>1 DEF Opposite
    <3>2. CASE p.score = 0
      <4>1. q.score \in Int /\ q.score <= 0 /\ q.score >= 0
        BY <3>2, NoneIsNoNumber DEF Opposite
      <4>2. p.score # None
        BY <3>2, NoneIsNoNumber
      <4> QED
        BY <4>1, <4>2
    <3> QED
      BY <1>1, <3>1, <3>2
  <2>2. agreement(h, p, t) = None /\ agreement(h, q, u) = None
    BY <1>1, <2>1 DEF agreement
  <2> QED
    BY <2>2
<1>2. CASE p.score # None /\ p.score # 0
  <2>1. PICK s \in Int : s = p.score /\ q.score = -s /\ s # 0 /\ -s # 0 /\ -s # None
    BY <1>2, OppositeOf, NoneIsNoNumber DEF Scores
  <2>2. ASSUME NEW x \in Int
        PROVE  (-x) * Sign(-s) < 0 <=> x * Sign(s) < 0
    BY <2>1 DEF Sign
  <2> DEFINE available == {f \in Factors : t[f].score # None}
             opposing == {f \in available : /\ Abs(t[f].score) >= 20
                                            /\ t[f].score * Sign(s) < 0}
  <2>3. \A f \in Factors : t[f].score \in Scores /\ u[f].score = Opposite(t[f].score)
    BY DEF FactorsWhole, Turn
  <2>4. available = {f \in Factors : u[f].score # None}
    BY <2>3, OppositeOf
  <2>5. opposing = {f \in available : /\ Abs(u[f].score) >= 20
                                      /\ u[f].score * Sign(q.score) < 0}
    <3> SUFFICES ASSUME NEW f \in available
                 PROVE  (Abs(t[f].score) >= 20 /\ t[f].score * Sign(s) < 0)
                          <=> (Abs(u[f].score) >= 20 /\ u[f].score * Sign(q.score) < 0)
      OBVIOUS
    <3>1. PICK x \in Int : x = t[f].score /\ u[f].score = -x
      BY <2>3, OppositeOf
    <3>2. Abs(-x) = Abs(x)
      BY AbsIs
    <3> QED
      BY <2>1, <2>2, <3>1, <3>2
  <2>6. PICK x, y, z, a, b : /\ x = s /\ y = -s
                 /\ a = available /\ b = opposing
                 /\ z = SumFunctionOnSet(Config.direction[h], a)
    OBVIOUS
  <2> DEFINE agreed == IF z = 0 THEN 0
                       ELSE (100 * (z - SumFunctionOnSet(Config.direction[h], b))) \div z
  <2>7. agreement(h, p, t) =
          IF p.score = None THEN None ELSE IF p.score = 0 THEN None ELSE agreed
    BY <2>1, <2>6, Zenon DEF agreement
  <2>8. agreement(h, q, u) =
          IF q.score = None THEN None ELSE IF q.score = 0 THEN None ELSE agreed
    BY <2>4, <2>5, <2>6, Zenon DEF agreement
  <2> HIDE DEF agreed
  <2> QED
    BY <1>2, <2>1, <2>7, <2>8
<1> QED
  BY <1>1, <1>2

ConfidenceNames == {"coverage", "freshness", "agreement", "data_quality", "historical_calibration"}

LEMMA ConfidenceWhole ==
  ASSUME NEW c \in Contexts, c \in MarketContexts, NEW m, m = compute(c), NEW q, q.overall \in Int,
         NEW direction, direction.coverage \in Int, NEW t
  PROVE  assess_confidence(c, t, direction, m, q) \in Int
<1>1. PICK x : x = [coverage |-> direction.coverage, freshness |-> freshness(c, m),
                    agreement |-> agreement(c.horizon, direction, t),
                    data_quality |-> q.overall, historical_calibration |-> None]
  OBVIOUS
<1>2. DOMAIN x = ConfidenceNames /\ \A n \in ConfidenceNames : x[n] \in Scores
  <2>1. freshness(c, m) \in Int /\ agreement(c.horizon, direction, t) \in Scores
    BY FreshnessWhole, AgreementWhole, ContextIs
  <2> QED
    BY <1>1, <2>1 DEF ConfidenceNames, Scores
<1>3. PICK known : known = {n \in ConfidenceNames : x[n] # None}
  OBVIOUS
<1>4. IsFiniteSet(known)
  <2>1. IsFiniteSet({"coverage", "freshness", "agreement", "data_quality", "historical_calibration",
                     "coverage"})
    BY FewAreFinite
  <2>2. known \subseteq {"coverage", "freshness", "agreement", "data_quality",
                         "historical_calibration", "coverage"}
    BY <1>3 DEF ConfidenceNames
  <2> QED
    BY <2>1, <2>2, FS_Subset
<1>5. PICK w : w = Config.confidence
  OBVIOUS
<1>6. \A n \in known : w[n] \in Nat
  <2>1. w \in Weights(ConfidenceNames)
    BY <1>5, ScoringAssumption DEF ValidConfig, ConfidenceNames
  <2> QED
    BY <1>3, <2>1 DEF Weights
<1>7. PICK weight \in Nat : weight = SumFunctionOnSet(w, known)
  BY <1>4, <1>6, SumNat
<1>8. PICK raw : raw = SumFunction([n \in known |-> w[n] * x[n]])
  OBVIOUS
<1>9. raw \in Int
  <2>1. PICK y : y = [n \in known |-> -x[n]]
    OBVIOUS
  <2>2. \A n \in known : x[n] \in Int /\ y[n] = -x[n]
    BY <1>2, <1>3, <2>1 DEF Scores
  <2>3. /\ SumFunction([n \in known |-> w[n] * x[n]]) \in Int
        /\ SumFunction([n \in known |-> w[n] * y[n]]) = -SumFunction([n \in known |-> w[n] * x[n]])
    BY <1>4, <1>6, <2>2, WeightedSums
  <2> QED
    BY <1>8, <2>3
<1>10. assess_confidence(c, t, direction, m, q) = IF weight = 0 THEN 0 ELSE raw \div weight
  BY <1>1, <1>2, <1>3, <1>5, <1>7, <1>8, Zenon DEF assess_confidence
<1> QED
  BY <1>7, <1>9, <1>10

LEMMA ConfidenceMirrored ==
  ASSUME NEW c \in MarketContexts, NEW d, d = Mirror(c), NEW m, NEW w, MetricsWhole(m),
         Reflected(m, w), NEW t, NEW u, FactorsWhole(t), Turn(t, u), NEW q,
         NEW p, NEW o, p.score \in Scores, o.score = Opposite(p.score), o.coverage = p.coverage
  PROVE  assess_confidence(d, u, o, w, q) = assess_confidence(c, t, p, m, q)
<1>1. PICK x : x = [coverage |-> p.coverage, freshness |-> freshness(c, m),
                    agreement |-> agreement(c.horizon, p, t),
                    data_quality |-> q.overall, historical_calibration |-> None]
  OBVIOUS
<1>2. x = [coverage |-> o.coverage, freshness |-> freshness(d, w),
           agreement |-> agreement(d.horizon, o, u),
           data_quality |-> q.overall, historical_calibration |-> None]
  <2>1. d.horizon = c.horizon
    BY MirrorIs
  <2>2. agreement(c.horizon, o, u) = agreement(c.horizon, p, t)
    BY AgreementMirrored
  <2>3. freshness(d, w) = freshness(c, m)
    BY FreshnessMirrored
  <2> QED
    BY <1>1, <2>1, <2>2, <2>3
<1>3. PICK known : known = {n \in DOMAIN x : x[n] # None}
  OBVIOUS
<1> DEFINE confidence ==
      IF SumFunctionOnSet(Config.confidence, known) = 0 THEN 0
      ELSE SumFunction([n \in known |-> Config.confidence[n] * x[n]])
             \div SumFunctionOnSet(Config.confidence, known)
<1>4. assess_confidence(c, t, p, m, q) = confidence
  BY <1>1, <1>3, Zenon DEF assess_confidence
<1>5. assess_confidence(d, u, o, w, q) = confidence
  BY <1>2, <1>3, Zenon DEF assess_confidence
<1> HIDE DEF confidence
<1> QED
  BY <1>4, <1>5
-----------------------------------------------------------------------------
(* What is concluded of opposite scores: the regime.                       *)

LEMMA ImageCounted ==
  ASSUME NEW S, IsFiniteSet(S), NEW f, \A x \in S, y \in S : f[x] = f[y] => x = y
  PROVE  Cardinality({f[x] : x \in S}) = Cardinality(S)
<1>1. PICK T : T = {f[x] : x \in S}
  OBVIOUS
<1>2. PICK g : g = [x \in S |-> f[x]]
  OBVIOUS
<1>3. g \in Surjection(S, T) /\ g \in Injection(S, T)
  <2>1. g \in [S -> T] /\ \A t \in T : \E s \in S : g[s] = t
    BY <1>1, <1>2
  <2>2. \A a, b \in S : g[a] = g[b] => a = b
    BY <1>2
  <2> QED
    BY <2>1, <2>2 DEF Surjection, Injection, IsInjective
<1>4. Cardinality(T) = Cardinality(S)
  BY <1>3, FS_Surjection
<1> QED
  BY <1>1, <1>4

OtherTrend ==
  [strong_bull_trend |-> "strong_bear_trend", weak_bull_trend |-> "weak_bear_trend",
   strong_bear_trend |-> "strong_bull_trend", weak_bear_trend |-> "weak_bull_trend",
   range |-> "range", insufficient_data |-> "insufficient_data"]

LEMMA PrimaryMirrored ==
  ASSUME NEW x \in Scores
  PROVE  /\ PrimaryRegime(x) \in DOMAIN OtherTrend
         /\ PrimaryRegime(Opposite(x)) = OtherTrend[PrimaryRegime(x)]
<1>1. CASE x = None
  BY <1>1 DEF PrimaryRegime, OtherTrend, Opposite
<1>2. CASE x # None
  <2>1. x \in Int /\ Opposite(x) = -x /\ -x # None
    BY <1>2, NoneIsNoNumber DEF Scores, Opposite
  <2> QED
    BY <1>2, <2>1 DEF PrimaryRegime, OtherTrend
<1> QED
  BY <1>1, <1>2

OtherLabel ==
  [trend_acceleration |-> "trend_acceleration", trend_deceleration |-> "trend_deceleration",
   pullback_in_bull_trend |-> "rebound_in_bear_trend",
   rebound_in_bear_trend |-> "pullback_in_bull_trend",
   backwardation_strengthening |-> "contango_strengthening",
   contango_strengthening |-> "backwardation_strengthening",
   backwardation_weakening |-> "contango_weakening",
   contango_weakening |-> "backwardation_weakening",
   position_building |-> "position_building", position_liquidation |-> "position_liquidation"]

Others(S) == {OtherLabel[l] : l \in S}

LEMMA TrendLabelMirrored ==
  ASSUME NEW x \in Scores, NEW y \in Scores
  PROVE  /\ TrendLabel(x, y) \subseteq DOMAIN OtherLabel
         /\ TrendLabel(Opposite(x), Opposite(y)) = Others(TrendLabel(x, y))
<1>1. CASE x = None \/ y = None
  BY <1>1 DEF TrendLabel, Others, Opposite
<1>2. CASE x # None /\ y # None
  <2>1. /\ x \in Int /\ Opposite(x) = -x /\ -x # None
        /\ y \in Int /\ Opposite(y) = -y /\ -y # None
    BY <1>2, NoneIsNoNumber DEF Scores, Opposite
  <2>2. Abs(-x) = Abs(x) /\ Abs(-y) = Abs(y) /\ Abs(x) \in Int /\ Abs(y) \in Int
    BY <2>1, AbsIs
  <2>3. TrendLabel(x, y) \subseteq DOMAIN OtherLabel
    BY <1>2 DEF TrendLabel, OtherLabel
  <2>4. PICK l : l = IF x >= 20 /\ y >= 40 THEN {"trend_acceleration"}
                     ELSE IF x <= -20 /\ y <= -40 THEN {"trend_acceleration"}
                     ELSE IF x >= 20 /\ y <= -20 THEN {"pullback_in_bull_trend"}
                     ELSE IF x <= -20 /\ y >= 20 THEN {"rebound_in_bear_trend"}
                     ELSE IF Abs(y) < 15 /\ Abs(x) >= 30 THEN {"trend_deceleration"}
                     ELSE {}
    OBVIOUS
  <2>5. TrendLabel(x, y) = l
    BY <1>2, <2>4 DEF TrendLabel
  <2>6. TrendLabel(-x, -y) =
          IF x >= 20 /\ y >= 40 THEN {"trend_acceleration"}
          ELSE IF x <= -20 /\ y <= -40 THEN {"trend_acceleration"}
          ELSE IF x >= 20 /\ y <= -20 THEN {"rebound_in_bear_trend"}
          ELSE IF x <= -20 /\ y >= 20 THEN {"pullback_in_bull_trend"}
          ELSE IF Abs(y) < 15 /\ Abs(x) >= 30 THEN {"trend_deceleration"}
          ELSE {}
    BY <1>2, <2>1, <2>2 DEF TrendLabel
  <2>7. /\ Others({}) = {}
        /\ Others({"trend_acceleration"}) = {"trend_acceleration"}
        /\ Others({"pullback_in_bull_trend"}) = {"rebound_in_bear_trend"}
        /\ Others({"rebound_in_bear_trend"}) = {"pullback_in_bull_trend"}
        /\ Others({"trend_deceleration"}) = {"trend_deceleration"}
    BY DEF Others, OtherLabel
  <2>8. TrendLabel(-x, -y) = Others(TrendLabel(x, y))
    BY <2>4, <2>5, <2>6, <2>7
  <2> QED
    BY <2>1, <2>3, <2>8
<1> QED
  BY <1>1, <1>2

LEMMA CurveLabelMirrored ==
  ASSUME NEW x \in Scores, NEW y \in Scores
  PROVE  /\ CurveLabel(x, y) \subseteq DOMAIN OtherLabel
         /\ CurveLabel(Opposite(x), Opposite(y)) = Others(CurveLabel(x, y))
<1>0. /\ Others({}) = {}
      /\ Others({"backwardation_strengthening"}) = {"contango_strengthening"}
      /\ Others({"contango_strengthening"}) = {"backwardation_strengthening"}
      /\ Others({"backwardation_weakening"}) = {"contango_weakening"}
      /\ Others({"contango_weakening"}) = {"backwardation_weakening"}
  BY DEF Others, OtherLabel
<1>s. CurveLabel(x, y) \subseteq DOMAIN OtherLabel
  BY DEF CurveLabel, OtherLabel
<1>1. CASE x = None
  BY <1>0, <1>1, <1>s DEF CurveLabel, Opposite
<1>2. CASE x # None
  <2>1. x \in Int /\ Opposite(x) = -x /\ -x # None /\ Abs(-x) = Abs(x) /\ Abs(x) \in Int
    BY <1>2, NoneIsNoNumber, AbsIs DEF Scores, Opposite
  <2>2. CASE Abs(x) < 30
    <3>1. CurveLabel(x, y) = {} /\ CurveLabel(-x, Opposite(y)) = {}
      BY <2>1, <2>2 DEF CurveLabel
    <3> QED
      BY <1>0, <2>1, <3>1
  <2>3. CASE ~(Abs(x) < 30) /\ y = None
    <3>1. Opposite(y) = None /\ (-x > 0 <=> ~(x > 0))
      BY <2>1, <2>3 DEF Opposite, Abs
    <3>2. /\ CurveLabel(x, y) =
                {IF x > 0 THEN "backwardation_strengthening" ELSE "contango_strengthening"}
          /\ CurveLabel(-x, None) =
                {IF x > 0 THEN "contango_strengthening" ELSE "backwardation_strengthening"}
      BY <1>2, <2>1, <2>3, <3>1 DEF CurveLabel
    <3> QED
      BY <1>0, <1>s, <2>1, <3>1, <3>2
  <2>4. CASE ~(Abs(x) < 30) /\ y # None
    <3>1. y \in Int /\ Opposite(y) = -y /\ -y # None /\ (-x > 0 <=> ~(x > 0))
      BY <2>1, <2>4, NoneIsNoNumber DEF Opposite, Abs, Scores
    <3>2. /\ CurveLabel(x, y) =
                IF x > 0
                THEN {IF y >= 0 THEN "backwardation_strengthening" ELSE "backwardation_weakening"}
                ELSE {IF y <= 0 THEN "contango_strengthening" ELSE "contango_weakening"}
          /\ CurveLabel(-x, -y) =
                IF x > 0
                THEN {IF y >= 0 THEN "contango_strengthening" ELSE "contango_weakening"}
                ELSE {IF y <= 0 THEN "backwardation_strengthening" ELSE "backwardation_weakening"}
      BY <1>2, <2>1, <2>4, <3>1 DEF CurveLabel
    <3> QED
      BY <1>0, <1>s, <2>1, <3>1, <3>2
  <2> QED
    BY <2>2, <2>3, <2>4
<1> QED
  BY <1>1, <1>2

LEMMA PositionLabelMirrored ==
  ASSUME NEW oi, NEW x \in Scores
  PROVE  /\ PositionLabel(oi, x) \subseteq DOMAIN OtherLabel
         /\ PositionLabel(oi, Opposite(x)) = Others(PositionLabel(oi, x))
<1>1. Opposite(x) = None <=> x = None
  BY OppositeOf
<1>2. x # None => Abs(Opposite(x)) = Abs(x)
  BY OppositeOf, AbsIs
<1>3. PositionLabel(oi, Opposite(x)) = PositionLabel(oi, x)
  BY <1>1, <1>2 DEF PositionLabel
<1>4. PositionLabel(oi, x) \in {{}, {"position_building"}, {"position_liquidation"}}
  BY DEF PositionLabel
<1>5. Others(PositionLabel(oi, x)) = PositionLabel(oi, x)
  BY <1>4 DEF Others, OtherLabel
<1> QED
  BY <1>3, <1>4, <1>5 DEF OtherLabel

LEMMA OthersCounted ==
  ASSUME NEW S, S \subseteq DOMAIN OtherLabel
  PROVE  Cardinality(Others(S)) = Cardinality(S)
<1>1. IsFiniteSet(S)
  <2>1. /\ IsFiniteSet({"trend_acceleration", "trend_deceleration", "pullback_in_bull_trend",
                        "rebound_in_bear_trend", "position_building", "position_liquidation"})
        /\ IsFiniteSet({"backwardation_strengthening", "contango_strengthening",
                        "backwardation_weakening", "contango_weakening", "contango_weakening",
                        "contango_weakening"})
    BY FewAreFinite
  <2>2. S \subseteq {"trend_acceleration", "trend_deceleration", "pullback_in_bull_trend",
                     "rebound_in_bear_trend", "position_building", "position_liquidation"}
               \union {"backwardation_strengthening", "contango_strengthening",
                       "backwardation_weakening", "contango_weakening", "contango_weakening",
                       "contango_weakening"}
    BY DEF OtherLabel
  <2> QED
    BY <2>1, <2>2, FS_Union, FS_Subset
<1>2. \A x \in S, y \in S : OtherLabel[x] = OtherLabel[y] => x = y
  BY DEF OtherLabel
<1> QED
  BY <1>1, <1>2, ImageCounted DEF Others

LEMMA RegimeMirrored ==
  ASSUME NEW m, NEW w, MetricsWhole(m), Reflected(m, w), NEW t, NEW u, FactorsWhole(t), Turn(t, u)
  PROVE  /\ classify(t, m).primary \in DOMAIN OtherTrend
         /\ classify(u, w).primary = OtherTrend[classify(t, m).primary]
         /\ Cardinality(classify(u, w).secondary) = Cardinality(classify(t, m).secondary)
<1>1. PICK a, b, e, f : /\ a = t["trend"].score /\ b = t["momentum"].score
                        /\ e = t["term_structure"].score /\ f = t["positioning"].score
  OBVIOUS
<1>2. a \in Scores /\ b \in Scores /\ e \in Scores /\ f \in Scores
  BY <1>1 DEF FactorsWhole, Factors
<1>3. /\ u["trend"].score = Opposite(a) /\ u["momentum"].score = Opposite(b)
      /\ u["term_structure"].score = Opposite(e) /\ u["positioning"].score = Opposite(f)
  BY <1>1 DEF Turn, Factors
<1>4. PICK x, oi : x = m["curve_slope_change_20d"].score /\ oi = m["oi_change_5d"].value
  OBVIOUS
<1>5. x \in Scores /\ w["curve_slope_change_20d"].score = Opposite(x) /\ w["oi_change_5d"].value = oi
  <2>1. /\ "curve_slope_change_20d" \in Signed /\ "curve_slope_change_20d" \in Names
        /\ "oi_change_5d" \in Names \ (Signed \union {"rsi_14"})
    BY NamesAre DEF Signed, PriceNames, ContractNames, PositioningNames, CurveMetrics
  <2> QED
    BY <1>4, <2>1 DEF Reflected, MetricsWhole
<1>6. PICK S : S = TrendLabel(a, b) \union CurveLabel(e, x) \union PositionLabel(oi, f)
  OBVIOUS
<1>7. classify(t, m).primary = PrimaryRegime(a) /\ classify(t, m).secondary = S
  BY <1>1, <1>4, <1>6 DEF classify
<1>8. /\ classify(u, w).primary = PrimaryRegime(Opposite(a))
      /\ classify(u, w).secondary = TrendLabel(Opposite(a), Opposite(b))
           \union CurveLabel(Opposite(e), Opposite(x)) \union PositionLabel(oi, Opposite(f))
  BY <1>3, <1>5 DEF classify
<1>9. S \subseteq DOMAIN OtherLabel
  BY <1>2, <1>5, <1>6, TrendLabelMirrored, CurveLabelMirrored, PositionLabelMirrored
<1>10. classify(u, w).secondary = Others(S)
  <2>1. PICK A, B, C : A = TrendLabel(a, b) /\ B = CurveLabel(e, x) /\ C = PositionLabel(oi, f)
    OBVIOUS
  <2>2. classify(u, w).secondary = Others(A) \union Others(B) \union Others(C)
    BY <1>2, <1>5, <1>8, <2>1, TrendLabelMirrored, CurveLabelMirrored, PositionLabelMirrored
  <2>3. Others(A \union B \union C) = Others(A) \union Others(B) \union Others(C)
    BY DEF Others
  <2> QED
    BY <1>6, <2>1, <2>2, <2>3
<1> QED
  BY <1>2, <1>7, <1>8, <1>9, <1>10, PrimaryMirrored, OthersCounted
-----------------------------------------------------------------------------
(* What is concluded of opposite scores: the opportunity.                  *)

OtherSide == [long |-> "short", short |-> "long", none |-> "none"]

LEMMA SideMirrored ==
  ASSUME NEW x \in Scores
  PROVE  Side(x) \in DOMAIN OtherSide /\ Side(Opposite(x)) = OtherSide[Side(x)]
<1>1. CASE x = None
  BY <1>1 DEF Side, OtherSide, Opposite
<1>2. CASE x # None
  <2>1. x \in Int /\ Opposite(x) = -x /\ -x # None
    BY <1>2, NoneIsNoNumber DEF Scores, Opposite
  <2> QED
    BY <1>2, <2>1 DEF Side, OtherSide
<1> QED
  BY <1>1, <1>2

LEMMA ExtensionMirrored ==
  ASSUME NEW m, NEW w, MetricsWhole(m), Reflected(m, w)
  PROVE  /\ Extension(m) \in Scores /\ Extension(w) = Opposite(Extension(m))
         /\ Rsi(m) \in Scores /\ Rsi(w) = IF Rsi(m) = None THEN None ELSE 100 - Rsi(m)
<1>1. /\ "extension_atr" \in Names /\ "extension_atr" \in Signed /\ "rsi_14" \in Names
  BY NamesAre DEF Signed, ContractNames, PriceNames
<1>2. /\ m["extension_atr"].value \in Scores /\ m["rsi_14"].value \in Scores
      /\ w["extension_atr"].value = Opposite(m["extension_atr"].value)
      /\ w["rsi_14"].value = IF m["rsi_14"].value = None THEN None ELSE 100 - m["rsi_14"].value
  BY <1>1 DEF MetricsWhole, Reflected
<1>3. /\ Usable(w["extension_atr"]) <=> Usable(m["extension_atr"])
      /\ Usable(w["rsi_14"]) <=> Usable(m["rsi_14"])
  BY <1>1, UsableMirrored
<1>4. Extension(m) \in Scores /\ Rsi(m) \in Scores
  BY <1>1, RiskValueIs DEF Extension, Rsi
<1>5. Extension(w) = Opposite(Extension(m))
  BY <1>2, <1>3 DEF Extension, RiskValue, When, Opposite
<1>6. Rsi(w) = IF Rsi(m) = None THEN None ELSE 100 - Rsi(m)
  BY <1>2, <1>3 DEF Rsi, RiskValue, When, Usable
<1> QED
  BY <1>4, <1>5, <1>6

LEMMA EntryMirrored ==
  ASSUME NEW m, NEW w, MetricsWhole(m), Reflected(m, w), NEW side \in DOMAIN OtherSide
  PROVE  entry_quality(OtherSide[side], w) = entry_quality(side, m)
<1>1. CASE side = "none"
  BY <1>1 DEF entry_quality, OtherSide
<1>2. CASE side # "none"
  <2>1. PICK other : other = OtherSide[side]
    OBVIOUS
  <2>2. /\ \/ side = "long" /\ other = "short"
           \/ side = "short" /\ other = "long"
        /\ other # "none"
    <3>1. side = "long" \/ side = "short"
      BY <1>2 DEF OtherSide
    <3> QED
      BY <2>1, <3>1 DEF OtherSide
  <2>3. PICK e, r : e = Extension(m) /\ r = Rsi(m)
    OBVIOUS
  <2>4. /\ e \in Scores /\ Extension(w) = Opposite(e) /\ r \in Scores
        /\ Rsi(w) = IF r = None THEN None ELSE 100 - r
    BY <2>3, ExtensionMirrored
  <2>5. PICK toward, back : /\ toward = (IF side = "long" THEN 1 ELSE -1)
                            /\ back = (IF other = "long" THEN 1 ELSE -1)
    OBVIOUS
  <2>6. toward \in {-1, 1} /\ back = -toward
    <3>1. \/ toward = 1 /\ back = -1
          \/ toward = -1 /\ back = 1
      BY <2>2, <2>5
    <3> QED
      BY <3>1
  <2>7. PICK run, heat : /\ run = (IF e = None THEN 0 ELSE toward * e)
                         /\ heat = (IF r = None THEN 0 ELSE toward * (r - 50))
    OBVIOUS
  <2>8. run = IF Extension(w) = None THEN 0 ELSE back * Extension(w)
    <3>1. CASE e = None
      BY <2>4, <2>7, <3>1 DEF Opposite
    <3>2. CASE e # None
      <4>1. e \in Int /\ Extension(w) = -e /\ -e # None
        BY <2>4, <3>2, NoneIsNoNumber DEF Opposite, Scores
      <4>2. toward * e = back * (-e)
        BY <2>6, <4>1
      <4> QED
        BY <2>7, <3>2, <4>1, <4>2
    <3> QED
      BY <3>1, <3>2
  <2>9. heat = IF Rsi(w) = None THEN 0 ELSE back * (Rsi(w) - 50)
    <3>1. CASE r = None
      BY <2>4, <2>7, <3>1
    <3>2. CASE r # None
      <4>1. r \in Int /\ Rsi(w) = 100 - r /\ 100 - r # None
        BY <2>4, <3>2, NoneIsNoNumber DEF Scores
      <4>2. toward * (r - 50) = back * ((100 - r) - 50)
        BY <2>6, <4>1
      <4> QED
        BY <2>7, <3>2, <4>1, <4>2
    <3> QED
      BY <3>1, <3>2
  <2> DEFINE quality == 10 * 75 - 220 * AtLeast(run - 1, 0) + 100 * AtLeast(AtMost(-run, 1), 0)
                          - 14 * AtLeast(heat - 15, 0)
  <2>10. entry_quality(side, m) = IF side = "none" THEN 40 ELSE clip(Over(quality, 10), 0, 100)
    BY <2>3, <2>5, <2>7 DEF entry_quality
  <2>11. entry_quality(other, w) = IF other = "none" THEN 40 ELSE clip(Over(quality, 10), 0, 100)
    BY <2>5, <2>8, <2>9 DEF entry_quality
  <2> HIDE DEF quality
  <2> QED
    BY <1>2, <2>1, <2>2, <2>10, <2>11
<1> QED
  BY <1>1, <1>2

LEMMA FitMirrored ==
  ASSUME NEW side \in DOMAIN OtherSide, NEW primary \in DOMAIN OtherTrend
  PROVE  /\ RegimeFit(OtherSide[side], OtherTrend[primary]) = RegimeFit(side, primary)
         /\ (OtherTrend[primary] = "range" <=> primary = "range")
<1>1. CASE side = "none"
  BY <1>1 DEF OtherSide, OtherTrend, RegimeFit
<1>2. CASE side = "long"
  BY <1>2 DEF OtherSide, OtherTrend, RegimeFit
<1>3. CASE side = "short"
  BY <1>3 DEF OtherSide, OtherTrend, RegimeFit
<1>4. side \in {"none", "long", "short"}
  BY DEF OtherSide
<1> QED
  BY <1>1, <1>2, <1>3, <1>4

LEMMA ActionMirrored ==
  ASSUME NEW m, NEW w, MetricsWhole(m), Reflected(m, w), NEW side \in DOMAIN OtherSide,
         NEW primary \in DOMAIN OtherTrend, NEW score
  PROVE  /\ Action(side, score, primary, m) \in DOMAIN Mirrored
         /\ Action(OtherSide[side], score, OtherTrend[primary], w)
              = Mirrored[Action(side, score, primary, m)]
<1>1. PICK other, trend : other = OtherSide[side] /\ trend = OtherTrend[primary]
  OBVIOUS
<1>2. /\ side = "long" <=> other = "short"
      /\ side = "short" <=> other = "long"
      /\ side \in {"long", "short", "none"}
  BY <1>1 DEF OtherSide
<1>3. trend = "range" <=> primary = "range"
  BY <1>1, FitMirrored
<1>4. PICK e, r, f, s :
        /\ e = (IF Extension(m) = None THEN 0 ELSE Extension(m))
        /\ r = (IF Rsi(m) = None THEN 50 ELSE Rsi(m))
        /\ f = (IF Extension(w) = None THEN 0 ELSE Extension(w))
        /\ s = (IF Rsi(w) = None THEN 50 ELSE Rsi(w))
  OBVIOUS
<1>5. /\ e \in Int /\ f \in Int /\ r \in Int /\ s \in Int /\ e + f = 0 /\ r + s = 100
  <2>1. /\ Extension(m) \in Scores /\ Extension(w) = Opposite(Extension(m))
        /\ Rsi(m) \in Scores /\ Rsi(w) = IF Rsi(m) = None THEN None ELSE 100 - Rsi(m)
    BY ExtensionMirrored
  <2>2. e \in Int /\ f \in Int /\ e + f = 0
    <3>1. CASE Extension(m) = None
      BY <1>4, <2>1, <3>1 DEF Opposite
    <3>2. CASE Extension(m) # None
      BY <1>4, <2>1, <3>2, NoneIsNoNumber DEF Opposite, Scores
    <3> QED
      BY <3>1, <3>2
  <2>3. r \in Int /\ s \in Int /\ r + s = 100
    <3>1. CASE Rsi(m) = None
      BY <1>4, <2>1, <3>1
    <3>2. CASE Rsi(m) # None
      <4>1. Rsi(m) \in Int /\ 100 - Rsi(m) # None
        BY <2>1, <3>2, NoneIsNoNumber DEF Scores
      <4> QED
        BY <1>4, <2>1, <3>2, <4>1
    <3> QED
      BY <3>1, <3>2
  <2> QED
    BY <2>2, <2>3
<1>6. /\ e >= 2 <=> f <= -2
      /\ e <= -2 <=> f >= 2
      /\ r >= 75 <=> s <= 25
      /\ r <= 25 <=> s >= 75
  BY <1>5
<1>7. Action(side, score, primary, m) =
        IF side = "long" /\ (e >= 2 \/ r >= 75) THEN "wait_for_pullback"
        ELSE IF side = "short" /\ (e <= -2 \/ r <= 25) THEN "wait_for_rebound"
        ELSE IF primary = "range" /\ score < 50 THEN "wait_for_breakout"
        ELSE IF score >= 45 /\ side = "long" THEN "long_candidate"
        ELSE IF score >= 45 /\ side = "short" THEN "short_candidate"
        ELSE "no_trade"
  BY <1>4, Zenon DEF Action
<1>8. Action(other, score, trend, w) =
        IF other = "long" /\ (f >= 2 \/ s >= 75) THEN "wait_for_pullback"
        ELSE IF other = "short" /\ (f <= -2 \/ s <= 25) THEN "wait_for_rebound"
        ELSE IF trend = "range" /\ score < 50 THEN "wait_for_breakout"
        ELSE IF score >= 45 /\ other = "long" THEN "long_candidate"
        ELSE IF score >= 45 /\ other = "short" THEN "short_candidate"
        ELSE "no_trade"
  BY <1>4, Zenon DEF Action
<1> QED
  BY <1>1, <1>2, <1>3, <1>6, <1>7, <1>8 DEF Mirrored

LEMMA OpportunityMirrored ==
  ASSUME NEW m, NEW w, MetricsWhole(m), Reflected(m, w),
         NEW p, NEW o, p.score \in Scores, o.score = Opposite(p.score),
         NEW g, NEW h, g.primary \in DOMAIN OtherTrend, h.primary = OtherTrend[g.primary],
         NEW risk, NEW confidence
  PROVE  LET a == assess_opportunity(p, g, risk, confidence, m)
             b == assess_opportunity(o, h, risk, confidence, w)
         IN  /\ a.action \in DOMAIN Mirrored /\ b.action = Mirrored[a.action]
             /\ b.score = a.score /\ b.reasons = a.reasons
<1>1. PICK x \in Scores : x = p.score /\ Opposite(x) = o.score
  OBVIOUS
<1>2. Opposite(x) = None <=> x = None
  BY OppositeOf
<1>3. x # None => Abs(Opposite(x)) = Abs(x)
  BY OppositeOf, AbsIs
<1>4. PICK side : side = Side(x) /\ side \in DOMAIN OtherSide /\ Side(Opposite(x)) = OtherSide[side]
  BY SideMirrored
<1>5. w["liquidity_quality_score"].value = m["liquidity_quality_score"].value
  BY RiskNamesAre DEF Reflected, RiskNames
<1>6. Usable(w["liquidity_quality_score"]) <=> Usable(m["liquidity_quality_score"])
  <2>1. "liquidity_quality_score" \in Names
    BY RiskNamesAre DEF RiskNames
  <2> QED
    BY <2>1, UsableMirrored
<1>7. Extension(w) = None <=> Extension(m) = None
  BY ExtensionMirrored, OppositeOf
<1>8. PICK reasons : reasons = HardReasons(p, risk, confidence, m)
  OBVIOUS
<1>9. HardReasons(o, risk, confidence, w) = reasons
  <2>1. reasons =
          OnlyIf(x = None, {"insufficient_direction_data"})
            \union risk.codes
            \union OnlyIf(risk.score >= Config.hard_gates.risk_score, {"risk_score_above_limit"})
            \union OnlyIf(confidence < Config.hard_gates.confidence_score, {"confidence_below_limit"})
            \union OnlyIf(x # None /\ Abs(x) < Config.hard_gates.minimum_direction_abs_score,
                          {"direction_too_weak"})
            \union OnlyIf(Extension(m) = None, {"missing_entry_atr"})
            \union OnlyIf(~Usable(m["liquidity_quality_score"]), {"missing_liquidity_quality"})
    BY <1>1, <1>8, Zenon DEF HardReasons
  <2>2. PICK y : y = Opposite(x)
    OBVIOUS
  <2>3. HardReasons(o, risk, confidence, w) =
          OnlyIf(y = None, {"insufficient_direction_data"})
            \union risk.codes
            \union OnlyIf(risk.score >= Config.hard_gates.risk_score, {"risk_score_above_limit"})
            \union OnlyIf(confidence < Config.hard_gates.confidence_score, {"confidence_below_limit"})
            \union OnlyIf(y # None /\ Abs(y) < Config.hard_gates.minimum_direction_abs_score,
                          {"direction_too_weak"})
            \union OnlyIf(Extension(w) = None, {"missing_entry_atr"})
            \union OnlyIf(~Usable(w["liquidity_quality_score"]), {"missing_liquidity_quality"})
    BY <1>1, <2>2, Zenon DEF HardReasons
  <2> QED
    BY <1>2, <1>3, <1>6, <1>7, <2>1, <2>2, <2>3 DEF OnlyIf
<1>10. PICK other, trend : other = OtherSide[side] /\ trend = OtherTrend[g.primary]
  OBVIOUS
<1>11. PICK score : score = OpportunityScore(p, side, g.primary, risk, m)
  OBVIOUS
<1>12. OpportunityScore(o, other, trend, risk, w) = score
  <2>1. CASE x = None
    BY <1>1, <1>2, <1>11, <2>1 DEF OpportunityScore
  <2>2. CASE x # None
    <3>1. PICK size, entry, fit, liquidity :
            /\ size = Abs(x) /\ entry = entry_quality(side, m) /\ fit = RegimeFit(side, g.primary)
            /\ liquidity = IF Usable(m["liquidity_quality_score"])
                           THEN m["liquidity_quality_score"].value ELSE 0
      OBVIOUS
    <3>2. /\ size = Abs(o.score) /\ entry = entry_quality(other, w) /\ fit = RegimeFit(other, trend)
          /\ liquidity = IF Usable(w["liquidity_quality_score"])
                         THEN w["liquidity_quality_score"].value ELSE 0
      <4>1. size = Abs(o.score)
        BY <1>1, <1>3, <2>2, <3>1
      <4>2. entry = entry_quality(other, w)
        BY <1>4, <1>10, <3>1, EntryMirrored
      <4>3. fit = RegimeFit(other, trend)
        BY <1>4, <1>10, <3>1, FitMirrored
      <4>4. liquidity = IF Usable(w["liquidity_quality_score"])
                        THEN w["liquidity_quality_score"].value ELSE 0
        BY <1>5, <1>6, <3>1
      <4> QED
        BY <4>1, <4>2, <4>3, <4>4
    <3> DEFINE raw == Config.opportunity.direction_strength * size
                        + Config.opportunity.entry_quality * entry
                        + Config.opportunity.regime_fit * fit
                        + Config.opportunity.liquidity_quality * liquidity
                        - Config.opportunity.risk_penalty * risk.score
    <3>3. OpportunityScore(p, side, g.primary, risk, m)
            = IF p.score = None THEN 0 ELSE clip(Over(raw, 100), 0, 100)
      BY <1>1, <3>1, Zenon DEF OpportunityScore
    <3>4. OpportunityScore(o, other, trend, risk, w)
            = IF o.score = None THEN 0 ELSE clip(Over(raw, 100), 0, 100)
      BY <3>2, Zenon DEF OpportunityScore
    <3> HIDE DEF raw
    <3> QED
      BY <1>1, <1>2, <1>11, <2>2, <3>3, <3>4
  <2> QED
    BY <2>1, <2>2
<1>13. PICK act : act = Action(side, score, g.primary, m)
  OBVIOUS
<1>14. act \in DOMAIN Mirrored /\ Action(other, score, trend, w) = Mirrored[act]
  BY <1>4, <1>10, <1>13, ActionMirrored
<1>15. assess_opportunity(p, g, risk, confidence, m) =
         [side |-> side, score |-> score, reasons |-> reasons,
          action |-> IF x = None THEN "insufficient_data"
                     ELSE IF reasons # {} THEN "no_trade" ELSE act]
  BY <1>1, <1>4, <1>8, <1>11, <1>13, Zenon DEF assess_opportunity
<1>16. assess_opportunity(o, h, risk, confidence, w) =
         [side |-> other, score |-> score, reasons |-> reasons,
          action |-> IF o.score = None THEN "insufficient_data"
                     ELSE IF reasons # {} THEN "no_trade" ELSE Mirrored[act]]
  <2>1. Side(o.score) = other /\ h.primary = trend
    BY <1>1, <1>4, <1>10
  <2> QED
    BY <1>9, <1>12, <1>14, <2>1, Zenon DEF assess_opportunity
<1>17. /\ "insufficient_data" \in DOMAIN Mirrored /\ "no_trade" \in DOMAIN Mirrored
       /\ Mirrored["insufficient_data"] = "insufficient_data" /\ Mirrored["no_trade"] = "no_trade"
  BY DEF Mirrored
<1>18. PICK a, b : /\ a = assess_opportunity(p, g, risk, confidence, m)
                   /\ b = assess_opportunity(o, h, risk, confidence, w)
  OBVIOUS
<1>19. /\ a.score = score /\ b.score = score /\ a.reasons = reasons /\ b.reasons = reasons
       /\ a.action = IF x = None THEN "insufficient_data" ELSE IF reasons # {} THEN "no_trade" ELSE act
       /\ b.action = IF x = None THEN "insufficient_data"
                     ELSE IF reasons # {} THEN "no_trade" ELSE Mirrored[act]
  BY <1>1, <1>2, <1>15, <1>16, <1>18
<1>20. a.action \in DOMAIN Mirrored /\ b.action = Mirrored[a.action]
  BY <1>14, <1>17, <1>19
<1> QED
  BY <1>18, <1>19, <1>20
-----------------------------------------------------------------------------
(* The conditions that would refute a direction: one for each metric that  *)
(* was there, whichever the side.                                          *)

ConditionNames == {"settlement_vs_ma60", "return_20d", "curve_slope"}
Asked(m) == {n \in ConditionNames : IF n = "return_20d" THEN m[n].score # None ELSE m[n].value # None}
Refuting(bullish) ==
  [n \in ConditionNames |->
     Condition(n, IF bullish THEN "lt" ELSE "gt",
               IF n # "return_20d" THEN 0 ELSE IF bullish THEN -25 ELSE 25)]

LEMMA ConditionsAre ==
  ASSUME NEW p, NEW m, p.score # None, ~(Abs(p.score) < 25)
  PROVE  Cardinality(build_conditions(p, m)) = Cardinality(Asked(m))
<1>1. PICK bullish \in BOOLEAN : bullish <=> p.score > 0
  <2>1. (p.score > 0) \in BOOLEAN
    OBVIOUS
  <2> QED
    BY <2>1
<1>2. PICK f : f = Refuting(bullish)
  OBVIOUS
<1>3. /\ f["settlement_vs_ma60"]
           = Condition("settlement_vs_ma60", IF p.score > 0 THEN "lt" ELSE "gt", 0)
      /\ f["return_20d"] = Condition("return_20d", IF p.score > 0 THEN "lt" ELSE "gt",
                                     IF p.score > 0 THEN -25 ELSE 25)
      /\ f["curve_slope"] = Condition("curve_slope", IF p.score > 0 THEN "lt" ELSE "gt", 0)
  BY <1>1, <1>2 DEF Refuting, ConditionNames
<1>4. build_conditions(p, m) =
        OnlyIf(m["settlement_vs_ma60"].value # None, {f["settlement_vs_ma60"]})
          \union OnlyIf(m["return_20d"].score # None, {f["return_20d"]})
          \union OnlyIf(m["curve_slope"].value # None, {f["curve_slope"]})
  BY <1>3, Zenon DEF build_conditions
<1>5. build_conditions(p, m) = {f[n] : n \in Asked(m)}
  BY <1>4 DEF OnlyIf, Asked, ConditionNames
<1>6. \A x \in Asked(m), y \in Asked(m) : f[x] = f[y] => x = y
  <2>1. \A x \in ConditionNames : f[x].metric = x
    BY <1>2 DEF Refuting, Condition
  <2> QED
    BY <2>1 DEF Asked
<1>7. IsFiniteSet(Asked(m))
  <2>1. IsFiniteSet({"settlement_vs_ma60", "return_20d", "curve_slope", "curve_slope",
                     "curve_slope", "curve_slope"})
    BY FewAreFinite
  <2>2. Asked(m) \subseteq {"settlement_vs_ma60", "return_20d", "curve_slope", "curve_slope",
                            "curve_slope", "curve_slope"}
    BY DEF Asked, ConditionNames
  <2> QED
    BY <2>1, <2>2, FS_Subset
<1> QED
  BY <1>5, <1>6, <1>7, ImageCounted

LEMMA ConditionsMirrored ==
  ASSUME NEW m, NEW w, MetricsWhole(m), Reflected(m, w),
         NEW p, NEW o, p.score \in Scores, o.score = Opposite(p.score)
  PROVE  Cardinality(build_conditions(o, w)) = Cardinality(build_conditions(p, m))
<1>1. /\ Opposite(p.score) = None <=> p.score = None
      /\ p.score # None => Abs(o.score) = Abs(p.score)
  BY OppositeOf, AbsIs
<1>2. Asked(w) = Asked(m)
  <2>1. ConditionNames \subseteq Signed /\ ConditionNames \subseteq Names
    BY NamesAre DEF ConditionNames, Signed, PriceNames, ContractNames, CurveMetrics
  <2>2. ASSUME NEW n \in ConditionNames
        PROVE  /\ w[n].value = None <=> m[n].value = None
               /\ w[n].score = None <=> m[n].score = None
    <3>1. m[n].value \in Scores /\ m[n].score \in Scores
      BY <2>1 DEF MetricsWhole
    <3>2. w[n].value = Opposite(m[n].value) /\ w[n].score = Opposite(m[n].score)
      BY <2>1 DEF Reflected
    <3> QED
      BY <3>1, <3>2, OppositeOf
  <2> QED
    BY <2>2 DEF Asked
<1>3. CASE p.score = None
  BY <1>1, <1>3 DEF build_conditions
<1>4. CASE p.score # None /\ Abs(p.score) < 25
  BY <1>1, <1>4 DEF build_conditions
<1>5. CASE p.score # None /\ ~(Abs(p.score) < 25)
  <2>1. o.score # None /\ ~(Abs(o.score) < 25)
    BY <1>1, <1>5
  <2> QED
    BY <1>2, <1>5, <2>1, ConditionsAre
<1> QED
  BY <1>3, <1>4, <1>5
-----------------------------------------------------------------------------
(* A whole analysis, by its parts, and that of the mirror image.           *)

LEMMA DirectedMirrored ==
  ASSUME NEW h \in {"swing", "position"}, NEW t, NEW u, FactorsWhole(t), Turn(t, u), NEW q,
         NEW p, NEW o, p = Directed(assess_direction(h, t), q), o = Directed(assess_direction(h, u), q)
  PROVE  p.score \in Scores /\ o.score = Opposite(p.score) /\ p.coverage \in Nat
           /\ o.coverage = p.coverage
<1>1. PICK x, y : x = assess_direction(h, t) /\ y = assess_direction(h, u)
  OBVIOUS
<1>2. /\ x.score \in Scores /\ y.score = Opposite(x.score)
      /\ x.coverage \in Nat /\ y.coverage = x.coverage
  BY <1>1, DirectionMirrored
<1>3. /\ "score" \in DOMAIN x /\ "coverage" \in DOMAIN x
      /\ "score" \in DOMAIN y /\ "coverage" \in DOMAIN y
  <2>1. PICK a, k, e : x = [score |-> a, label |-> k, coverage |-> e]
    BY <1>1, Zenon DEF assess_direction
  <2>2. PICK b, j, f : y = [score |-> b, label |-> j, coverage |-> f]
    BY <1>1, Zenon DEF assess_direction
  <2> QED
    BY <2>1, <2>2
<1>4. CASE q.blocking # {}
  <2>1. /\ p.score = None /\ o.score = None
        /\ p.coverage = x.coverage /\ o.coverage = y.coverage
    BY <1>1, <1>3, <1>4 DEF Directed
  <2> QED
    BY <1>2, <2>1 DEF Scores, Opposite
<1>5. CASE ~(q.blocking # {})
  <2>1. p = x /\ o = y
    BY <1>1, <1>5 DEF Directed
  <2> QED
    BY <1>2, <2>1
<1> QED
  BY <1>4, <1>5

(* The intermediate results of the analysis of c.                          *)
Stages(c, m, q, t, p, x, r) ==
  /\ m = compute(c) /\ q = assess_quality(c) /\ t = score_factors(m)
  /\ p = Directed(assess_direction(c.horizon, t), q)
  /\ x = assess_confidence(c, t, p, m, q) /\ r = assess_risk(c, m, q)

LEMMA AnalysisIs ==
  ASSUME NEW c, NEW m, NEW q, NEW t, NEW p, NEW x, NEW r, Stages(c, m, q, t, p, x, r)
  PROVE  Analyze(c) = Conclusion(m, q, t, p, x, r)
<1>1. Analyze(c) = Judged(c, m, q)
  BY Zenon DEF Analyze, Stages
<1>2. Judged(c, m, q) = Judgement(c, m, q, t)
  BY Zenon DEF Judged, Stages
<1>3. Judgement(c, m, q, t) = Assessment(c, m, q, t, p)
  BY Zenon DEF Judgement, Stages
<1>4. Assessment(c, m, q, t, p) = Conclusion(m, q, t, p, x, r)
  BY Zenon DEF Assessment, Stages
<1> QED
  BY <1>1, <1>2, <1>3, <1>4, Zenon

(* The scores of an analysis are whole numbers; the direction's may be     *)
(* missing.                                                                *)
LEMMA ScoresAreWhole ==
  ASSUME NEW c \in Contexts, NEW a, a = Analyze(c)
  PROVE  a.direction.score \in Scores /\ a.risk.score \in Int /\ a.confidence \in Int
<1>1. c \in MarketContexts /\ c.horizon \in {"swing", "position"}
  BY ShadowAssumption, ContextIs
<1>2. PICK m, q : m = compute(c) /\ q = assess_quality(c)
  OBVIOUS
<1>3. MetricsWhole(m) /\ Reflected(m, compute(Mirror(c))) /\ q.overall \in Int
  BY <1>1, <1>2, ComputeWhole, ComputeMirrored, QualityIsWhole
<1>4. PICK t, u : t = score_factors(m) /\ u = score_factors(compute(Mirror(c)))
  OBVIOUS
<1>5. FactorsWhole(t) /\ Turn(t, u)
  BY <1>3, <1>4, FactorsMirrored
<1>6. PICK p : p = Directed(assess_direction(c.horizon, t), q)
  OBVIOUS
<1>7. p.score \in Scores /\ p.coverage \in Int
  BY <1>1, <1>5, <1>6, DirectedMirrored
<1>8. PICK x, r : x = assess_confidence(c, t, p, m, q) /\ r = assess_risk(c, m, q)
  OBVIOUS
<1>9. x \in Int
  BY <1>1, <1>2, <1>3, <1>7, <1>8, ConfidenceWhole
<1>10. r.score \in Int
  BY <1>1, <1>3, <1>8, RiskWhole
<1>11. a = Conclusion(m, q, t, p, x, r)
  <2>1. Stages(c, m, q, t, p, x, r)
    BY <1>2, <1>4, <1>6, <1>8, Zenon DEF Stages
  <2> QED
    BY <2>1, AnalysisIs
<1>12. a.direction = p /\ a.risk = r /\ a.confidence = x
  BY <1>11 DEF Conclusion
<1> QED
  BY <1>7, <1>9, <1>10, <1>12

LEMMA AnalysisMirrored ==
  ASSUME NEW c \in MarketContexts, NEW a, NEW b, a = Analyze(c), b = Analyze(Mirror(c))
  PROVE  /\ b.opportunity.action = Mirrored[a.opportunity.action]
         /\ b.direction.score = IF a.direction.score = None THEN None ELSE -a.direction.score
         /\ b.opportunity.score = a.opportunity.score
         /\ b.opportunity.reasons = a.opportunity.reasons
         /\ b.confidence = a.confidence
         /\ b.risk = a.risk
         /\ Cardinality(b.conditions) = Cardinality(a.conditions)
         /\ Cardinality(b.regime.secondary) = Cardinality(a.regime.secondary)
<1>1. PICK d : d = Mirror(c)
  OBVIOUS
<1>2. c.horizon \in {"swing", "position"} /\ d.horizon = c.horizon
  BY <1>1, ContextIs, MirrorIs
<1>3. PICK m, w, q : m = compute(c) /\ w = compute(d) /\ q = assess_quality(c)
  OBVIOUS
<1>4. MetricsWhole(m) /\ Reflected(m, w) /\ q = assess_quality(d)
  BY <1>1, <1>3, ComputeWhole, ComputeMirrored, QualityMirrored
<1>5. PICK t, u : t = score_factors(m) /\ u = score_factors(w)
  OBVIOUS
<1>6. FactorsWhole(t) /\ Turn(t, u)
  BY <1>4, <1>5, FactorsMirrored
<1>7. PICK p, o : /\ p = Directed(assess_direction(c.horizon, t), q)
                  /\ o = Directed(assess_direction(d.horizon, u), q)
  OBVIOUS
<1>8. p.score \in Scores /\ o.score = Opposite(p.score) /\ o.coverage = p.coverage
  BY <1>2, <1>6, <1>7, DirectedMirrored
<1>9. PICK x, r : x = assess_confidence(c, t, p, m, q) /\ r = assess_risk(c, m, q)
  OBVIOUS
<1>10. x = assess_confidence(d, u, o, w, q) /\ r = assess_risk(d, w, q)
  <2>1. x = assess_confidence(d, u, o, w, q)
    BY <1>1, <1>4, <1>6, <1>8, <1>9, ConfidenceMirrored
  <2>2. r = assess_risk(d, w, q)
    BY <1>1, <1>4, <1>9, RiskMirrored
  <2> QED
    BY <2>1, <2>2
<1>11. PICK g, h : g = classify(t, m) /\ h = classify(u, w)
  OBVIOUS
<1>12. /\ g.primary \in DOMAIN OtherTrend /\ h.primary = OtherTrend[g.primary]
       /\ Cardinality(h.secondary) = Cardinality(g.secondary)
  BY <1>4, <1>6, <1>11, RegimeMirrored
<1>13. PICK k, l : k = assess_opportunity(p, g, r, x, m) /\ l = assess_opportunity(o, h, r, x, w)
  OBVIOUS
<1>14. /\ k.action \in DOMAIN Mirrored /\ l.action = Mirrored[k.action]
       /\ l.score = k.score /\ l.reasons = k.reasons
  BY <1>4, <1>8, <1>12, <1>13, OpportunityMirrored
<1>15. {"action", "score", "reasons"} \subseteq DOMAIN k /\ {"action", "score", "reasons"} \subseteq DOMAIN l
  BY <1>13 DEF assess_opportunity
<1>16. PICK kk, ll :
         /\ kk = IF q.blocking # {}
                 THEN [k EXCEPT !.action = "insufficient_data", !.reasons = @ \union q.blocking] ELSE k
         /\ ll = IF q.blocking # {}
                 THEN [l EXCEPT !.action = "insufficient_data", !.reasons = @ \union q.blocking] ELSE l
  OBVIOUS
<1>17. ll.action = Mirrored[kk.action] /\ ll.score = kk.score /\ ll.reasons = kk.reasons
  <2>1. CASE q.blocking # {}
    <3>1. /\ kk.action = "insufficient_data" /\ ll.action = "insufficient_data"
          /\ kk.score = k.score /\ ll.score = l.score
          /\ kk.reasons = k.reasons \union q.blocking /\ ll.reasons = l.reasons \union q.blocking
      BY <1>15, <1>16, <2>1
    <3> QED
      BY <1>14, <3>1 DEF Mirrored
  <2>2. CASE ~(q.blocking # {})
    BY <1>14, <1>16, <2>2
  <2> QED
    BY <2>1, <2>2
<1>18. PICK y, z : y = build_conditions(p, m) /\ z = build_conditions(o, w)
  OBVIOUS
<1>19. Cardinality(z) = Cardinality(y)
  BY <1>4, <1>8, <1>18, ConditionsMirrored
<1>20. a = [metrics |-> m, quality |-> q, regime |-> g, direction |-> p, confidence |-> x, risk |-> r,
            opportunity |-> kk, conditions |-> y]
  <2>1. Stages(c, m, q, t, p, x, r)
    BY <1>3, <1>5, <1>7, <1>9, Zenon DEF Stages
  <2>2. a = Conclusion(m, q, t, p, x, r)
    BY <2>1, AnalysisIs
  <2> QED
    BY <1>11, <1>13, <1>16, <1>18, <2>2, Zenon DEF Conclusion
<1>21. b = [metrics |-> w, quality |-> q, regime |-> h, direction |-> o, confidence |-> x, risk |-> r,
            opportunity |-> ll, conditions |-> z]
  <2>1. Stages(d, w, q, u, o, x, r)
    BY <1>3, <1>4, <1>5, <1>7, <1>10, Zenon DEF Stages
  <2>2. b = Conclusion(w, q, u, o, x, r)
    BY <1>1, <2>1, AnalysisIs
  <2> QED
    BY <1>11, <1>13, <1>16, <1>18, <2>2, Zenon DEF Conclusion
<1>22. /\ a.opportunity = kk /\ b.opportunity = ll /\ a.direction = p /\ b.direction = o
       /\ a.confidence = x /\ b.confidence = x /\ a.risk = r /\ b.risk = r
       /\ a.conditions = y /\ b.conditions = z /\ a.regime = g /\ b.regime = h
  BY <1>20, <1>21
<1>23. o.score = IF p.score = None THEN None ELSE -p.score
  BY <1>8 DEF Opposite
<1> QED
  BY <1>12, <1>17, <1>19, <1>22, <1>23
(* The parts of an analysis, by what each is computed from.                *)
LEMMA PartsOfAnalysis ==
  ASSUME NEW c, NEW a, a = Analyze(c)
  PROVE  /\ a.metrics = compute(c) /\ a.quality = assess_quality(c)
         /\ a.risk = assess_risk(c, compute(c), assess_quality(c))
         /\ a.opportunity =
              LET o == assess_opportunity(a.direction, a.regime, a.risk, a.confidence, a.metrics)
              IN  IF a.quality.blocking # {}
                  THEN [o EXCEPT !.action = "insufficient_data",
                                 !.reasons = @ \union a.quality.blocking]
                  ELSE o
BY DEF Analyze, Judged, Judgement, Assessment, Conclusion

(* What lets a reader act: no gate, no blocking issue and no reason.       *)
LEMMA ActionableIsUngated ==
  ASSUME NEW c, NEW a, a = Analyze(c), consumer_intent(a, 0) = "research_only"
  PROVE  /\ HardGates(c, a.metrics, a.quality) = {} /\ a.quality.blocking = {}
         /\ a.direction.score # None
         /\ HardReasons(a.direction, a.risk, a.confidence, a.metrics) = {}
         /\ a.opportunity.action =
              Action(Side(a.direction.score), a.opportunity.score, a.regime.primary, a.metrics)
<1>1. /\ ~a.risk.hard_gate_triggered
      /\ a.opportunity.action \notin {"no_trade", "insufficient_data"}
  BY DEF consumer_intent
<1>2. HardGates(c, a.metrics, a.quality) = {}
  <2>1. a.risk = assess_risk(c, a.metrics, a.quality)
    BY PartsOfAnalysis
  <2>2. PICK gates : gates = HardGates(c, a.metrics, a.quality)
    OBVIOUS
  <2>3. PICK score, codes :
          a.risk = [score |-> score, codes |-> codes, hard_gate_triggered |-> gates # {}]
    BY <2>1, <2>2, Zenon DEF assess_risk
  <2>4. CASE gates # {}
    <3>1. a.risk = [score |-> score, codes |-> codes, hard_gate_triggered |-> TRUE]
      BY <2>3, <2>4
    <3>q. QED
      BY <3>1, <1>1
  <2>q. QED
    BY <2>2, <2>4
<1>3. PICK o : o = assess_opportunity(a.direction, a.regime, a.risk, a.confidence, a.metrics)
  OBVIOUS
<1>4. a.quality.blocking = {}
  <2> SUFFICES ASSUME a.quality.blocking # {}  PROVE a.opportunity.action = "insufficient_data"
    BY <1>1
  <2>1. a.opportunity = [o EXCEPT !.action = "insufficient_data",
                                  !.reasons = @ \union a.quality.blocking]
    BY <1>3, PartsOfAnalysis, Zenon
  <2>2. "action" \in DOMAIN o
    BY <1>3 DEF assess_opportunity
  <2>q. QED
    BY <2>1, <2>2
<1>5. a.opportunity = o
  BY <1>3, <1>4, PartsOfAnalysis, Zenon
<1>q. QED
  BY <1>1, <1>2, <1>3, <1>4, <1>5 DEF assess_opportunity

(* The limits of the hard gates are whole numbers.                         *)
LEMMA GatesAreWhole ==
  \A g \in {"risk_score", "confidence_score", "minimum_days_to_expiry",
            "minimum_direction_abs_score", "minimum_data_quality", "minimum_liquidity_quality"} :
    Config.hard_gates[g] \in Int
<1>1. /\ DOMAIN Config.hard_gates =
           {"risk_score", "confidence_score", "minimum_days_to_expiry",
            "minimum_direction_abs_score", "minimum_data_quality", "minimum_liquidity_quality"}
      /\ \A g \in DOMAIN Config.hard_gates \ {"minimum_days_to_expiry"} :
           Config.hard_gates[g] \in 0..100
      /\ Config.hard_gates.minimum_days_to_expiry \in Nat
  BY ScoringAssumption, Zenon DEF ValidConfig
<1>q. QED
  BY <1>1
-----------------------------------------------------------------------------
(* What the absence of gates says.                                         *)
LEMMA UngatedIsSafe ==
  ASSUME NEW c \in Contexts, NEW m, NEW q, m = compute(c), q = assess_quality(c),
         HardGates(c, m, q) = {}
  PROVE  LET gates == Config.hard_gates
         IN  /\ c.limit = "ok" /\ c.readings.proximity < 90
             /\ c.dte >= gates.minimum_days_to_expiry
             /\ m["liquidity_quality_score"].status = "ok"
             /\ m["liquidity_quality_score"].value >= gates.minimum_liquidity_quality
             /\ q.overall >= gates.minimum_data_quality
<1>1. PICK liquidity, limit : /\ liquidity = RiskValue(m, "liquidity_quality_score")
                              /\ limit = RiskValue(m, "price_limit_proximity_risk")
  OBVIOUS
<1>2. /\ ~(liquidity # None /\ liquidity < Config.hard_gates.minimum_liquidity_quality)
      /\ ~(limit # None /\ limit >= 90)
      /\ ~(q.overall < Config.hard_gates.minimum_data_quality)
      /\ liquidity # None /\ limit # None
      /\ ~(c.dte < Config.hard_gates.minimum_days_to_expiry)
  BY <1>1 DEF HardGates, OnlyIf
<1>3. /\ Config.hard_gates.minimum_liquidity_quality \in Int
      /\ Config.hard_gates.minimum_data_quality \in Int
      /\ Config.hard_gates.minimum_days_to_expiry \in Int
  BY GatesAreWhole
<1>4. c.dte \in Int /\ c.readings.proximity \in Int /\ q.overall \in Int
  <2>1. c \in MarketContexts
    BY ShadowAssumption
  <2> QED
    BY <2>1, ContextIs, QualityIsWhole DEF Statistics
<1>5. /\ m["liquidity_quality_score"].status = "ok"
      /\ liquidity = m["liquidity_quality_score"].value
      /\ limit = m["price_limit_proximity_risk"].value
  BY <1>1, <1>2 DEF RiskValue, When, Usable
<1>6. {"liquidity_quality_score", "price_limit_proximity_risk"} \subseteq Names
  BY DEF Names, LiquidityMetrics, MetadataMetrics
<1>7. liquidity \in Int
  <2>1. MetricsWhole(m)
    BY ShadowAssumption, ComputeWhole
  <2>2. liquidity = m["liquidity_quality_score"].value
    BY <1>5
  <2>3. m["liquidity_quality_score"].value \in Scores
    BY <1>6, <2>1 DEF MetricsWhole
  <2>q. QED
    BY <2>2, <2>3, <1>2 DEF Scores
<1>8. limit = When(c.bars > 0 /\ c.limit = "ok", c.readings.proximity)
  <2>1. limit = RollAndLimitReadings(c)["price_limit_proximity_risk"].value
    <3>1. "price_limit_proximity_risk" \in MetadataMetrics
      BY DEF MetadataMetrics
    <3> QED
      BY <1>5, <1>6, <3>1, MetricOf, ReadingsOf
  <2>q. QED
    BY <2>1 DEF RollAndLimitReadings, Reading
<1>9. c.limit = "ok" /\ limit = c.readings.proximity
  BY <1>2, <1>8 DEF When
<1>q. QED
  BY <1>2, <1>3, <1>4, <1>5, <1>7, <1>9

(* What the absence of blocking issues and of a missing extension says.    *)
LEMMA UnblockedIsFresh ==
  ASSUME NEW c \in Contexts, assess_quality(c).blocking = {},
         Extension(compute(c)) # None
  PROVE  /\ c.cont >= 21 /\ c.bars >= 21 /\ c.ohlc
         /\ c.age.cont <= 7 /\ c.age.bars <= 7
         /\ c.points > 0 => c.age.curve <= 7
<1>1. /\ c.cont \in Int /\ c.bars \in Int /\ c.points \in Int
      /\ c.age.cont \in Int /\ c.age.bars \in Int /\ c.age.curve \in Int
  BY ShadowAssumption, ContextIs
<1>2. BlockingIssues(c) = {}
  BY DEF assess_quality
<1>3. ~(c.cont < 21) /\ StaleSources(c) = {}
  BY <1>2 DEF BlockingIssues, OnlyIf
<1>4. "extension_atr" \in Names
  BY DEF Names, PositionMetrics
<1>5. ContractReadings(c)["extension_atr"].value # None
  <2>1. "extension_atr" \in ContractNames
    BY DEF ContractNames
  <2> QED
    BY <1>4, <2>1, MetricOf, ReadingsOf DEF Extension, RiskValue, When, Usable
<1>6. c.bars >= 21 /\ c.ohlc
  BY <1>5 DEF ContractReadings, Reading, When
<1>7. /\ ~(c.cont > 0 /\ c.age.cont > 7) /\ ~(c.bars > 0 /\ c.age.bars > 7)
      /\ ~(c.points > 0 /\ c.age.curve > 7)
  BY <1>3 DEF StaleSources
<1>q. QED
  BY <1>1, <1>3, <1>6, <1>7

(* What the absence of reasons says.                                       *)
LEMMA UnrefusedIsStrong ==
  ASSUME NEW c \in Contexts, NEW a, a = Analyze(c), a.direction.score # None,
         HardReasons(a.direction, a.risk, a.confidence, a.metrics) = {}
  PROVE  LET gates == Config.hard_gates
         IN  /\ Extension(a.metrics) # None
             /\ Abs(a.direction.score) >= gates.minimum_direction_abs_score
             /\ a.risk.score < gates.risk_score
             /\ a.confidence >= gates.confidence_score
<1>1. a.direction.score \in Int /\ a.risk.score \in Int /\ a.confidence \in Int
  BY ScoresAreWhole DEF Scores
<1>2. /\ Config.hard_gates.minimum_direction_abs_score \in Int
      /\ Config.hard_gates.risk_score \in Int /\ Config.hard_gates.confidence_score \in Int
  BY GatesAreWhole
<1>3. /\ ~(a.risk.score >= Config.hard_gates.risk_score)
      /\ ~(a.confidence < Config.hard_gates.confidence_score)
      /\ ~(Abs(a.direction.score) < Config.hard_gates.minimum_direction_abs_score)
      /\ Extension(a.metrics) # None
  BY DEF HardReasons, OnlyIf
<1>4. Abs(a.direction.score) \in Int
  BY <1>1 DEF Abs
<1>q. QED
  BY <1>1, <1>2, <1>3, <1>4

(* Whatever the context, an analysis that a reader may act on has data     *)
(* that are enough and fresh, passes every gate and lies within the limits *)
(* of the configuration.                                                   *)
THEOREM CandidatesAreSafe == Spec => []CandidateIsSafe
<1>1. Inv => CandidateIsSafe
  <2> SUFFICES ASSUME Inv, pc = "analyzed", consumer_intent(analysis, 0) = "research_only"
               PROVE  CandidateIsSafe
    BY DEF CandidateIsSafe
  <2>1. PICK c \in Contexts : ctx = c /\ analysis = Analyze(c)
    BY DEF Inv, Analyzed
  <2>2. PICK a : a = analysis /\ a = Analyze(c)
    BY <2>1
  <2>3. /\ HardGates(c, a.metrics, a.quality) = {} /\ a.quality.blocking = {}
        /\ a.direction.score # None
        /\ HardReasons(a.direction, a.risk, a.confidence, a.metrics) = {}
        /\ a.opportunity.action =
             Action(Side(a.direction.score), a.opportunity.score, a.regime.primary, a.metrics)
    BY <2>2, ActionableIsUngated
  <2>4. a.metrics = compute(c) /\ a.quality = assess_quality(c)
    BY <2>2, PartsOfAnalysis
  <2>5. /\ Extension(a.metrics) # None
        /\ Abs(a.direction.score) >= Config.hard_gates.minimum_direction_abs_score
        /\ a.risk.score < Config.hard_gates.risk_score
        /\ a.confidence >= Config.hard_gates.confidence_score
    BY <2>2, <2>3, UnrefusedIsStrong
  <2>6. /\ c.limit = "ok" /\ c.readings.proximity < 90
        /\ c.dte >= Config.hard_gates.minimum_days_to_expiry
        /\ a.metrics["liquidity_quality_score"].status = "ok"
        /\ a.metrics["liquidity_quality_score"].value
             >= Config.hard_gates.minimum_liquidity_quality
        /\ a.quality.overall >= Config.hard_gates.minimum_data_quality
    BY <2>3, <2>4, UngatedIsSafe
  <2>7. /\ c.cont >= 21 /\ c.bars >= 21 /\ c.ohlc
        /\ c.age.cont <= 7 /\ c.age.bars <= 7
        /\ c.points > 0 => c.age.curve <= 7
    BY <2>3, <2>4, <2>5, UnblockedIsFresh
  <2>8. /\ a.opportunity.action = "long_candidate" => a.direction.score > 0
        /\ a.opportunity.action = "short_candidate" => a.direction.score < 0
    BY <2>3 DEF Action, Side
  <2>q. QED
    BY <2>1, <2>2, <2>3, <2>5, <2>6, <2>7, <2>8, Zenon DEF CandidateIsSafe
<1>q. QED
  BY <1>1, InvAlways, PTL
-----------------------------------------------------------------------------
(* Longs and shorts are judged alike: the analysis of the mirrored market  *)
(* has the mirrored action, the opposite direction score and the same      *)
(* opportunity score, reasons, confidence, risk and numbers of labels and  *)
(* of conditions, for any context and any accepted configuration.          *)
THEOREM MirrorIsSymmetric == Spec => []MirrorSymmetric
<1>1. Inv => MirrorSymmetric
  <2> SUFFICES ASSUME Inv, pc = "analyzed"  PROVE MirrorSymmetric
    BY DEF MirrorSymmetric
  <2>1. ctx \in Contexts /\ analysis = Analyze(ctx)
    BY DEF Inv, Analyzed
  <2>2. PICK a, b, c : /\ c \in MarketContexts /\ c = ctx
                       /\ a = analysis /\ a = Analyze(c) /\ b = Analyze(Mirror(c))
    BY <2>1, ShadowAssumption
  <2>3. /\ b.opportunity.action = Mirrored[a.opportunity.action]
        /\ b.direction.score = IF a.direction.score = None THEN None ELSE -a.direction.score
        /\ b.opportunity.score = a.opportunity.score
        /\ b.opportunity.reasons = a.opportunity.reasons
        /\ b.confidence = a.confidence
        /\ b.risk = a.risk
        /\ Cardinality(b.conditions) = Cardinality(a.conditions)
        /\ Cardinality(b.regime.secondary) = Cardinality(a.regime.secondary)
    BY <2>2, AnalysisMirrored
  <2>4. b = Analyze(Mirror(ctx))
    BY <2>2
  <2>q. QED
    BY <2>2, <2>3, <2>4, Zenon DEF MirrorSymmetric
<1>q. QED
  BY <1>1, InvAlways, PTL
=============================================================================
