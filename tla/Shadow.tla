------------------------------- MODULE Shadow -------------------------------
(***************************************************************************)
(* The daily shadow loop: ShadowRunner.run_session behind the session      *)
(* watermark, with injected faults, over the analyses of Analyst.          *)
(*                                                                         *)
(* An instant is a half day: session d trades in the first half of day d   *)
(* and closes at Close(d).  The journal lives in the process, the table    *)
(* fut_shadow_run in the database.                                         *)
(***************************************************************************)
EXTENDS Analyst, Sequences

CONSTANTS
  Contexts,   \* market contexts analyze() may meet
  Exchanges,  \* exchanges a call may name, in capitals
  Sessions,   \* session dates
  Instants,   \* instants of calls and of settlements
  MaxCalls    \* bound on the calls of run_session

ASSUME ShadowAssumption ==
  /\ Sessions \subseteq Int /\ Instants \subseteq Int /\ MaxCalls \in Nat
  /\ Contexts \subseteq MarketContexts
  /\ \A c \in Contexts, n \in Names : AtLeast(c.as_of - available_at(c, n), 0) \in DOMAIN Freshness

Faults == {"none", "network", "missing_field", "duplicate_batch", "stale", "timeout"}

VARIABLES
  pc,        \* "idle", "analyzing", "again", "analyzed"
  calls,     \* number of calls of run_session
  call,      \* the call in progress: its injected fault and watermark status
  ctx,       \* the context its analysis has used
  analysis,  \* what analyze() has returned
  journal,   \* observations of this process
  table,     \* observations saved
  unrecorded \* history: calls that ended without an observation

vars == <<pc, calls, call, ctx, analysis, journal, table, unrecorded>>

NoCall == [fault |-> "none", status |-> None]
-----------------------------------------------------------------------------
(* The watermark: the session is closed and its settlement is visible.     *)

EXCHANGE_WATERMARKS == {"SHFE", "DCE", "CZCE", "INE", "CFFEX", "GFEX"}

Close(session) == 2 * session + 1
Day(t) == t \div 2

(* An exchange without a policy is a ValueError, whatever the rest.        *)
evaluate_watermark(exchange, session, now, settlement) ==
  IF exchange \notin EXCHANGE_WATERMARKS THEN "ValueError"
  ELSE IF now < Close(session) THEN "too_early"
  ELSE IF settlement = None THEN "missing_settlement"
  ELSE IF settlement > now THEN "lookahead_blocked"
  ELSE IF Day(settlement) < session THEN "stale"
  ELSE "ready"

(* Mutation: the injected stale fault leaves the settlement alone.         *)
Settlement_Kept(session, settlement, fault) == settlement

(* The injected stale fault puts the settlement three days early.          *)
Settlement(session, settlement, fault) ==
  IF fault = "stale" THEN Close(session - 3) ELSE settlement
-----------------------------------------------------------------------------
(* Observations.                                                           *)

Observation(c, gap, hard_gate, candidate) ==
  [call |-> calls', fault |-> c.fault, status |-> c.status,
   gap |-> gap, hard_gate |-> hard_gate, candidate |-> candidate]

(* _record: to the journal, then to the table; saving may fail, and the    *)
(* exception ends the call with the journal entry in place.                *)
Record(observation) ==
  /\ journal' = Append(journal, observation)
  /\ table' \in {table, Append(table, observation)}
  /\ pc' = "idle" /\ call' = NoCall /\ ctx' = None /\ analysis' = None
  /\ UNCHANGED unrecorded

Blocked(c) == Record(Observation(c, TRUE, TRUE, FALSE))

(* run_session up to analyze(): a fault or the watermark ends it at once.  *)
(* The error of the watermark passes through before any fault is looked    *)
(* at: no observation.                                                     *)
RunSession(exchange, session, now, settlement, fault) ==
  LET status == evaluate_watermark(exchange, session, now,
                                   Settlement(session, settlement, fault))
      c == [fault |-> fault, status |-> status]
  IN  /\ pc = "idle" /\ calls < MaxCalls
      /\ calls' = calls + 1
      /\ \/ /\ status = "ValueError"
            /\ unrecorded' = unrecorded \union {calls'}
            /\ UNCHANGED <<pc, call, ctx, analysis, journal, table>>
         \/ /\ status # "ValueError"
            /\ fault \in {"network", "missing_field"} \/ status # "ready"
            /\ Blocked(c)
         \/ /\ fault \notin {"network", "missing_field"} /\ status = "ready"
            /\ pc' = "analyzing" /\ call' = c
            /\ UNCHANGED <<ctx, analysis, journal, table, unrecorded>>

(* analyze() returns; a duplicate batch runs it once more.                 *)
AnalyzeReturns(context) ==
  /\ pc = "analyzing"
  /\ ctx' = context /\ analysis' = Analyze(context)
  /\ pc' = IF call.fault = "duplicate_batch" THEN "again" ELSE "analyzed"
  /\ UNCHANGED <<calls, call, journal, table, unrecorded>>

AnalyzeAgain ==
  /\ pc = "again"
  /\ pc' = "analyzed"
  /\ UNCHANGED <<calls, call, ctx, analysis, journal, table, unrecorded>>

(* Mutation: a timeout is raised again without a record.                   *)
AnalyzeTimesOut_Unrecorded ==
  /\ pc \in {"analyzing", "again"}
  /\ pc' = "idle" /\ call' = NoCall /\ ctx' = None /\ analysis' = None
  /\ UNCHANGED <<calls, journal, table, unrecorded>>

(* A TimeoutError is recorded as a gap and raised again.                   *)
AnalyzeTimesOut ==
  /\ pc \in {"analyzing", "again"}
  /\ UNCHANGED calls
  /\ Blocked([call EXCEPT !.fault = "timeout"])

(* Any other exception passes through: no observation.                     *)
AnalyzeFails ==
  /\ pc \in {"analyzing", "again"}
  /\ unrecorded' = unrecorded \union {calls}
  /\ pc' = "idle" /\ call' = NoCall /\ ctx' = None /\ analysis' = None
  /\ UNCHANGED <<calls, journal, table>>

IsCandidate ==
  /\ analysis.opportunity.action \in {"long_candidate", "short_candidate"}
  /\ ~analysis.risk.hard_gate_triggered

RecordAnalysis ==
  /\ pc = "analyzed"
  /\ UNCHANGED calls
  /\ Record(Observation(call, FALSE, analysis.risk.hard_gate_triggered, IsCandidate))

(* The process dies: the journal is gone, the table stays.                 *)
Crash ==
  /\ unrecorded' = unrecorded \union {journal[i].call : i \in DOMAIN journal}
                     \union OnlyIf(pc # "idle", {calls})
  /\ journal' = <<>>
  /\ pc' = "idle" /\ call' = NoCall /\ ctx' = None /\ analysis' = None
  /\ UNCHANGED <<calls, table>>

(* operational_alerts over the journal.                                    *)
Alerts ==
  LET rows == {journal[i] : i \in DOMAIN journal}
  IN  OnlyIf(\E r \in rows : r.gap, {"shadow_gap"})
        \union OnlyIf(\E r \in rows : r.fault # "none" /\ r.candidate,
                      {"candidate_emitted_during_fault"})
-----------------------------------------------------------------------------
Init ==
  /\ pc = "idle" /\ calls = 0 /\ call = NoCall /\ ctx = None /\ analysis = None
  /\ journal = <<>> /\ table = <<>> /\ unrecorded = {}

Next ==
  \/ \E exchange \in Exchanges, session \in Sessions, now \in Instants,
        settlement \in Instants \union {None}, fault \in Faults :
        RunSession(exchange, session, now, settlement, fault)
  \/ \E context \in Contexts : AnalyzeReturns(context)
  \/ AnalyzeAgain
  \/ AnalyzeTimesOut
  \/ AnalyzeFails
  \/ RecordAnalysis
  \/ Crash

Spec == Init /\ [][Next]_vars
-----------------------------------------------------------------------------
Statuses == {"too_early", "missing_settlement", "lookahead_blocked", "stale", "ready"}
Rows == [call : 1..MaxCalls, fault : Faults, status : Statuses,
         gap : BOOLEAN, hard_gate : BOOLEAN, candidate : BOOLEAN]

(* Every variable has its type.                                            *)
TypeOK ==
  /\ pc \in {"idle", "analyzing", "again", "analyzed"}
  /\ calls \in 0..MaxCalls
  /\ call \in [fault : Faults, status : Statuses \union {None}]
  /\ ctx \in Contexts \union {None}
  /\ journal \in Seq(Rows)
  /\ table \in Seq(Rows)
  /\ unrecorded \subseteq 1..calls

(* An analysis that a reader may act on (any action but no_trade and       *)
(* insufficient_data, which is what bot_reader passes on) was made from    *)
(* enough fresh data of the series, the contract and its limits, with a    *)
(* usable liquidity, far enough from expiry, and its direction, risk and   *)
(* confidence are within the limits of the configuration: nothing missing, *)
(* blocking or gated reaches an actionable result through any engine.      *)
CandidateIsSafe ==
  pc = "analyzed" =>
    LET a == analysis
        gates == Config.hard_gates
    IN  consumer_intent(a, 0) = "research_only" =>
          /\ ctx.cont >= 21 /\ ctx.bars >= 21 /\ ctx.ohlc /\ ctx.limit = "ok"
          /\ ctx.age.cont <= 7 /\ ctx.age.bars <= 7
          /\ ctx.points > 0 => ctx.age.curve <= 7
          /\ ctx.dte >= gates.minimum_days_to_expiry
          /\ ctx.readings.proximity < 90
          /\ a.metrics["liquidity_quality_score"].status = "ok"
          /\ a.metrics["liquidity_quality_score"].value >= gates.minimum_liquidity_quality
          /\ a.quality.overall >= gates.minimum_data_quality
          /\ a.direction.score # None
          /\ Abs(a.direction.score) >= gates.minimum_direction_abs_score
          /\ a.risk.score < gates.risk_score
          /\ a.confidence >= gates.confidence_score
          /\ a.opportunity.action = "long_candidate" => a.direction.score > 0
          /\ a.opportunity.action = "short_candidate" => a.direction.score < 0

(* The inputs each metric's formula reads, by the statistics it calls.     *)
Reads(n) ==
  CASE n \in {"settlement_vs_ma60", "contract_return_5d", "positioning_composite"} -> {"bars", "cont"}
    [] n \in ResearchMetrics -> {"cont"}
    [] n \in CurveMetrics -> {"curve", "hist"}
    [] n \in ShareMetrics -> {"curve"}
    [] n = "liquidity_quality_score" -> {"bars", "curve"}
    [] n \in {"days_to_expiry", "roll_risk_score"} -> {}
    [] OTHER -> {"bars"}

(* A metric is never stamped available before an input its value, score or *)
(* rank was computed from: a consumer that replays by available_at, like   *)
(* the invalidation monitor, cannot see it early.                          *)
MetricCausal ==
  pc = "analyzed" =>
    \A n \in Names : LET m == analysis.metrics[n]
                     IN  m.value # None =>
                           \A g \in Reads(n) : \A t \in Since(ctx, g) : t <= m.available_at

(* The market seen in a mirror: every signed reading negated.              *)
Mirror(context) ==
  LET r == context.readings
  IN  [context EXCEPT !.readings =
         [n \in DOMAIN r |->
            IF n = "rsi" THEN 100 - r[n]
            ELSE IF n \in {"short", "mid", "long", "acceleration", "structure", "extension",
                           "ma60", "price", "slope", "change", "curvature"} THEN -r[n]
            ELSE r[n]]]

Mirrored == [long_candidate |-> "short_candidate", short_candidate |-> "long_candidate",
             wait_for_pullback |-> "wait_for_rebound", wait_for_rebound |-> "wait_for_pullback",
             wait_for_breakout |-> "wait_for_breakout", no_trade |-> "no_trade",
             insufficient_data |-> "insufficient_data"]

(* Longs and shorts are judged alike: the mirrored market gets the         *)
(* mirrored action, the opposite direction score, the same opportunity     *)
(* score, confidence, risk and reasons, and as many conditions.  A sign or *)
(* threshold slip in any of the engines favours one side.                  *)
MirrorSymmetric ==
  pc = "analyzed" =>
    LET a == analysis
        b == Analyze(Mirror(ctx))
    IN  /\ b.opportunity.action = Mirrored[a.opportunity.action]
        /\ b.direction.score = IF a.direction.score = None THEN None ELSE -a.direction.score
        /\ b.opportunity.score = a.opportunity.score
        /\ b.opportunity.reasons = a.opportunity.reasons
        /\ b.confidence = a.confidence
        /\ b.risk = a.risk
        /\ Cardinality(b.conditions) = Cardinality(a.conditions)
        /\ Cardinality(b.regime.secondary) = Cardinality(a.regime.secondary)

(* Every call of run_session that has ended left exactly one observation   *)
(* in the journal, unless its exchange has no watermark, analyze() raised  *)
(* something other than a timeout or the process died; what the table      *)
(* holds was in the journal, once, in the order of the calls.              *)
CallsAccounted ==
  LET ended == IF pc = "idle" THEN 1..calls ELSE 1..(calls - 1)
      callsOf(rows) == {rows[i].call : i \in DOMAIN rows}
      increasing(rows) == \A i, j \in DOMAIN rows : i < j => rows[i].call < rows[j].call
  IN  /\ callsOf(journal) \union unrecorded = ended
      /\ callsOf(journal) \cap unrecorded = {}
      /\ callsOf(table) \subseteq ended
      /\ increasing(journal) /\ increasing(table)
      /\ \A i \in DOMAIN table, j \in DOMAIN journal :
           table[i].call = journal[j].call => table[i] = journal[j]

(* An outage, a missing field, a stale or absent settlement and an open    *)
(* session never yield a candidate: each is a gap, hard gated, and pages   *)
(* as one as long as the process that saw it lives.  A candidate recorded  *)
(* under any other fault pages too.                                        *)
FaultsAreGaps ==
  LET rows == {journal[i] : i \in DOMAIN journal} \union {table[i] : i \in DOMAIN table}
      blocked(r) == r.fault \in {"network", "missing_field", "stale"} \/ r.status # "ready"
  IN  /\ \A r \in rows : blocked(r) => r.gap /\ r.hard_gate /\ ~r.candidate
      /\ \A i \in DOMAIN journal :
           /\ blocked(journal[i]) => "shadow_gap" \in Alerts
           /\ journal[i].candidate /\ journal[i].fault # "none"
                => "candidate_emitted_during_fault" \in Alerts
=============================================================================
