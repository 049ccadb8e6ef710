------------------------------ MODULE Analyst ------------------------------
(***************************************************************************)
(* What an analysis concludes of its scores: the opportunity and its       *)
(* action, the invalidation conditions, and what the local reader makes of *)
(* it.  Analyze is the computed part of FuturesMarketAnalyst.analyze; how  *)
(* a result is cached and saved is the matter of AnalysisRun.              *)
(***************************************************************************)
EXTENDS Scoring

Side(score) == IF score = None THEN "none"
               ELSE IF score > 0 THEN "long"
               ELSE IF score < 0 THEN "short"
               ELSE "none"

(* Both optional: extension in ATRs and RSI, as far as they are usable.    *)
Extension(metrics) == RiskValue(metrics, "extension_atr")
Rsi(metrics) == RiskValue(metrics, "rsi_14")

(* Mutation: a high RSI spoils a short entry too.                          *)
entry_quality_SameHeat(side, metrics) ==
  LET toward == IF side = "long" THEN 1 ELSE -1
      run == IF Extension(metrics) = None THEN 0 ELSE toward * Extension(metrics)
      heat == IF Rsi(metrics) = None THEN 0 ELSE Rsi(metrics) - 50
  IN  IF side = "none" THEN 40
      ELSE clip(75 - 22 * AtLeast(run - 1, 0) - AtLeast(heat - 15, 0), 0, 100)

(* A long entry loses by what the price has run above its average and by   *)
(* an overbought RSI, and gains by a small dip; a short entry mirrors it.  *)
entry_quality(side, metrics) ==
  LET toward == IF side = "long" THEN 1 ELSE -1
      run == IF Extension(metrics) = None THEN 0 ELSE toward * Extension(metrics)
      heat == IF Rsi(metrics) = None THEN 0 ELSE toward * (Rsi(metrics) - 50)
      quality == 10 * 75 - 220 * AtLeast(run - 1, 0) + 100 * AtLeast(AtMost(-run, 1), 0)
                   - 14 * AtLeast(heat - 15, 0)
  IN  IF side = "none" THEN 40 ELSE clip(Over(quality, 10), 0, 100)

RegimeFit(side, primary) ==
  CASE side = "none" -> 30
    [] <<side, primary>> \in {<<"long", "strong_bull_trend">>, <<"short", "strong_bear_trend">>} -> 90
    [] <<side, primary>> \in {<<"long", "weak_bull_trend">>, <<"short", "weak_bear_trend">>} -> 75
    [] side # "none" /\ primary = "range" -> 45
    [] OTHER -> 15

(* Reasons that refuse any candidate.                                      *)
HardReasons(direction, risk, confidence, metrics) ==
  LET gates == Config.hard_gates
  IN  OnlyIf(direction.score = None, {"insufficient_direction_data"})
        \union risk.codes
        \union OnlyIf(risk.score >= gates.risk_score, {"risk_score_above_limit"})
        \union OnlyIf(confidence < gates.confidence_score, {"confidence_below_limit"})
        \union OnlyIf(direction.score # None
                        /\ Abs(direction.score) < gates.minimum_direction_abs_score,
                      {"direction_too_weak"})
        \union OnlyIf(Extension(metrics) = None, {"missing_entry_atr"})
        \union OnlyIf(~Usable(metrics["liquidity_quality_score"]), {"missing_liquidity_quality"})

OpportunityScore(direction, side, primary, risk, metrics) ==
  LET w == Config.opportunity
      liquidity == IF Usable(metrics["liquidity_quality_score"])
                   THEN metrics["liquidity_quality_score"].value ELSE 0
      raw == w.direction_strength * Abs(direction.score)
               + w.entry_quality * entry_quality(side, metrics)
               + w.regime_fit * RegimeFit(side, primary)
               + w.liquidity_quality * liquidity - w.risk_penalty * risk.score
  IN  IF direction.score = None THEN 0 ELSE clip(Over(raw, 100), 0, 100)

(* The action once no reason refuses it.                                   *)
Action(side, score, primary, metrics) ==
  LET extension == IF Extension(metrics) = None THEN 0 ELSE Extension(metrics)
      rsi == IF Rsi(metrics) = None THEN 50 ELSE Rsi(metrics)
  IN  IF side = "long" /\ (extension >= 2 \/ rsi >= 75) THEN "wait_for_pullback"
      ELSE IF side = "short" /\ (extension <= -2 \/ rsi <= 25) THEN "wait_for_rebound"
      ELSE IF primary = "range" /\ score < 50 THEN "wait_for_breakout"
      ELSE IF score >= 45 /\ side = "long" THEN "long_candidate"
      ELSE IF score >= 45 /\ side = "short" THEN "short_candidate"
      ELSE "no_trade"

assess_opportunity(direction, regime, risk, confidence, metrics) ==
  LET reasons == HardReasons(direction, risk, confidence, metrics)
      side == Side(direction.score)
      score == OpportunityScore(direction, side, regime.primary, risk, metrics)
  IN  [side |-> side, score |-> score, reasons |-> reasons,
       action |-> IF direction.score = None THEN "insufficient_data"
                  ELSE IF reasons # {} THEN "no_trade"
                  ELSE Action(side, score, regime.primary, metrics)]

(* build_conditions: what would refute the direction, each from a metric   *)
(* that was there; [metric, operator, threshold].                          *)
Condition(metric, operator, threshold) ==
  [metric |-> metric, operator |-> operator, threshold |-> threshold]

build_conditions(direction, metrics) ==
  LET bullish == direction.score > 0
      operator == IF bullish THEN "lt" ELSE "gt"
  IN  IF direction.score = None THEN {}
      ELSE IF Abs(direction.score) < 25 THEN {}
      ELSE OnlyIf(metrics["settlement_vs_ma60"].value # None,
                  {Condition("settlement_vs_ma60", operator, 0)})
             \union OnlyIf(metrics["return_20d"].score # None,
                           {Condition("return_20d", operator, IF bullish THEN -25 ELSE 25)})
             \union OnlyIf(metrics["curve_slope"].value # None,
                           {Condition("curve_slope", operator, 0)})

(* analyze, step by step: each step is given what the ones before came to. *)
Conclusion(metrics, quality, factors, direction, confidence, risk) ==
  LET regime == classify(factors, metrics)
      opportunity == assess_opportunity(direction, regime, risk, confidence, metrics)
  IN  [metrics |-> metrics, quality |-> quality, regime |-> regime, direction |-> direction,
       confidence |-> confidence, risk |-> risk,
       opportunity |-> IF quality.blocking # {}
                       THEN [opportunity EXCEPT !.action = "insufficient_data",
                                                !.reasons = @ \union quality.blocking]
                       ELSE opportunity,
       conditions |-> build_conditions(direction, metrics)]

Assessment(ctx, metrics, quality, factors, direction) ==
  Conclusion(metrics, quality, factors, direction,
             assess_confidence(ctx, factors, direction, metrics, quality),
             assess_risk(ctx, metrics, quality))

(* Blocking issues withhold the direction before it is used and override   *)
(* the action after.                                                       *)
Directed(direction, quality) ==
  IF quality.blocking # {} THEN [direction EXCEPT !.score = None, !.label = Label(None)]
                           ELSE direction

Judgement(ctx, metrics, quality, factors) ==
  Assessment(ctx, metrics, quality, factors,
             Directed(assess_direction(ctx.horizon, factors), quality))

Judged(ctx, metrics, quality) == Judgement(ctx, metrics, quality, score_factors(metrics))

Analyze(ctx) == Judged(ctx, compute(ctx), assess_quality(ctx))

(* summarize in bot_reader.py: what the reader of a stored analysis may    *)
(* use it for, by its gates, its action and its age in days.               *)
consumer_intent(analysis, days) ==
  IF days > 7 THEN "blocked_stale"
  ELSE IF analysis.risk.hard_gate_triggered THEN "blocked"
  ELSE IF analysis.opportunity.action \in {"no_trade", "insufficient_data"} THEN "blocked"
  ELSE "research_only"
=============================================================================
