------------------------------ MODULE Scoring ------------------------------
(***************************************************************************)
(* The deterministic pipeline of FuturesMarketAnalyst.analyze over the     *)
(* metrics of Features: factors, direction, regime, data quality,          *)
(* confidence, risk, opportunity and invalidation conditions.              *)
(*                                                                         *)
(* Scores are whole points and weights whole percents; the reported text,  *)
(* the metric quality and the evidence list are left out.                  *)
(***************************************************************************)
EXTENDS Features, FiniteSetsExt

CONSTANTS
  Config,       \* the ScoringConfig in force
  Freshness     \* 100 * exp(-days / 10) in whole points, by days of age

Factors == {"trend", "momentum", "positioning", "term_structure"}

DefaultConfig ==
  [direction  |-> [swing    |-> [trend |-> 40, momentum |-> 25, positioning |-> 15, term_structure |-> 20],
                   position |-> [trend |-> 45, momentum |-> 15, positioning |-> 10, term_structure |-> 30]],
   minimum_available_weight |-> 70,
   labels     |-> [strong_bullish |-> 60, bullish |-> 25, bearish |-> -25, strong_bearish |-> -60],
   confidence |-> [coverage |-> 30, freshness |-> 20, agreement |-> 25, data_quality |-> 15,
                   historical_calibration |-> 10],
   opportunity |-> [direction_strength |-> 45, entry_quality |-> 25, regime_fit |-> 15,
                    liquidity_quality |-> 15, risk_penalty |-> 35],
   hard_gates |-> [risk_score |-> 80, confidence_score |-> 45, minimum_days_to_expiry |-> 7,
                   minimum_direction_abs_score |-> 25, minimum_data_quality |-> 60,
                   minimum_liquidity_quality |-> 20],
   volatility |-> [low_percentile |-> 25, high_percentile |-> 75, extreme_percentile |-> 90]]

(* __post_init__: what a configuration must satisfy to be accepted.        *)
Weights(names) == [names -> Nat]
ValidConfig(c) ==
  /\ DOMAIN c.direction = {"swing", "position"}
  /\ \A h \in DOMAIN c.direction :
       c.direction[h] \in Weights(Factors) /\ SumFunction(c.direction[h]) = 100
  /\ c.confidence \in Weights({"coverage", "freshness", "agreement", "data_quality",
                               "historical_calibration"})
  /\ SumFunction(c.confidence) = 100
  /\ c.opportunity \in Weights({"direction_strength", "entry_quality", "regime_fit",
                                "liquidity_quality", "risk_penalty"})
  /\ SumFunction(c.opportunity) - c.opportunity.risk_penalty = 100
  /\ c.minimum_available_weight \in 0..100
  /\ c.labels \in [{"strong_bearish", "bearish", "bullish", "strong_bullish"} -> Int]
  /\ c.labels.strong_bearish < c.labels.bearish
  /\ c.labels.bearish < c.labels.bullish
  /\ c.labels.bullish < c.labels.strong_bullish
  /\ DOMAIN c.hard_gates =
       {"risk_score", "confidence_score", "minimum_days_to_expiry", "minimum_direction_abs_score",
        "minimum_data_quality", "minimum_liquidity_quality"}
  /\ \A g \in DOMAIN c.hard_gates \ {"minimum_days_to_expiry"} : c.hard_gates[g] \in 0..100
  /\ c.hard_gates.minimum_days_to_expiry \in Nat
  /\ c.volatility \in [{"low_percentile", "high_percentile", "extreme_percentile"} -> Int]
  /\ 0 <= c.volatility.low_percentile
  /\ c.volatility.low_percentile < c.volatility.high_percentile
  /\ c.volatility.high_percentile < c.volatility.extreme_percentile
  /\ c.volatility.extreme_percentile <= 100

(* __post_init__ accepts a least coverage of 0, under which assess divides *)
(* by 0 once no factor has a score; the configurations here ask for some.  *)
ASSUME ScoringAssumption ==
  /\ ValidConfig(Config) /\ Config.minimum_available_weight > 0
  /\ \A days \in DOMAIN Freshness : Freshness[days] \in 0..100
-----------------------------------------------------------------------------
(* Factors: each is the weighted mean of its usable features, missing when *)
(* too little of its weight is usable.                                     *)

FeatureWeights ==
  [trend |-> [return_20d |-> 30, return_60d |-> 30, return_120d |-> 15, ma_structure |-> 15,
              breakout_position_120d |-> 10],
   momentum |-> [return_5d |-> 30, return_20d |-> 30, rsi_14 |-> 20, momentum_acceleration |-> 20],
   positioning |-> [positioning_composite |-> 100],
   term_structure |-> [curve_slope |-> 50, curve_slope_change_20d |-> 30, curve_curvature |-> 20]]

MinimumCoverage == [trend |-> 60, momentum |-> 70, positioning |-> 80, term_structure |-> 50]

Scored(score, status) == [score |-> score, status |-> status]

score_factor(f, metrics) ==
  LET weight == FeatureWeights[f]
      available == {n \in DOMAIN weight : metrics[n].score # None /\ metrics[n].status = "ok"}
      coverage == SumFunctionOnSet(weight, available)
      raw == SumFunction([n \in available |-> weight[n] * metrics[n].score])
  IN  IF available = {} THEN Scored(None, "missing")
      ELSE IF available # {} /\ coverage < MinimumCoverage[f] THEN Scored(None, "insufficient")
      ELSE Scored(clip(Over(raw, coverage), -100, 100), IF coverage = 100 THEN "ok" ELSE "partial")

score_factors(metrics) == [f \in Factors |-> score_factor(f, metrics)]
-----------------------------------------------------------------------------
(* Direction: the weighted mean of the factors that have a score, none     *)
(* when they carry too little of the horizon's weight.                     *)

Label(score) ==
  LET l == Config.labels
  IN  IF score = None THEN "insufficient_data"
      ELSE IF score >= l.strong_bullish THEN "strong_bullish"
      ELSE IF score >= l.bullish THEN "bullish"
      ELSE IF score <= l.strong_bearish THEN "strong_bearish"
      ELSE IF score <= l.bearish THEN "bearish"
      ELSE "neutral"

assess_direction(horizon, factors) ==
  LET weight == Config.direction[horizon]
      available == {f \in Factors : factors[f].score # None}
      coverage == SumFunctionOnSet(weight, available)
      raw == SumFunction([f \in available |-> weight[f] * factors[f].score])
      score == IF coverage < Config.minimum_available_weight THEN None
               ELSE clip(Over(raw, coverage), -100, 100)
  IN  [score |-> score, label |-> Label(score), coverage |-> coverage]
-----------------------------------------------------------------------------
(* Regime: a label by the trend factor, and secondary labels.  These read  *)
(* values and scores of metrics whatever their status.                     *)

PrimaryRegime(trend) ==
  IF trend = None THEN "insufficient_data"
  ELSE IF trend >= 60 THEN "strong_bull_trend"
  ELSE IF trend >= 20 THEN "weak_bull_trend"
  ELSE IF trend <= -60 THEN "strong_bear_trend"
  ELSE IF trend <= -20 THEN "weak_bear_trend"
  ELSE "range"

(* At most one label of the trend against the momentum, in this order.     *)
TrendLabel(trend, momentum) ==
  IF trend = None \/ momentum = None THEN {}
  ELSE IF trend >= 20 /\ momentum >= 40 THEN {"trend_acceleration"}
  ELSE IF trend <= -20 /\ momentum <= -40 THEN {"trend_acceleration"}
  ELSE IF trend >= 20 /\ momentum <= -20 THEN {"pullback_in_bull_trend"}
  ELSE IF trend <= -20 /\ momentum >= 20 THEN {"rebound_in_bear_trend"}
  ELSE IF Abs(momentum) < 15 /\ Abs(trend) >= 30 THEN {"trend_deceleration"}
  ELSE {}

CurveLabel(curve, change) ==
  IF curve = None \/ Abs(curve) < 30 THEN {}
  ELSE IF change = None THEN {IF curve > 0 THEN "backwardation_strengthening"
                                           ELSE "contango_strengthening"}
  ELSE IF curve > 0 THEN {IF change >= 0 THEN "backwardation_strengthening"
                                         ELSE "backwardation_weakening"}
  ELSE {IF change <= 0 THEN "contango_strengthening" ELSE "contango_weakening"}

PositionLabel(oi, positioning) ==
  IF oi = None \/ positioning = None THEN {}
  ELSE IF oi > 0 /\ Abs(positioning) >= 20 THEN {"position_building"}
  ELSE IF oi < 0 /\ Abs(positioning) >= 15 THEN {"position_liquidation"}
  ELSE {}

(* What a falling open interest suggests of the contract's own return.     *)
Hypotheses(price, oi) ==
  IF price = None \/ oi = None THEN {}
  ELSE IF price > 0 /\ oi < 0 THEN {"possible_short_covering_rally"}
  ELSE IF price < 0 /\ oi < 0 THEN {"possible_long_liquidation"}
  ELSE {}

VolatilityRegime(percentile) ==
  LET v == Config.volatility
  IN  IF percentile = None THEN "unknown"
      ELSE IF percentile >= v.extreme_percentile THEN "extreme"
      ELSE IF percentile >= v.high_percentile THEN "high"
      ELSE IF percentile < v.low_percentile THEN "low"
      ELSE "normal"

LiquidityRegime(quality) ==
  IF quality = None THEN "unknown"
  ELSE IF quality >= 70 THEN "high"
  ELSE IF quality >= 40 THEN "normal"
  ELSE IF quality >= 20 THEN "low"
  ELSE "illiquid"

classify(factors, metrics) ==
  [primary |-> PrimaryRegime(factors["trend"].score),
   secondary |-> TrendLabel(factors["trend"].score, factors["momentum"].score)
     \union CurveLabel(factors["term_structure"].score, metrics["curve_slope_change_20d"].score)
     \union PositionLabel(metrics["oi_change_5d"].value, factors["positioning"].score),
   hypotheses |-> Hypotheses(metrics["contract_return_5d"].value, metrics["oi_change_5d"].value),
   volatility |-> VolatilityRegime(metrics["volatility_percentile"].value),
   liquidity |-> LiquidityRegime(metrics["liquidity_quality_score"].value)]
-----------------------------------------------------------------------------
(* Data quality: a coverage score over the four dependencies, issues that  *)
(* block the analysis, and a penalty for stale data.                       *)

StaleSources(ctx) ==
  {s \in {"continuous_series", "selected_contract", "term_structure_curve"} :
     \/ s = "continuous_series" /\ ctx.cont > 0 /\ ctx.age.cont > 7
     \/ s = "selected_contract" /\ ctx.bars > 0 /\ ctx.age.bars > 7
     \/ s = "term_structure_curve" /\ ctx.points > 0 /\ ctx.age.curve > 7}

FutureData(ctx) ==
  \E g \in {"cont", "bars", "curve"} : \E t \in Since(ctx, g) : t > ctx.as_of

BlockingIssues(ctx) ==
  OnlyIf(ctx.cont < 21, {"continuous_series_has_fewer_than_21_bars"})
    \union OnlyIf(ctx.bars < 6, {"selected_contract_has_fewer_than_6_bars"})
    \union OnlyIf(FutureData(ctx), {"market_context_contains_data_not_available_at_as_of"})
    \union StaleSources(ctx)
    \union OnlyIf(ctx.bars = 0 /\ ctx.cont = 0, {"no_daily_market_data"})

assess_quality(ctx) ==
  LET required == IF ctx.horizon = "swing" THEN 61 ELSE 121
      part(n, of) == clip((100 * n) \div of, 0, 100)
      coverage == (40 * part(ctx.cont, required) + 25 * part(ctx.bars, 21)
                     + 20 * (IF ctx.points >= 2 THEN 100 ELSE 0)
                     + 15 * (IF ctx.dte >= 0 THEN 100 ELSE 0)) \div 100
      blocking == BlockingIssues(ctx)
      fresh == coverage - (IF StaleSources(ctx) # {} THEN 15 ELSE 0)
      overall == clip(IF blocking # {} THEN AtMost(fresh, 40) ELSE fresh, 0, 100)
      short == ctx.cont < required \/ ctx.bars < 21 \/ ctx.points < 2
  IN  [overall |-> overall, blocking |-> blocking,
       status |-> IF blocking # {} \/ overall < 60 THEN "insufficient"
                  ELSE IF overall < 85 \/ short THEN "partial" ELSE "ok"]
-----------------------------------------------------------------------------
(* Confidence: the weighted mean of its known components.  Agreement is    *)
(* unknown without a direction; nothing supplies a historical calibration. *)

freshness(ctx, metrics) ==
  LET valid == {n \in Names : Usable(metrics[n])}
      age(n) == AtLeast(ctx.as_of - metrics[n].available_at, 0)
  IN  IF valid = {} THEN 0
      ELSE SumFunction([n \in valid |-> Freshness[age(n)]]) \div Cardinality(valid)

agreement(horizon, direction, factors) ==
  LET weight == Config.direction[horizon]
      available == {f \in Factors : factors[f].score # None}
      opposing == {f \in available : /\ Abs(factors[f].score) >= 20
                                     /\ factors[f].score * Sign(direction.score) < 0}
      total(S) == SumFunctionOnSet(weight, S)
  IN  IF direction.score = None THEN None
      ELSE IF direction.score = 0 THEN None
      ELSE IF total(available) = 0 THEN 0
      ELSE (100 * (total(available) - total(opposing))) \div total(available)

assess_confidence(ctx, factors, direction, metrics, quality) ==
  LET components ==
        [coverage |-> direction.coverage, freshness |-> freshness(ctx, metrics),
         agreement |-> agreement(ctx.horizon, direction, factors),
         data_quality |-> quality.overall, historical_calibration |-> None]
      known == {n \in DOMAIN components : components[n] # None}
      weight == SumFunctionOnSet(Config.confidence, known)
  IN  IF weight = 0 THEN 0
      ELSE SumFunction([n \in known |-> Config.confidence[n] * components[n]]) \div weight
-----------------------------------------------------------------------------
(* Risk: a weighted mean of the known risks, raised to the most severe     *)
(* hard gate.                                                              *)

SoftWeights == [volatility_risk |-> 30, liquidity_risk |-> 20, roll_risk |-> 15,
                price_limit_risk |-> 15, crowding_risk |-> 10, data_quality_risk |-> 10]

RiskValue(metrics, name) == When(Usable(metrics[name]), metrics[name].value)

(* Soft risks by code, None when their metric cannot be used.              *)
SoftRisks(metrics, quality) ==
  LET volatility == RiskValue(metrics, "volatility_percentile")
      liquidity == RiskValue(metrics, "liquidity_quality_score")
      oi == RiskValue(metrics, "open_interest_percentile")
  IN  [volatility_risk |-> When(volatility # None, clip(2 * (volatility - 50), 0, 100)),
       liquidity_risk |-> When(liquidity # None, clip(100 - liquidity, 0, 100)),
       roll_risk |-> RiskValue(metrics, "roll_risk_score"),
       price_limit_risk |-> RiskValue(metrics, "price_limit_proximity_risk"),
       crowding_risk |-> When(oi # None, clip(5 * (oi - 80), 0, 100)),
       data_quality_risk |-> clip(100 - quality.overall, 0, 100)]

Gate(code, severity) == [code |-> code, severity |-> severity]

(* Mutation: a metric that is missing gates nothing.                       *)
HardGates_KnownOnly(ctx, metrics, quality) ==
  LET liquidity == RiskValue(metrics, "liquidity_quality_score")
      limit == RiskValue(metrics, "price_limit_proximity_risk")
  IN  OnlyIf(liquidity # None /\ liquidity < Config.hard_gates.minimum_liquidity_quality,
             {Gate("liquidity_risk", 85)})
        \union OnlyIf(limit # None /\ limit >= 90, {Gate("price_limit_risk", limit)})
        \union OnlyIf(quality.overall < Config.hard_gates.minimum_data_quality,
                      {Gate("data_quality_risk", 90)})
        \union OnlyIf(ctx.dte < Config.hard_gates.minimum_days_to_expiry, {Gate("expiry_hard_gate", 100)})

HardGates(ctx, metrics, quality) ==
  LET gates == Config.hard_gates
      soft == SoftRisks(metrics, quality)
      liquidity == RiskValue(metrics, "liquidity_quality_score")
      limit == RiskValue(metrics, "price_limit_proximity_risk")
  IN  OnlyIf(liquidity # None /\ liquidity < gates.minimum_liquidity_quality,
             {Gate("liquidity_risk", AtLeast(soft.liquidity_risk, 85))})
        \union OnlyIf(limit # None /\ limit >= 90, {Gate("price_limit_risk", limit)})
        \union OnlyIf(quality.overall < gates.minimum_data_quality,
                      {Gate("data_quality_risk", AtLeast(soft.data_quality_risk, 90))})
        \union OnlyIf(liquidity = None, {Gate("unknown_liquidity_risk", 100)})
        \union OnlyIf(limit = None, {Gate("unknown_price_limit_risk", 100)})
        \union OnlyIf(ctx.dte < gates.minimum_days_to_expiry, {Gate("expiry_hard_gate", 100)})

assess_risk(ctx, metrics, quality) ==
  LET soft == SoftRisks(metrics, quality)
      known == {n \in DOMAIN soft : soft[n] # None}
      mean == SumFunction([n \in known |-> SoftWeights[n] * soft[n]])
                \div SumFunctionOnSet(SoftWeights, known)
      gates == HardGates(ctx, metrics, quality)
  IN  [score |-> clip(Max({mean} \union {g.severity : g \in gates}), 0, 100),
       codes |-> {g.code : g \in gates},
       hard_gate_triggered |-> gates # {}]
=============================================================================
