------------------------------ MODULE Features ------------------------------
(***************************************************************************)
(* ReferenceFeatureEngine.compute: the metrics of one market context.      *)
(*                                                                         *)
(* A context says how much data there is (bars, curve points, history),    *)
(* since when each group of inputs is available, and what the statistics   *)
(* come to when the data allow them (readings).  The statistics themselves *)
(* are abstracted to their results, scores in whole points of -100..100;   *)
(* which of them exist, from how many samples and since when is kept.      *)
(*                                                                         *)
(*   cont, prices   continuous bars; those after the last lineage break    *)
(*   flat           their volatility is zero                               *)
(*   bars, ohlc     bars of the contract; all with high and low            *)
(*   oi             open interest six bars back is positive                *)
(*   points         points of the current curve, 0 without one             *)
(*   eligible       those with positive tenor and price                    *)
(*   selected       the contract is one of them, with positive totals      *)
(*   hist, pairs    earlier curves with a slope; those of the same pair    *)
(*   age            days since the last session of each series             *)
(*   at             instant each group of inputs was available             *)
(*   limit          state of the latest bar's price limits                 *)
(***************************************************************************)
EXTENDS Integers, FiniteSets, TLC

CONSTANTS
  None      \* no value

ASSUME NoneIsNoNumber == None \notin Int

(* Every context, as far as the engines read it.                           *)
Groups == {"cont", "bars", "curve", "hist"}
Statistics ==
  {"short", "mid", "long", "structure", "acceleration", "rsi", "extension", "ma60", "price", "oi",
   "volume", "slope", "change", "curvature", "volatility", "volume_pct", "oi_pct", "volume_share",
   "oi_share", "proximity"}

MarketContexts ==
  [horizon : {"swing", "position"}, as_of : Int, dte : Int, limit : {"ok", "missing", "invalid"},
   cont : Nat, prices : Nat, bars : Nat, points : Nat, eligible : Nat, hist : Nat, pairs : Nat,
   flat : BOOLEAN, ohlc : BOOLEAN, oi : BOOLEAN, selected : BOOLEAN,
   age : [{"cont", "bars", "curve"} -> Int], at : [Groups -> Int], readings : [Statistics -> Int]]

ResearchMetrics ==
  {"return_5d", "return_20d", "return_60d", "return_120d", "ma_structure",
   "breakout_position_120d", "rsi_14", "momentum_acceleration",
   "realized_vol_20d", "realized_vol_60d", "volatility_percentile"}

PositionMetrics ==
  {"settlement_vs_ma20", "settlement_vs_ma60", "extension_atr", "contract_return_5d",
   "oi_change_5d", "volume_zscore_20d", "positioning_composite"}

CurveMetrics == {"curve_slope", "curve_slope_change_20d", "curve_curvature"}
ShareMetrics == {"contract_volume_share", "contract_open_interest_share"}
LiquidityMetrics ==
  ShareMetrics \union {"volume_percentile", "open_interest_percentile", "liquidity_quality_score"}

MetadataMetrics == {"days_to_expiry", "roll_risk_score", "price_limit_proximity_risk"}

Names == ResearchMetrics \union PositionMetrics \union CurveMetrics
           \union LiquidityMetrics \union MetadataMetrics
-----------------------------------------------------------------------------
(* Arithmetic in whole points.  Quotients are truncated toward zero, which *)
(* keeps every comparison of a magnitude with a whole threshold.           *)

Abs(x) == IF x < 0 THEN -x ELSE x
Sign(x) == IF x > 0 THEN 1 ELSE IF x < 0 THEN -1 ELSE 0
Over(a, b) == Sign(a) * (Abs(a) \div b)
AtMost(x, hi) == IF x > hi THEN hi ELSE x
AtLeast(x, lo) == IF x < lo THEN lo ELSE x
clip(x, lo, hi) == AtLeast(AtMost(x, hi), lo)
When(holds, x) == IF holds THEN x ELSE None
OnlyIf(holds, S) == IF holds THEN S ELSE {}

(* tanh_score(x, scale 2) of a number of ATRs.                             *)
tanh_score(x) == Sign(x) * (<<0, 46, 76, 90, 96>>)[AtMost(Abs(x), 4) + 1]

(* What _observation is given of a metric.                                 *)
Reading(value, score, sample, minimum) ==
  [value |-> value, score |-> score, sample |-> sample, minimum |-> minimum]
-----------------------------------------------------------------------------
(* The metrics, group by group.  A statistic is None when its function in  *)
(* statistics.py returns None for want of data; a score that is divided by *)
(* the daily volatility also needs that.                                   *)

DailyVol(ctx) == ctx.prices >= 21 /\ ~ctx.flat

PriceReadings(ctx) ==
  LET P == ctx.prices
      r == ctx.readings
      scaled(x, least) == When(P >= least /\ DailyVol(ctx), x)
      of(x, least) == Reading(When(P >= least, x), scaled(x, least), P, least)
  IN  [return_5d   |-> of(r.short, 6),
       return_20d  |-> of(r.mid, 21),
       return_60d  |-> of(r.long, 61),
       return_120d |-> of(r.long, 121),
       momentum_acceleration |-> of(r.acceleration, 21),
       ma_structure |-> Reading(scaled(r.structure, 65), scaled(r.structure, 65), P, 65),
       breakout_position_120d |->
         Reading(When(P >= 120, r.structure), When(P >= 120, r.structure), P, 120),
       rsi_14 |-> Reading(When(P >= 15, r.rsi), When(P >= 15, clip(2 * (r.rsi - 50), -100, 100)), P, 15)]

ContractReadings(ctx) ==
  LET B == ctx.bars
      r == ctx.readings
      extended == B >= 21 /\ ctx.ohlc
      score == When(extended, tanh_score(r.extension))
  IN  [settlement_vs_ma20 |-> Reading(When(B >= 20, r.extension), score, B, 20),
       settlement_vs_ma60 |->
         Reading(When(B >= 60, r.ma60), When(B >= 60 /\ DailyVol(ctx), r.ma60), B, 60),
       extension_atr |-> Reading(When(extended, r.extension), score, B, 21)]

(* The sign is that of the contract's own return; a falling open interest  *)
(* weakens it, and volume only confirms it.                                *)
Positioning(price, oi, volume) ==
  LET strength == IF oi >= 0 THEN Over(70 * Abs(price) + 30 * Abs(oi), 100)
                             ELSE Over(45 * Abs(price) + 10 * Abs(oi), 100)
  IN  Sign(price) * IF volume = None THEN strength
                    ELSE Over(90 * strength + 10 * AtLeast(volume, 0), 100)

PositioningReadings(ctx) ==
  LET B == ctx.bars
      r == ctx.readings
      price == When(B >= 6 /\ DailyVol(ctx), r.price)
      oi == When(B >= 6 /\ ctx.oi, r.oi)
      volume == When(B >= 21, r.volume)
      composite == When(price # None /\ oi # None, Positioning(price, oi, volume))
  IN  [contract_return_5d |-> Reading(When(B >= 6, r.price), price, B, 6),
       oi_change_5d |-> Reading(oi, oi, B, 6),
       volume_zscore_20d |-> Reading(volume, volume, B, 21),
       positioning_composite |-> Reading(composite, composite, B, 6)]

CurveReadings(ctx) ==
  LET r == ctx.readings
      slope == When(ctx.eligible >= 2, r.slope)
      change == When(ctx.eligible >= 2 /\ ctx.pairs >= 20, r.change)
      curvature == When(ctx.eligible >= 3, r.curvature)
  IN  [curve_slope |-> Reading(slope, slope, ctx.hist, 1),
       curve_slope_change_20d |-> Reading(change, change, ctx.hist, 20),
       curve_curvature |-> Reading(curvature, curvature, ctx.hist, 1)]

VolatilityReadings(ctx) ==
  LET P == ctx.prices
      percentile == When(P >= 22, ctx.readings.volatility)
  IN  [realized_vol_20d |-> Reading(When(P >= 21, 1), None, P, 21),
       realized_vol_60d |-> Reading(When(P >= 61, 1), None, P, 61),
       volatility_percentile |-> Reading(percentile, None, P, 20)]

LiquidityReadings(ctx) ==
  LET B == ctx.bars
      r == ctx.readings
      percentile(x) == When(B >= 2, x)
      share(x) == When(ctx.points > 0 /\ ctx.selected, x)
      parts == <<percentile(r.volume_pct), percentile(r.oi_pct),
                 share(r.volume_share), share(r.oi_share)>>
      clean == {i \in 1..4 : parts[i] # None}
      part(i) == IF i \in clean THEN parts[i] ELSE 0
      quality == When(clean # {}, (part(1) + part(2) + part(3) + part(4))
                                    \div AtLeast(Cardinality(clean), 1))
  IN  [volume_percentile |-> Reading(parts[1], None, B, 20),
       open_interest_percentile |-> Reading(parts[2], None, B, 20),
       contract_volume_share |-> Reading(parts[3], None, B, 20),
       contract_open_interest_share |-> Reading(parts[4], None, B, 20),
       liquidity_quality_score |-> Reading(quality, None, B, 20)]

RollRisk(dte) == IF dte <= 5 THEN 100
                 ELSE IF dte <= 10 THEN 80
                 ELSE IF dte <= 20 THEN 50
                 ELSE IF dte <= 40 THEN 20
                 ELSE 0

RollAndLimitReadings(ctx) ==
  [days_to_expiry |-> Reading(ctx.dte, None, 1, 1),
   roll_risk_score |-> Reading(RollRisk(ctx.dte), None, 1, 1),
   price_limit_proximity_risk |->
     Reading(When(ctx.bars > 0 /\ ctx.limit = "ok", ctx.readings.proximity), None, 1, 1)]

Readings(ctx) ==
  LET groups == {PriceReadings(ctx), ContractReadings(ctx), PositioningReadings(ctx),
                 CurveReadings(ctx), VolatilityReadings(ctx), LiquidityReadings(ctx),
                 RollAndLimitReadings(ctx)}
  IN  [n \in Names |-> (CHOOSE g \in groups : n \in DOMAIN g)[n]]
-----------------------------------------------------------------------------
(* _quality: too few samples make an "insufficient" metric that keeps its  *)
(* value.                                                                  *)
Status(ctx, n, reading) ==
  IF n = "price_limit_proximity_risk" /\ ctx.bars > 0 /\ ctx.limit = "invalid" THEN "invalid"
  ELSE IF reading.value = None THEN "missing"
  ELSE IF reading.sample < reading.minimum THEN "insufficient"
  ELSE "ok"

(* Instants of a group of inputs, none when the group is empty.            *)
Since(ctx, group) ==
  LET size == [cont |-> ctx.cont, bars |-> ctx.bars, curve |-> ctx.points, hist |-> ctx.hist]
  IN  OnlyIf(size[group] > 0, {ctx.at[group]})

(* Mutation: what the caller passes is enough.                             *)
available_at_OwnInput(ctx, n) ==
  LET own == Since(ctx, CASE n \in ResearchMetrics -> "cont"
                          [] n \in CurveMetrics -> "curve"
                          [] OTHER -> "bars")
  IN  IF own = {} THEN ctx.as_of ELSE CHOOSE t \in own : TRUE

(* available_at of a metric: the one its caller passes, and those of the   *)
(* other groups it is declared to depend on.                               *)
available_at(ctx, n) ==
  LET passed == CASE n \in ResearchMetrics -> "cont"
                  [] n \in CurveMetrics -> "curve"
                  [] OTHER -> "bars"
      own == Since(ctx, passed)
      more == {g \in Groups :
                 \/ g \in {"hist", "curve"} /\ n \in CurveMetrics \union ShareMetrics
                 \/ g = "bars" /\ n \in PositionMetrics \union LiquidityMetrics
                 \/ g = "curve" /\ n \in LiquidityMetrics
                 \/ g = "cont" /\ n \in {"settlement_vs_ma60", "contract_return_5d",
                                         "positioning_composite"}}
      times == OnlyIf(own = {}, {ctx.as_of}) \union own \union UNION {Since(ctx, g) : g \in more}
  IN  CHOOSE t \in times : \A u \in times : u <= t

compute(ctx) ==
  LET readings == Readings(ctx)
  IN  [n \in Names |-> [value |-> readings[n].value, score |-> readings[n].score,
                        status |-> Status(ctx, n, readings[n]),
                        available_at |-> available_at(ctx, n)]]

Usable(m) == m.status = "ok" /\ m.value # None
=============================================================================
