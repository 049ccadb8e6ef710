------------------------------ MODULE MC_Shadow ------------------------------
(***************************************************************************)
(* Shadow over a few dozen shapes of data, markets and risk profiles.      *)
(***************************************************************************)
EXTENDS Shadow

MC_Freshness == [d \in 0..12 |-> (<<100, 90, 81, 74, 67, 60, 54, 49, 44, 40, 36, 33, 30>>)[d + 1]]

AsOf == 20

(* Enough of everything, then variations one at a time.                    *)
Full == [horizon |-> "swing", as_of |-> AsOf, cont |-> 130, prices |-> 130, flat |-> FALSE,
         bars |-> 80, ohlc |-> TRUE, oi |-> TRUE, points |-> 4, eligible |-> 4, selected |-> TRUE,
         hist |-> 60, pairs |-> 40, limit |-> "ok", dte |-> 45,
         age |-> [cont |-> 0, bars |-> 0, curve |-> 0],
         at |-> [cont |-> 20, bars |-> 20, curve |-> 20, hist |-> 19]]

Shapes ==
  {Full,
   [Full EXCEPT !.horizon = "position", !.cont = 100, !.prices = 100],
   [Full EXCEPT !.prices = 30],
   [Full EXCEPT !.prices = 22, !.points = 0, !.eligible = 0, !.selected = FALSE],
   [Full EXCEPT !.cont = 20, !.prices = 20],
   [Full EXCEPT !.cont = 62, !.prices = 62, !.at.cont = 20, !.at.bars = 14, !.at.curve = 15],
   [Full EXCEPT !.flat = TRUE],
   [Full EXCEPT !.bars = 5],
   [Full EXCEPT !.bars = 20],
   [Full EXCEPT !.bars = 21, !.at.bars = 12, !.at.hist = 20, !.at.curve = 18],
   [Full EXCEPT !.ohlc = FALSE],
   [Full EXCEPT !.bars = 0, !.cont = 0, !.prices = 0],
   [Full EXCEPT !.eligible = 1, !.hist = 10, !.pairs = 5],
   [Full EXCEPT !.eligible = 2, !.pairs = 19, !.oi = FALSE],
   [Full EXCEPT !.limit = "missing"],
   [Full EXCEPT !.limit = "invalid"],
   [Full EXCEPT !.dte = 6],
   [Full EXCEPT !.dte = 7],
   [Full EXCEPT !.age.cont = 8, !.at.cont = 12],
   [Full EXCEPT !.age.curve = 8, !.at.curve = 12, !.at.hist = 18],
   [Full EXCEPT !.age.bars = 7, !.age.cont = 7, !.at.bars = 13, !.at.cont = 13]}

(* trend over the price series, momentum over the last days, c the curve.  *)
Market(trend, momentum, rsi, extension, c) ==
  [short |-> momentum, mid |-> (trend + momentum) \div 2, long |-> trend, structure |-> trend,
   acceleration |-> momentum, rsi |-> rsi, extension |-> extension, ma60 |-> trend,
   price |-> momentum, oi |-> trend, volume |-> 20, slope |-> c, change |-> -c, curvature |-> c]

Markets ==
  {Market(80, 60, 62, 1, 40), Market(80, 60, 80, 1, 40), Market(80, 60, 60, 2, 40),
   Market(60, -40, 40, -1, 20), Market(-80, -60, 38, -1, -40), Market(-70, -50, 20, 0, -30),
   Market(-70, -50, 40, -2, -30), Market(14, 40, 60, 0, 80), Market(-16, -60, 40, 0, -60),
   Market(0, 0, 50, 0, 0), Market(30, 20, 55, 0, 24), Market(26, 26, 50, 1, 26)}

Risk(volatility, liquidity, oi, proximity) ==
  [volatility |-> volatility, volume_pct |-> liquidity, oi_pct |-> oi,
   volume_share |-> liquidity, oi_share |-> liquidity, proximity |-> proximity]

Risks == {Risk(40, 80, 60, 0), Risk(95, 60, 99, 50), Risk(60, 19, 19, 0), Risk(60, 20, 20, 89),
          Risk(50, 70, 70, 90)}

With(shape, market, risk) == shape @@ [readings |-> market @@ risk]

(* Every market and every risk with complete data, and every shape with a  *)
(* strong market either way.                                               *)
MC_Contexts ==
  {With(Full, m, r) : m \in Markets, r \in Risks}
    \union {With(s, m, Risk(40, 80, 60, 0)) :
              s \in Shapes, m \in {Market(80, 60, 62, 1, 40), Market(-70, -50, 40, -1, 30)}}
=============================================================================
