-------------------------- MODULE ContinuousSeries --------------------------
(***************************************************************************)
(* The continuous series build_mapping_and_continuous derives from a       *)
(* replay: raw points, roll gaps, the backward adjusted chart series and   *)
(* the same-contract return index, all functions of the sessions replayed  *)
(* so far and of their records.                                            *)
(*                                                                         *)
(* A settlement is a whole price, and a value of the return index is the   *)
(* fraction <<n, d>> of its base of 100.                                   *)
(***************************************************************************)
EXTENDS MainContract, FiniteSetsExt

CONSTANTS
  Settlement,   \* settlement of a contract on a date
  NoIndex       \* None, where an index value is expected

ASSUME SeriesAssumption ==
  /\ Settlement \in [Contracts -> [Days -> Int]]
  /\ NoIndex \notin Int \X Int
  /\ \A curve \in CandidateSets : \A c \in curve : c.code \in Contracts

(* The i-th session's curve has the contract.                              *)
Quoted(code, i) == /\ expanded[i].candidates # Missing
                   /\ \E c \in expanded[i].candidates : c.code = code

Held(i) == records[i].effective_contract
Price(code, i) == Settlement[code][expanded[i].date]

(* Sessions with a raw point: the main contract in force has a quote.      *)
HasPoint(i) == Quoted(Held(i), i)
Points == {i \in DOMAIN records : HasPoint(i)}
Earlier(i) == {j \in 1..(i - 1) : HasPoint(j)}
Previous(i) == Max(Earlier(i))

(* The settlement, at the previous point, of the contract held now.  Zero  *)
(* where there is none: either ends the chain of returns.                  *)
Denominator(i) ==
  LET p == Previous(i) IN IF Quoted(Held(i), p) THEN Price(Held(i), p) ELSE 0

(* Sessions with a roll gap: the contract rolled out of is still quoted.   *)
RollGaps == {i \in Points : /\ Earlier(i) # {}
                            /\ Held(Previous(i)) # Held(i)
                            /\ Quoted(Held(Previous(i)), i)}
AdditiveGap(i) == Price(Held(i), i) - Price(Held(Previous(i)), i)

AdditiveGaps == [g \in RollGaps |-> AdditiveGap(g)]

(* Mutation: the gap of a roll also moves the day of the roll.             *)
Adjusted_SameDay(i) ==
  Price(Held(i), i) + SumFunctionOnSet(AdditiveGaps, {g \in RollGaps : i <= g})

(* BackwardAdditiveContinuousSeriesBuilder: a point is moved by the gaps   *)
(* of all later rolls.                                                     *)
Adjusted(i) == Price(Held(i), i) + SumFunctionOnSet(AdditiveGaps, {g \in RollGaps : i < g})

(* Mutation: any later point continues the chain.                          *)
Consecutive_Any(i) == Earlier(i) # {}

Consecutive(i) ==
  Earlier(i) # {} /\ NextTradingDay(expanded[Previous(i)].date) = expanded[i].date

(* same_contract_return_index: the value after session i, from the value   *)
(* before it.  A session without a point leaves the running value alone.   *)
(* What is consecutive and which price a return starts from are arguments  *)
(* of the code, a calendar and a table of settlements.                     *)
IndexAfter(i, index, consecutive, denominator) ==
  IF ~HasPoint(i) THEN index
  ELSE IF Price(Held(i), i) <= 0 THEN NoIndex
  ELSE IF Earlier(i) = {} THEN <<1, 1>>
  ELSE IF ~consecutive THEN NoIndex
  ELSE IF index = NoIndex THEN <<1, 1>>
  ELSE IF denominator <= 0 THEN NoIndex
  ELSE <<index[1] * Price(Held(i), i), index[2] * denominator>>

(* The index of all sessions, consecutive and denominator being functions. *)
Chained(consecutive, denominator) ==
  LET upTo[i \in 0..Len(records)] ==
        IF i = 0 THEN <<>>
        ELSE LET before == upTo[i - 1]
                 last == IF i = 1 THEN NoIndex ELSE before[i - 1]
             IN  Append(before, IndexAfter(i, last, consecutive[i], denominator[i]))
  IN  upTo[Len(records)]

ReturnIndex == Chained([i \in DOMAIN records |-> Consecutive(i)],
                       [i \in DOMAIN records |-> Denominator(i)])
-----------------------------------------------------------------------------
(* From one point of the chart series to the next the price moves as the   *)
(* contract did that was held over the night: a roll adds no jump of its   *)
(* own as long as the contract rolled out of is quoted on the day of the   *)
(* roll (continuous_series.py 53-60, mapping_pipeline.py 117-124).         *)
RollGapRemoved ==
  \A i \in Points :
    Earlier(i) # {} =>
      LET p == Previous(i)
      IN  Quoted(Held(p), i) =>
            Adjusted(i) - Adjusted(p) = Price(Held(p), i) - Price(Held(p), p)

(* Over an unbroken stretch of the index, which has no missing session and *)
(* no price that is not positive and starts at 100, every night earns the  *)
(* return of the contract held on the later day, a roll included, and over *)
(* a part without a roll the index grows by the ratio of that contract's   *)
(* settlements (research_returns.py 26-31).                                *)
ReturnIndexChains ==
  LET index == ReturnIndex
      grew(i, j, code) == index[j][1] * index[i][2] * Price(code, i)
                            = index[i][1] * index[j][2] * Price(code, j)
      broken(i) == ~HasPoint(i) \/ index[i] = NoIndex
      stretch(i, j) == \A k \in i..j : ~broken(k)
  IN  \A i, j \in DOMAIN records :
        i < j /\ stretch(i, j) =>
          /\ \A k \in i..(j - 1) : NextTradingDay(expanded[k].date) = expanded[k + 1].date
          /\ \A k \in i..j : Price(Held(k), k) > 0
          /\ j = i + 1 \/ (\A k \in i..j : Held(k) = Held(i)) => grew(i, j, Held(j))
          /\ (i = 1 \/ broken(i - 1)) => index[i] = <<1, 1>>
=============================================================================
