------------------------------ MODULE Research ------------------------------
(***************************************************************************)
(* Replay research over the continuous series: labels of a signal day, the *)
(* walk-forward splits and the purging of labels that overlap a boundary.  *)
(*                                                                         *)
(* replay_history.py labels with the stored index, attach_research_labels  *)
(* with an index it chains itself from prices, without calendar and        *)
(* without the settlements of incoming contracts.  Splits and purging work *)
(* on positions in a sorted list of sessions; a day is its position.       *)
(***************************************************************************)
EXTENDS ContinuousSeries

CONSTANTS
  Horizons,   \* label horizons, in sessions
  Plans,      \* arguments of walk_forward_splits
  History     \* sessions of the list that is split, before the first replayed

ASSUME ResearchAssumption ==
  /\ Horizons \subseteq Nat \ {0}
  /\ Plans \subseteq [train : Nat \ {0}, validate : Nat \ {0}, test : Nat \ {0},
                      embargo : Nat, horizon : Nat \ {0}]
  /\ History \in Nat
-----------------------------------------------------------------------------
(* Mutation: a roll continues the chain at the price of the day before.    *)
PlainDenominator_AcrossRolls(i) == Price(Held(Previous(i)), Previous(i))

(* Without a table the settlement before is known of the same contract.    *)
PlainDenominator(i) ==
  LET p == Previous(i) IN IF Held(p) = Held(i) THEN Price(Held(i), p) ELSE 0

(* The index of attach_research_labels: any point continues the last one.  *)
PlainIndex == Chained([i \in DOMAIN records |-> Earlier(i) # {}],
                      [i \in DOMAIN records |-> PlainDenominator(i)])

(* The point after the signal, and horizon more.                           *)
LabelWindow(signal, horizon) ==
  LET later == {i \in Points : signal < i}
  IN  {i \in later : Cardinality({j \in later : j <= i}) <= horizon + 1}

(* The growth of the index from the session after the signal, as a         *)
(* fraction; none when the window is not complete or the index breaks.     *)
next_session_label(index, signal, horizon) ==
  LET window == LabelWindow(signal, horizon)
      start == Min(window)
      end == Max(window)
  IN  IF Cardinality(window) <= horizon \/ \E i \in window : index[i] = NoIndex THEN NoIndex
      ELSE <<index[end][1] * index[start][2], index[end][2] * index[start][1]>>
-----------------------------------------------------------------------------
(* Mutation: the label's end may meet the next partition.                  *)
Gap_Meets(plan) == IF plan.embargo > plan.horizon THEN plan.embargo ELSE plan.horizon

(* Sessions left out between two partitions.                               *)
Gap(plan) == (IF plan.embargo > plan.horizon THEN plan.embargo ELSE plan.horizon) + 1

Partition(first, length) == first..(first + length - 1)

(* The split whose training starts at position start.                      *)
Split(start, plan) ==
  LET second == start + plan.train + Gap(plan)
      third == second + plan.validate + Gap(plan)
  IN  [train |-> Partition(start, plan.train), validate |-> Partition(second, plan.validate),
       test |-> Partition(third, plan.test)]

(* Positions are 0..length - 1; the windows move by a test length.         *)
walk_forward_splits(length, plan) ==
  LET width == plan.train + plan.validate + plan.test + 2 * Gap(plan)
      starts == {start \in 0..length : start % plan.test = 0 /\ start + width <= length}
  IN  {Split(start, plan) : start \in starts}

(* A label of day starts at day + 1 and ends horizon sessions later.       *)
LabelEnd(day, horizon) == day + 1 + horizon

(* purge_overlapping_labels with a cutoff.                                 *)
purge_before(days, horizon, length, cutoff) ==
  {day \in days : LabelEnd(day, horizon) < length /\ LabelEnd(day, horizon) < cutoff}
-----------------------------------------------------------------------------
(* No label uses the price of the signal day, and none covers fewer        *)
(* sessions than it says: one from the stored index grows over exactly its *)
(* horizon of consecutive exchange sessions, from the one after the signal *)
(* on.  One from plain prices, which come without a calendar, is the       *)
(* return of a single contract over points that hold it, so that no roll   *)
(* enters it, and exists whenever the contract of the signal day is held   *)
(* throughout at positive prices (research/replay.py 61-100,               *)
(* scripts/replay_history.py 47).                                          *)
LabelsAttainable ==
  LET stored == ReturnIndex
      plain == PlainIndex
      later(day, n) == {d \in TradingDays : day < d /\ Cardinality({e \in TradingDays : day < e /\ e <= d}) <= n}
  IN  \A signal \in Points, horizon \in Horizons :
        LET window == LabelWindow(signal, horizon)
            start == Min(window)
            end == Max(window)
            one == next_session_label(stored, signal, horizon)
            two == next_session_label(plain, signal, horizon)
            single == \A i \in window : Held(i) = Held(end)
        IN  /\ one # NoIndex =>
                 {expanded[i].date : i \in window} = later(expanded[signal].date, horizon + 1)
            /\ two # NoIndex =>
                 single /\ two[1] * Price(Held(end), start) = two[2] * Price(Held(end), end)
            /\ Cardinality(window) = horizon + 1 /\ single /\ Held(signal) = Held(end)
                 /\ (\A i \in window \union {signal} : Price(Held(i), i) > 0)
                 => two # NoIndex

(* Walk-forward evaluation does not leak: the label of every day of a      *)
(* partition ends before the next partition begins, for every horizon the  *)
(* splits were made for; purging at the boundary therefore drops nothing,  *)
(* the embargo is kept, the partitions lie within the sessions, and two    *)
(* splits never test the same day (research/replay.py 103-132, 160-162).   *)
SplitsDoNotLeak ==
  LET length == History + Len(records)
  IN  \A plan \in Plans :
        LET splits == walk_forward_splits(length, plan)
        IN  /\ \A s \in splits :
                 /\ s.train \union s.validate \union s.test \subseteq 0..(length - 1)
                 /\ \A horizon \in Horizons : horizon <= plan.horizon =>
                      /\ \A v \in s.validate : purge_before(s.train, horizon, length, v) = s.train
                      /\ \A t \in s.test : purge_before(s.validate, horizon, length, t) = s.validate
                 /\ \A d \in s.train, v \in s.validate : d + plan.embargo < v
                 /\ \A v \in s.validate, t \in s.test : v + plan.embargo < t
            /\ \A r, s \in splits : r # s => r.test \cap s.test = {}
=============================================================================
