---------------------------- MODULE Invalidation ----------------------------
(***************************************************************************)
(* The invalidation state of one condition of one published analysis.      *)
(* Every later analysis of the same instrument and horizon is recorded as  *)
(* an observation of it: a row is appended for the data session the later  *)
(* analysis ends with, continuing the streak of the row of an earlier      *)
(* session.  Analyses may be recorded in any order of their as_of.         *)
(*                                                                         *)
(* Days are calendar days.  A metric value is its comparison with the      *)
(* threshold: -1 below, 0 at, 1 above, or None if it is missing, its       *)
(* analysis is blocked, or the main contract is another one.               *)
(***************************************************************************)
EXTENDS Integers, Sequences

CONSTANTS
  Days,             \* an interval of calendar days
  Weekdays,         \* those that are not Saturday or Sunday
  TradingDays,      \* those on which the exchange is open
  Origin,           \* the session of the published analysis
  Instants,         \* as_of of the recorded analyses
  Inputs,           \* input_data_hash of the recorded analyses
  ValueOf,          \* the metric value each input gives
  Operator,         \* "lt", "lte", "gt", "gte", "cross_below" or "cross_above"
  ConsecutiveBars,
  Lagging,          \* may an analysis miss a session already published at its as_of
  None,
  MaxRows           \* bound on the rows recorded

ASSUME InvalidationAssumption ==
  /\ Days \subseteq Int
  /\ TradingDays \subseteq Weekdays
  /\ Weekdays \subseteq Days
  /\ Origin \in TradingDays
  /\ Instants \subseteq Nat
  /\ ValueOf \in [Inputs -> {-1, 0, 1, None}]
  /\ Operator \in {"lt", "lte", "gt", "gte", "cross_below", "cross_above"}
  /\ ConsecutiveBars \in Nat \ {0}
  /\ Lagging \in BOOLEAN
  /\ MaxRows \in Nat
  /\ None \notin Int

Values == {-1, 0, 1, None}
Statuses == {"active", "warning", "invalidated", "unknown"}

RowType ==
  [at : Instants, day : Days, input : Inputs, value : Values, status : Statuses,
   streak : Nat, triggered : BOOLEAN]

ASSUME RowAssumption == None \notin RowType

Crossing == Operator \in {"cross_below", "cross_above"}

VARIABLES
  session,  \* the newest session published at each instant
  rows      \* fut_invalidation_state, in the order of state_id

vars == <<session, rows>>
-----------------------------------------------------------------------------
(* InvalidationStateMachine.                                               *)

Compare(v) ==
  CASE Operator \in {"lt", "cross_below"} -> v < 0
    [] Operator = "lte" -> v <= 0
    [] Operator \in {"gt", "cross_above"} -> v > 0
    [] Operator = "gte" -> v >= 0

Cross(previous, v) ==
  /\ previous # None
  /\ IF Operator = "cross_below" THEN previous >= 0 /\ v < 0 ELSE previous <= 0 /\ v > 0

Hit(previous, v) == IF Crossing THEN Cross(previous, v) ELSE Compare(v)

Fresh == [last |-> None, streak |-> 0, value |-> None, triggered |-> FALSE, status |-> "active"]

(* Mutation: one session more than the rule asks for.                      *)
Observe_OneMore(s, d, v) ==
  IF v = None
  THEN [Fresh EXCEPT !.last = d, !.status = "unknown"]
  ELSE LET hit == Hit(s.value, v)
           streak == IF hit THEN s.streak + 1 ELSE 0
           triggered == hit /\ (Crossing \/ streak > ConsecutiveBars)
       IN  [last |-> d, streak |-> streak, value |-> v, triggered |-> triggered,
            status |-> IF triggered THEN "invalidated"
                       ELSE IF streak > 0 THEN "warning" ELSE "active"]

(* Only called for a session after s.last.                                 *)
Observe(s, d, v) ==
  IF v = None
  THEN [Fresh EXCEPT !.last = d, !.status = "unknown"]
  ELSE LET hit == Hit(s.value, v)
           streak == IF hit THEN s.streak + 1 ELSE 0
           triggered == hit /\ (Crossing \/ streak >= ConsecutiveBars)
       IN  [last |-> d, streak |-> streak, value |-> v, triggered |-> triggered,
            status |-> IF triggered THEN "invalidated"
                       ELSE IF streak > 0 THEN "warning" ELSE "active"]
-----------------------------------------------------------------------------
(* record_analysis_observation and read_invalidation.                      *)

(* Of these rows, the one with the latest evaluated_at, the last recorded  *)
(* among equals.                                                           *)
Newest(I) ==
  CHOOSE i \in I : \A j \in I :
    rows[i].at > rows[j].at \/ (rows[i].at = rows[j].at /\ i >= j)

Recorded == DOMAIN rows

(* The row whose streak an observation of session d continues.             *)
Prior(d) ==
  LET earlier == {i \in Recorded : rows[i].day < d}
  IN  IF earlier = {} THEN None ELSE rows[Newest(earlier)]

(* A later session, or these very inputs, are recorded already.            *)
Superseded(d, input) ==
  /\ rows # <<>>
  /\ LET latest == rows[Newest(Recorded)]
     IN  latest.day > d \/ (latest.day = d /\ latest.input = input)

Follows(last, d) ==
  /\ last \in Weekdays /\ last < d
  /\ \A e \in Weekdays : e <= last \/ e >= d

(* Mutation: a gap between the sessions is not noticed.                    *)
Resumed_Gaps(prior, d) ==
  IF prior = None THEN Fresh
  ELSE [last |-> prior.day, streak |-> prior.streak, value |-> prior.value,
        triggered |-> prior.triggered, status |-> prior.status]

(* The state of the prior row; a gap of a weekday ends its streak.         *)
Resumed(prior, d) ==
  IF prior = None THEN Fresh
  ELSE LET unbroken == prior.status = "invalidated" \/ Follows(prior.day, d)
       IN  [last |-> prior.day,
            streak |-> IF unbroken THEN prior.streak ELSE 0,
            value |-> IF unbroken THEN prior.value ELSE None,
            triggered |-> prior.triggered, status |-> prior.status]

(* Mutation: an invalidated condition is observed like any other.          *)
State_Recovers(d, v) ==
  IF d = Origin THEN [Fresh EXCEPT !.last = d, !.value = v]
  ELSE Observe(Resumed(Prior(d), d), d, v)

(* The origin session starts the history; an invalidated condition stays.  *)
State(d, v) ==
  LET s == Resumed(Prior(d), d)
  IN  IF d = Origin THEN [Fresh EXCEPT !.last = d, !.value = v]
      ELSE IF s.status = "invalidated" THEN s
      ELSE Observe(s, d, v)

Init ==
  /\ session \in [Instants -> TradingDays]
  /\ \A s, t \in Instants : s <= t => session[s] <= session[t]
  /\ rows = <<>>

(* An analysis as of t, whose data end with session d, is recorded.        *)
Record(t, d, input) ==
  LET v == ValueOf[input]
      s == State(d, v)
  IN  /\ Len(rows) < MaxRows
      /\ d = session[t] \/ (Lagging /\ d < session[t])
      /\ d >= Origin
      /\ ~Superseded(d, input)
      /\ rows' = Append(rows, [at |-> t, day |-> d, input |-> input, value |-> v,
                               status |-> s.status, streak |-> s.streak,
                               triggered |-> s.triggered])
      /\ UNCHANGED session

Next == \E t \in Instants, d \in TradingDays, input \in Inputs : Record(t, d, input)

Spec == Init /\ [][Next]_vars

(* read_invalidation: the status a reader is given.                        *)
Reported == IF rows = <<>> THEN "not_evaluated" ELSE rows[Newest(Recorded)].status
-----------------------------------------------------------------------------
(* Types; triggered, status and streak of a row agree.                     *)
TypeOK ==
  /\ session \in [Instants -> TradingDays]
  /\ rows \in Seq(RowType)
  /\ \A i \in Recorded :
       /\ rows[i].triggered <=> rows[i].status = "invalidated"
       /\ rows[i].status \in {"active", "unknown"} <=> rows[i].streak = 0

ValuesOf(d) == {rows[i].value : i \in {j \in Recorded : rows[j].day = d}} \ {None}

(* n sessions in a row, the last one e, after the origin, each with a      *)
(* recorded value that meets the condition.                                *)
Witness(e, n) ==
  \E run \in [1..n -> {d \in Weekdays : d > Origin}] :
    /\ run[n] = e
    /\ \A i \in 1..n - 1 : Follows(run[i], run[i + 1])
    /\ \A i \in 1..n :
         \E v \in ValuesOf(run[i]) :
           IF Crossing THEN \E d \in Days : Follows(d, run[i]) /\ \E p \in ValuesOf(d) : Cross(p, v)
           ELSE Compare(v)

(* A streak counts sessions, never observations: every session it counts   *)
(* has a value that meets the condition, no weekday is missing between     *)
(* them, and the origin is not one of them; an invalidation rests on as    *)
(* many as the rule asks for (service.py 39-71, state.py 22-63).           *)
InvalidationWitnessed ==
  \A i \in Recorded :
    rows[i].streak > 0 =>
      \E e \in {d \in Weekdays : d <= rows[i].day} :
        /\ Witness(e, rows[i].streak)
        /\ rows[i].status = "warning" => e = rows[i].day
        /\ rows[i].status = "invalidated" => Crossing \/ rows[i].streak >= ConsecutiveBars

(* A reported invalidation is final, but for a revision of the data of the *)
(* session that is reported: no observation of another session, recorded   *)
(* in whatever order, takes it back (service.py 45-60).                    *)
InvalidationStays ==
  [][ Reported = "invalidated" =>
        \/ Reported' = "invalidated"
        \/ rows[Newest(Recorded)].day = (rows[Newest(Recorded)].day)' ]_vars

(* The row of a session that counts.                                       *)
Current(d) == rows[Newest({i \in Recorded : rows[i].day = d})]

IsRun(run) ==
  /\ \A i \in DOMAIN run : \E j \in Recorded : rows[j].day = run[i]
  /\ \A i \in DOMAIN run : run[i] > Origin /\ Current(run[i]).value # None
  /\ \A i \in DOMAIN run \ {1} :
       /\ run[i - 1] < run[i]
       /\ \A d \in TradingDays : d <= run[i - 1] \/ d >= run[i]

(* engine.py 32: the condition is met on consecutive trading days.  Once   *)
(* ConsecutiveBars trading days in a row have met it, by the rows that     *)
(* count for them, the analysis is reported as invalidated (engine.py      *)
(* 26-43, service.py 52-71).                                               *)
RunOfHitsInvalidates ==
  \A run \in [1..ConsecutiveBars -> TradingDays] :
    /\ ~Crossing
    /\ IsRun(run)
    /\ \A i \in DOMAIN run : Compare(Current(run[i]).value)
    => Current(run[ConsecutiveBars]).status = "invalidated"
=============================================================================
