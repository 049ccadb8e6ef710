------------------------- MODULE InvalidationProofs -------------------------
(***************************************************************************)
(* The rows of a condition, for every calendar, every rule, any number of  *)
(* observations and every order of them.                                   *)
(***************************************************************************)
EXTENDS Invalidation, TLAPS

After(i, j) == rows[i].at > rows[j].at \/ (rows[i].at = rows[j].at /\ i >= j)

(* Rows are ranked: of any of them one is the newest.                      *)
Ranked ==
  \A I \in SUBSET Recorded : I # {} => \E i \in I : \A j \in I : After(i, j)

(* Every row is of a session from the origin on, and a crossing            *)
(* invalidates at once.                                                    *)
Sound ==
  \A i \in Recorded :
    /\ rows[i].day \in TradingDays /\ rows[i].day >= Origin
    /\ Crossing => rows[i].status # "warning"

Inv == TypeOK /\ Ranked /\ Sound
-----------------------------------------------------------------------------
LEMMA RowFacts ==
  ASSUME TypeOK, NEW i \in Recorded
  PROVE  /\ i \in Nat /\ rows[i] \in RowType
         /\ rows[i].at \in Nat /\ rows[i].day \in Int /\ rows[i].streak \in Nat
<1>1. i \in Nat /\ rows[i] \in RowType
  BY DEF TypeOK, Recorded
<1>2. rows[i].at \in Instants /\ rows[i].day \in Days /\ rows[i].streak \in Nat
  BY <1>1 DEF RowType
<1> QED
  BY <1>1, <1>2, InvalidationAssumption

LEMMA NewestRow ==
  ASSUME Inv, NEW I \in SUBSET Recorded, I # {}
  PROVE  Newest(I) \in I /\ \A j \in I : After(Newest(I), j)
<1>1. \E i \in I : \A j \in I : After(i, j)
  BY DEF Inv, Ranked
<1> QED
  BY <1>1 DEF Newest, After

(* There is only one.                                                      *)
LEMMA NewestUnique ==
  ASSUME Inv, NEW I \in SUBSET Recorded, NEW i \in I, \A j \in I : After(i, j)
  PROVE  Newest(I) = i
<1>1. Newest(I) \in I /\ After(Newest(I), i) /\ After(i, Newest(I))
  BY NewestRow
<1>2. i \in Nat /\ Newest(I) \in Nat /\ rows[i].at \in Nat /\ rows[Newest(I)].at \in Nat
  BY <1>1, RowFacts DEF Inv
<1> QED
  BY <1>1, <1>2 DEF After

(* The state that a row is made from.                                      *)
StateType ==
  {s \in [last : Days \union {None}, streak : Nat, value : Values, triggered : BOOLEAN,
          status : Statuses] :
     /\ s.triggered <=> s.status = "invalidated"
     /\ s.status \in {"active", "unknown"} => s.streak = 0}

(* Prior is a row of an earlier session, if there is one.                  *)
LEMMA PriorRow ==
  ASSUME Inv, NEW d \in TradingDays
  PROVE  \/ Prior(d) = None /\ \A i \in Recorded : ~(rows[i].day < d)
         \/ /\ Prior(d) \in RowType /\ Prior(d) # None
            /\ \E i \in Recorded : rows[i].day < d /\ Prior(d) = rows[i]
<1> DEFINE earlier == {i \in Recorded : rows[i].day < d}
<1>1. CASE earlier = {}
  BY <1>1 DEF Prior
<1>2. CASE earlier # {}
  <2>1. Newest(earlier) \in earlier
    BY <1>2, NewestRow
  <2>2. rows[Newest(earlier)] \in RowType
    BY <2>1 DEF Inv, TypeOK, Recorded
  <2>3. Prior(d) = rows[Newest(earlier)]
    BY <1>2 DEF Prior
  <2> QED
    BY <2>1, <2>2, <2>3, RowAssumption
<1> QED
  BY <1>1, <1>2

LEMMA ResumedState ==
  ASSUME Inv, NEW d \in TradingDays
  PROVE  /\ Resumed(Prior(d), d) \in StateType
         /\ Resumed(Prior(d), d).status = "invalidated" => Resumed(Prior(d), d).streak > 0
<1>1. Fresh \in StateType /\ Fresh.status = "active"
  BY DEF Fresh, StateType, Values, Statuses
<1>2. CASE Prior(d) = None
  BY <1>1, <1>2 DEF Resumed
<1>3. CASE Prior(d) # None
  <2>1. PICK i \in Recorded : Prior(d) = rows[i]
    BY <1>3, PriorRow
  <2>2. /\ rows[i] \in RowType
        /\ rows[i].triggered <=> rows[i].status = "invalidated"
        /\ rows[i].status \in {"active", "unknown"} <=> rows[i].streak = 0
    BY RowFacts DEF Inv, TypeOK
  <2> QED
    BY <1>3, <2>1, <2>2 DEF Resumed, StateType, RowType, Values
<1> QED
  BY <1>2, <1>3

(* What Observe makes of a state.                                          *)
LEMMA ObservedState ==
  ASSUME NEW s \in StateType, NEW d \in Days, NEW v \in Values
  PROVE  LET o == Observe(s, d, v)
         IN  /\ o \in StateType
             /\ o.status \in {"active", "unknown"} <=> o.streak = 0
             /\ Crossing => o.status # "warning"
<1>1. CASE v = None
  BY <1>1 DEF Observe, Fresh, StateType, Values, Statuses
<1>2. CASE v # None
  <2> DEFINE enough == Crossing \/ s.streak + 1 >= ConsecutiveBars
  <2>1. /\ s.streak \in Nat /\ s.streak + 1 \in Nat /\ s.streak + 1 > 0
        /\ v \in Values /\ d \in Days \union {None}
    BY DEF StateType
  <2>2. CASE Hit(s.value, v) /\ enough
    <3>1. Observe(s, d, v) = [last |-> d, streak |-> s.streak + 1, value |-> v,
                              triggered |-> TRUE, status |-> "invalidated"]
      BY <1>2, <2>2 DEF Observe
    <3> QED
      BY <2>1, <3>1 DEF StateType, Statuses
  <2>3. CASE Hit(s.value, v) /\ ~enough
    <3>1. Observe(s, d, v) = [last |-> d, streak |-> s.streak + 1, value |-> v,
                              triggered |-> FALSE, status |-> "warning"]
      BY <1>2, <2>1, <2>3 DEF Observe
    <3> QED
      BY <2>1, <2>3, <3>1 DEF StateType, Statuses
  <2>4. CASE ~Hit(s.value, v)
    <3>1. Observe(s, d, v) = [last |-> d, streak |-> 0, value |-> v,
                              triggered |-> FALSE, status |-> "active"]
      <4>1. ~(0 > 0)
        OBVIOUS
      <4> QED
        BY <1>2, <2>4, <4>1 DEF Observe
    <3> QED
      BY <2>1, <3>1 DEF StateType, Statuses
  <2> QED
    BY <2>2, <2>3, <2>4
<1> QED
  BY <1>1, <1>2

LEMMA StateOfRow ==
  ASSUME Inv, NEW d \in TradingDays, NEW v \in Values
  PROVE  /\ State(d, v) \in StateType
         /\ State(d, v).status \in {"active", "unknown"} <=> State(d, v).streak = 0
         /\ Crossing => State(d, v).status # "warning"
<1>1. d \in Days
  BY InvalidationAssumption
<1>2. CASE d = Origin
  BY <1>1, <1>2 DEF State, Fresh, StateType, Values, Statuses
<1>3. CASE d # Origin /\ Resumed(Prior(d), d).status = "invalidated"
  <2>1. State(d, v) = Resumed(Prior(d), d)
    BY <1>3 DEF State
  <2> QED
    BY <1>3, <2>1, ResumedState DEF StateType
<1>4. CASE d # Origin /\ Resumed(Prior(d), d).status # "invalidated"
  <2>1. State(d, v) = Observe(Resumed(Prior(d), d), d, v)
    BY <1>4 DEF State
  <2> QED
    BY <1>1, <2>1, ResumedState, ObservedState
<1> QED
  BY <1>2, <1>3, <1>4
-----------------------------------------------------------------------------
(* What a step does: one row is appended.                                  *)
LEMMA Appended ==
  ASSUME Inv, NEW t \in Instants, NEW d \in TradingDays, NEW input \in Inputs,
         Record(t, d, input)
  PROVE  LET n == Len(rows) + 1
             s == State(d, ValueOf[input])
         IN  /\ n \in Nat \ {0} /\ Recorded = 1..(n - 1) /\ Recorded' = 1..n
             /\ \A i \in Recorded : i \in Recorded' /\ rows'[i] = rows[i]
             /\ rows'[n] = [at |-> t, day |-> d, input |-> input, value |-> ValueOf[input],
                            status |-> s.status, streak |-> s.streak, triggered |-> s.triggered]
             /\ rows' = Append(rows, rows'[n])
             /\ session' = session /\ d >= Origin
<1>1. rows \in Seq(RowType)
  BY DEF Inv, TypeOK
<1> QED
  BY <1>1 DEF Record, Recorded

LEMMA TypeStep ==
  ASSUME Inv, NEW t \in Instants, NEW d \in TradingDays, NEW input \in Inputs,
         Record(t, d, input)
  PROVE  TypeOK' /\ Sound'
<1> DEFINE n == Len(rows) + 1
           v == ValueOf[input]
           s == State(d, v)
<1>1. d \in Days /\ v \in Values
  BY InvalidationAssumption DEF Values
<1>2. /\ s \in StateType
      /\ s.status \in {"active", "unknown"} <=> s.streak = 0
      /\ Crossing => s.status # "warning"
  BY <1>1, StateOfRow
<1> HIDE DEF s, v
<1>3. /\ Recorded' = Recorded \union {n}
      /\ \A i \in Recorded : rows'[i] = rows[i]
      /\ rows'[n] = [at |-> t, day |-> d, input |-> input, value |-> v,
                     status |-> s.status, streak |-> s.streak, triggered |-> s.triggered]
      /\ rows' = Append(rows, rows'[n])
      /\ session' = session /\ d >= Origin
  <2>1. n \in Nat \ {0} /\ Recorded = 1..(n - 1) /\ Recorded' = 1..n
    BY Appended
  <2>2. Recorded' = Recorded \union {n}
    BY <2>1
  <2> QED
    BY <2>2, Appended DEF s, v
<1>4. rows'[n] \in RowType
  BY <1>1, <1>2, <1>3 DEF RowType, StateType
<1>5. rows' \in Seq(RowType) /\ session' \in [Instants -> TradingDays]
  <2>1. rows \in Seq(RowType) /\ session \in [Instants -> TradingDays]
    BY DEF Inv, TypeOK
  <2> QED
    BY <1>3, <1>4, <2>1
<1>6. /\ rows'[n].triggered <=> rows'[n].status = "invalidated"
      /\ rows'[n].status \in {"active", "unknown"} <=> rows'[n].streak = 0
      /\ rows'[n].day \in TradingDays /\ rows'[n].day >= Origin
      /\ Crossing => rows'[n].status # "warning"
  BY <1>2, <1>3 DEF StateType
<1>7. TypeOK'
  BY <1>3, <1>5, <1>6 DEF Inv, TypeOK
<1>8. Sound'
  BY <1>3, <1>6 DEF Inv, Sound
<1> QED
  BY <1>7, <1>8

(* The new row is newer than another one, or is not.                       *)
LEMMA RankedStep ==
  ASSUME Inv, NEW t \in Instants, NEW d \in TradingDays, NEW input \in Inputs,
         Record(t, d, input)
  PROVE  Ranked'
<1>0. PICK n : n = Len(rows) + 1
  OBVIOUS
<1>1. /\ n \in Nat /\ Recorded = 1..(n - 1) /\ Recorded' = 1..n
      /\ \A i \in Recorded : rows'[i] = rows[i]
  BY <1>0, Appended
<1>2. TypeOK'
  BY TypeStep
<1>3. \A i \in Recorded' : rows'[i].at \in Nat
  <2>1. \A i \in Recorded' : rows'[i] \in RowType
    BY <1>2 DEF TypeOK, Recorded
  <2> QED
    BY <2>1, InvalidationAssumption DEF RowType
<1>4. SUFFICES ASSUME NEW I \in SUBSET Recorded', I # {}
               PROVE  \E i \in I : \A j \in I : After(i, j)'
  BY DEF Ranked
<1> DEFINE old == I \ {n}
<1>5. old \subseteq Recorded /\ (\A i \in old : i < n)
  <2>1. \A i \in old : i \in 1..n /\ i # n
    BY <1>1
  <2>2. \A i \in old : i \in 1..(n - 1) /\ i < n
    BY <1>1, <2>1
  <2> QED
    BY <1>1, <2>2
<1>6. CASE old = {}
  <2>1. I = {n}
    BY <1>4, <1>6
  <2>2. n \in Recorded'
    BY <2>1
  <2> QED
    BY <1>1, <1>3, <2>1, <2>2 DEF After
<1>7. CASE old # {}
  <2>1. PICK k \in old : \A j \in old : After(k, j)
    BY <1>5, <1>7 DEF Inv, Ranked
  <2>2. \A j \in old : After(k, j)'
    BY <1>1, <1>5, <2>1 DEF After
  <2>3. CASE n \notin I
    BY <2>2, <2>3
  <2>4. CASE n \in I /\ rows'[k].at > rows'[n].at
    BY <2>2, <2>4 DEF After
  <2>5. CASE n \in I /\ ~(rows'[k].at > rows'[n].at)
    <3>1. \A j \in I : j \in Recorded' /\ j \in Nat /\ j <= n
      BY <1>1, <1>5
    <3>2. \A j \in old : rows'[n].at >= rows'[j].at
      BY <1>3, <2>2, <2>5, <3>1 DEF After
    <3>3. \A j \in I : rows'[n].at >= rows'[j].at
      <4>1. \A j \in I : j \in old \/ j = n
        OBVIOUS
      <4> QED
        BY <1>3, <2>5, <3>1, <3>2, <4>1
    <3>4. \A j \in I : After(n, j)'
      BY <1>1, <1>3, <2>5, <3>1, <3>3 DEF After
    <3> QED
      BY <2>5, <3>4
  <2> QED
    BY <2>3, <2>4, <2>5
<1> QED
  BY <1>6, <1>7

LEMMA InvInit == Init => Inv
<1> SUFFICES ASSUME Init PROVE Inv
  OBVIOUS
<1>1. rows = <<>> /\ session \in [Instants -> TradingDays] /\ Recorded = {}
  BY DEF Init, Recorded
<1>2. rows \in Seq(RowType)
  BY <1>1
<1>3. Ranked
  BY <1>1 DEF Ranked
<1> QED
  BY <1>1, <1>2, <1>3 DEF Inv, TypeOK, Sound

LEMMA InvNext == Inv /\ [Next]_vars => Inv'
<1> SUFFICES ASSUME Inv, [Next]_vars PROVE Inv'
  OBVIOUS
<1>1. ASSUME NEW t \in Instants, NEW d \in TradingDays, NEW input \in Inputs,
             Record(t, d, input)
      PROVE  Inv'
  BY <1>1, TypeStep, RankedStep DEF Inv
<1>2. CASE UNCHANGED vars
  BY <1>2 DEF Inv, TypeOK, Ranked, Sound, After, Recorded, vars
<1> QED
  BY <1>1, <1>2 DEF Next

(* Every row has its type, and its status says what its streak says.       *)
THEOREM TypeCorrect == Spec => []TypeOK
<1>1. Spec => []Inv
  BY InvInit, InvNext, PTL DEF Spec
<1> QED
  BY <1>1, PTL DEF Inv
-----------------------------------------------------------------------------
(* The row reported is the one a later session continues.                  *)
LEMMA PriorOfLater ==
  ASSUME Inv, NEW d \in TradingDays, Recorded # {}, rows[Newest(Recorded)].day < d
  PROVE  Prior(d) = rows[Newest(Recorded)]
<1> DEFINE earlier == {i \in Recorded : rows[i].day < d}
<1>1. Newest(Recorded) \in Recorded /\ \A j \in Recorded : After(Newest(Recorded), j)
  BY NewestRow
<1>2. earlier \in SUBSET Recorded /\ Newest(Recorded) \in earlier
  BY <1>1
<1>3. \A j \in earlier : After(Newest(Recorded), j)
  BY <1>1
<1>4. Newest(earlier) = Newest(Recorded)
  <2> HIDE DEF earlier
  <2> QED
    BY <1>2, <1>3, NewestUnique
<1> QED
  BY <1>2, <1>4 DEF Prior

(* After a step the row reported is the new one, or the one it was.        *)
LEMMA NewestAfterStep ==
  ASSUME Inv, NEW t \in Instants, NEW d \in TradingDays, NEW input \in Inputs,
         Record(t, d, input)
  PROVE  \/ Newest(Recorded)' = Len(rows) + 1
         \/ Recorded # {} /\ Newest(Recorded)' = Newest(Recorded)
<1>0. PICK n : n = Len(rows) + 1
  OBVIOUS
<1>1. /\ n \in Nat \ {0} /\ Recorded = 1..(n - 1) /\ Recorded' = 1..n
      /\ \A i \in Recorded : i \in Recorded' /\ rows'[i] = rows[i]
  BY <1>0, Appended
<1>2. Ranked'
  BY RankedStep
<1>3. PICK k \in Recorded' : k = Newest(Recorded)' /\ \A j \in Recorded' : After(k, j)'
  <2>1. Recorded' # {} /\ Recorded' \in SUBSET Recorded'
    BY <1>1
  <2>2. \E i \in Recorded' : \A j \in Recorded' : After(i, j)'
    BY <1>2, <2>1 DEF Ranked
  <2> QED
    BY <2>2 DEF Newest, After
<1>4. CASE k = n
  BY <1>0, <1>3, <1>4
<1>5. CASE k # n
  <2>1. k \in Recorded
    BY <1>1, <1>5
  <2>2. \A j \in Recorded : After(k, j)
    BY <1>1, <1>3, <2>1 DEF After
  <2>3. Newest(Recorded) = k
    BY <2>1, <2>2, NewestUnique
  <2> QED
    BY <1>3, <2>1, <2>3
<1> QED
  BY <1>4, <1>5

(* An invalidated session stays invalidated in a later one.                *)
LEMMA InvalidatedContinues ==
  ASSUME Inv, NEW d \in TradingDays, NEW v \in Values, Recorded # {},
         rows[Newest(Recorded)].day < d, rows[Newest(Recorded)].status = "invalidated"
  PROVE  State(d, v).status = "invalidated"
<1> DEFINE latest == rows[Newest(Recorded)]
<1>1. Newest(Recorded) \in Recorded
  BY NewestRow
<1>2. latest \in RowType /\ latest.day \in Int /\ latest.day >= Origin
  BY <1>1, RowFacts DEF Inv, Sound
<1>3. Prior(d) = latest /\ Prior(d) # None
  BY <1>2, PriorOfLater, RowAssumption
<1>4. Resumed(Prior(d), d).status = "invalidated"
  BY <1>3 DEF Resumed
<1>5. d # Origin
  BY <1>2, InvalidationAssumption
<1> QED
  BY <1>4, <1>5 DEF State

LEMMA StepKeepsInvalidation ==
  ASSUME Inv, NEW t \in Instants, NEW d \in TradingDays, NEW input \in Inputs,
         Record(t, d, input), Reported = "invalidated"
  PROVE  \/ Reported' = "invalidated"
         \/ rows[Newest(Recorded)].day = (rows[Newest(Recorded)].day)'
<1>0. PICK n : n = Len(rows) + 1
  OBVIOUS
<1>1. /\ n \in Nat \ {0} /\ Recorded = 1..(n - 1) /\ Recorded' = 1..n
      /\ \A i \in Recorded : rows'[i] = rows[i]
      /\ rows'[n].day = d /\ rows'[n].status = State(d, ValueOf[input]).status
  <2> DEFINE s == State(d, ValueOf[input])
  <2>1. rows'[n] = [at |-> t, day |-> d, input |-> input, value |-> ValueOf[input],
                    status |-> s.status, streak |-> s.streak, triggered |-> s.triggered]
    BY <1>0, Appended
  <2>2. rows'[n].day = d /\ rows'[n].status = s.status
    <3> HIDE DEF s
    <3> QED
      BY <2>1
  <2> QED
    BY <1>0, <2>2, Appended
<1>2. rows # <<>> /\ rows[Newest(Recorded)].status = "invalidated" /\ rows' # <<>>
  BY DEF Reported, Record
<1>3. Recorded # {}
  BY <1>2 DEF Inv, TypeOK, Recorded
<1>4. Newest(Recorded) \in Recorded /\ rows[Newest(Recorded)].day \in Int
  BY <1>3, NewestRow, RowFacts DEF Inv
<1>5. d \in Int /\ rows[Newest(Recorded)].day <= d
  <2>1. d \in Int
    BY InvalidationAssumption
  <2>2. ~Superseded(d, input)
    BY DEF Record
  <2> QED
    BY <1>2, <1>4, <2>1, <2>2 DEF Superseded
<1>6. CASE Newest(Recorded)' = Newest(Recorded)
  <2>1. rows'[Newest(Recorded)'].status = "invalidated"
    BY <1>1, <1>2, <1>4, <1>6
  <2> QED
    BY <1>2, <2>1 DEF Reported
<1>7. CASE Newest(Recorded)' = n /\ rows[Newest(Recorded)].day = d
  BY <1>1, <1>7
<1>8. CASE Newest(Recorded)' = n /\ rows[Newest(Recorded)].day < d
  <2>1. ValueOf[input] \in Values
    BY InvalidationAssumption DEF Values
  <2>2. rows'[n].status = "invalidated"
    BY <1>1, <1>2, <1>3, <1>8, <2>1, InvalidatedContinues
  <2> QED
    BY <1>2, <1>8, <2>2 DEF Reported
<1> QED
  BY <1>0, <1>4, <1>5, <1>6, <1>7, <1>8, NewestAfterStep

(* A reported invalidation is taken back by no observation of another      *)
(* session, whatever the order in which they are recorded.                 *)
THEOREM InvalidationIsFinal == Spec => InvalidationStays
<1>1. ASSUME Inv, [Next]_vars
      PROVE  [Reported = "invalidated" =>
                \/ Reported' = "invalidated"
                \/ rows[Newest(Recorded)].day = (rows[Newest(Recorded)].day)']_vars
  <2>1. CASE UNCHANGED vars
    BY <2>1
  <2>2. CASE Next
    BY <1>1, <2>2, StepKeepsInvalidation DEF Next
  <2> QED
    BY <1>1, <2>1, <2>2
<1>2. Spec => []Inv
  BY InvInit, InvNext, PTL DEF Spec
<1> QED
  BY <1>1, <1>2, PTL DEF Spec, InvalidationStays
-----------------------------------------------------------------------------
(* A recorded value of session d meets the condition.                      *)
MetOn(d) ==
  \E v \in ValuesOf(d) :
    IF Crossing THEN \E c \in Days : Follows(c, d) /\ \E p \in ValuesOf(c) : Cross(p, v)
    ELSE Compare(v)

AfterOrigin == {d \in Weekdays : d > Origin}

(* What was recorded of a session stays recorded.                          *)
LEMMA ValuesGrow ==
  ASSUME Inv, NEW t \in Instants, NEW d \in TradingDays, NEW input \in Inputs,
         Record(t, d, input)
  PROVE  /\ \A c : ValuesOf(c) \subseteq ValuesOf(c)'
         /\ \A c : MetOn(c) => MetOn(c)'
         /\ \A e, n : Witness(e, n) => Witness(e, n)'
<1>1. \A i \in Recorded : i \in Recorded' /\ rows'[i] = rows[i]
  BY Appended
<1>2. \A c : ValuesOf(c) \subseteq ValuesOf(c)'
  BY <1>1 DEF ValuesOf
<1>3. \A c : MetOn(c) => MetOn(c)'
  BY <1>2 DEF MetOn
<1>4. \A e, n : Witness(e, n) => Witness(e, n)'
  BY <1>3 DEF Witness, MetOn
<1> QED
  BY <1>2, <1>3, <1>4

(* A state with a streak was made by a value that meets the condition.     *)
LEMMA ObservedStreak ==
  ASSUME NEW s \in StateType, NEW d \in Days, NEW v \in Values,
         Observe(s, d, v).streak > 0
  PROVE  /\ v # None /\ Hit(s.value, v) /\ Observe(s, d, v).streak = s.streak + 1
         /\ Observe(s, d, v).status = "invalidated" =>
              Crossing \/ Observe(s, d, v).streak >= ConsecutiveBars
<1>1. s.streak \in Nat
  BY DEF StateType
<1>2. v # None
  BY DEF Observe, Fresh
<1>3. Hit(s.value, v)
  BY <1>2 DEF Observe
<1> QED
  BY <1>1, <1>2, <1>3 DEF Observe

(* A run of one session.                                                   *)
LEMMA WitnessOfOne ==
  ASSUME NEW d \in AfterOrigin, MetOn(d)'
  PROVE  Witness(d, 1)'
<1> DEFINE run == [i \in 1..1 |-> d]
<1>1. run \in [1..1 -> AfterOrigin] /\ run[1] = d /\ \A i \in 1..1 : run[i] = d
  OBVIOUS
<1>2. \A i \in 1..1 - 1 : FALSE
  OBVIOUS
<1> HIDE DEF run
<1> QED
  BY <1>1, <1>2 DEF Witness, MetOn, AfterOrigin

(* A run that one more session continues.                                  *)
LEMMA WitnessOfMore ==
  ASSUME NEW n \in Nat \ {0}, NEW e, Witness(e, n)', NEW d \in AfterOrigin, Follows(e, d), MetOn(d)'
  PROVE  Witness(d, n + 1)'
<1>1. PICK run \in [1..n -> AfterOrigin] :
        /\ run[n] = e
        /\ \A i \in 1..n - 1 : Follows(run[i], run[i + 1])
        /\ \A i \in 1..n : MetOn(run[i])'
  BY DEF Witness, MetOn, AfterOrigin
<1> DEFINE more == [i \in 1..n + 1 |-> IF i = n + 1 THEN d ELSE run[i]]
<1>2. \A i \in 1..n + 1 : i = n + 1 \/ i \in 1..n
  OBVIOUS
<1>3. /\ more \in [1..n + 1 -> AfterOrigin] /\ more[n + 1] = d
      /\ \A i \in 1..n : more[i] = run[i]
  BY <1>2
<1> HIDE DEF more
<1>4. \A i \in 1..n + 1 : MetOn(more[i])'
  <2>1. \A i \in 1..n : MetOn(more[i])'
    BY <1>1, <1>3
  <2>2. MetOn(more[n + 1])'
    BY <1>3
  <2> QED
    BY <1>2, <2>1, <2>2
<1>5. \A i \in 1..(n + 1) - 1 : Follows(more[i], more[i + 1])
  <2> SUFFICES ASSUME NEW i \in 1..n PROVE Follows(more[i], more[i + 1])
    OBVIOUS
  <2>1. CASE i = n
    BY <1>1, <1>3, <2>1
  <2>2. CASE i # n
    <3>1. i \in 1..n - 1 /\ i + 1 \in 1..n
      BY <2>2
    <3> QED
      BY <1>1, <1>3, <3>1
  <2> QED
    BY <2>1, <2>2
<1> QED
  BY <1>3, <1>4, <1>5 DEF Witness, MetOn, AfterOrigin

(* The row of a step is witnessed like those before it.                    *)
LEMMA WitnessStep ==
  ASSUME Inv, InvalidationWitnessed, NEW t \in Instants, NEW d \in TradingDays,
         NEW input \in Inputs, Record(t, d, input),
         NEW o, o = State(d, ValueOf[input]), o.streak > 0
  PROVE  \E e \in {c \in Weekdays : c <= d} :
           /\ Witness(e, o.streak)'
           /\ o.status = "warning" => e = d
           /\ o.status = "invalidated" => Crossing \/ o.streak >= ConsecutiveBars
<1>1. PICK v \in Values : v = ValueOf[input]
  BY InvalidationAssumption DEF Values
<1>2. PICK s \in StateType : /\ s = Resumed(Prior(d), d)
                             /\ s.status = "invalidated" => s.streak > 0
  BY ResumedState
<1>3. d # Origin
  BY <1>1 DEF State, Fresh
<1>4. d \in AfterOrigin /\ d \in Weekdays /\ d \in Days /\ d \in Int /\ Weekdays \subseteq Int
  <2>1. d \in Weekdays /\ d \in Int /\ Origin \in Int /\ d >= Origin /\ d \in Days
    BY InvalidationAssumption DEF Record
  <2> QED
    BY <1>3, <2>1, InvalidationAssumption DEF AfterOrigin
<1>5. CASE s.status = "invalidated"
  <2>1. o = s
    BY <1>1, <1>2, <1>3, <1>5 DEF State
  <2>2. Prior(d) # None
    BY <1>2, <1>5 DEF Resumed, Fresh
  <2>3. PICK i \in Recorded : rows[i].day < d /\ Prior(d) = rows[i]
    BY <2>2, PriorRow
  <2>4. s.status = rows[i].status /\ s.streak = rows[i].streak
    BY <1>2, <1>5, <2>2, <2>3 DEF Resumed
  <2>5. rows[i].day \in Int
    BY RowFacts DEF Inv
  <2>6. PICK e \in {c \in Weekdays : c <= rows[i].day} :
          /\ Witness(e, s.streak)
          /\ Crossing \/ s.streak >= ConsecutiveBars
    BY <1>2, <1>5, <2>4 DEF InvalidationWitnessed
  <2>7. e <= d /\ e \in Weekdays
    BY <1>4, <2>3, <2>5, <2>6
  <2>8. Witness(e, s.streak)'
    BY <2>6, ValuesGrow
  <2> QED
    BY <1>5, <2>1, <2>6, <2>7, <2>8
<1>6. CASE s.status # "invalidated"
  <2>2. o = Observe(s, d, v)
    BY <1>1, <1>2, <1>3, <1>6 DEF State
  <2>3. /\ v # None /\ Hit(s.value, v) /\ o.streak = s.streak + 1
        /\ o.status = "invalidated" => Crossing \/ o.streak >= ConsecutiveBars
    BY <1>1, <1>4, <2>2, ObservedStreak
  <2>4. v \in ValuesOf(d)'
    <3>1. PICK n : n = Len(rows) + 1
      OBVIOUS
    <3>2. n \in Recorded' /\ rows'[n].day = d /\ rows'[n].value = v
      <4>1. rows'[n] = [at |-> t, day |-> d, input |-> input, value |-> ValueOf[input],
                        status |-> o.status, streak |-> o.streak, triggered |-> o.triggered]
        BY <3>1, Appended
      <4>2. n \in Nat \ {0} /\ Recorded' = 1..n
        BY <3>1, Appended
      <4> QED
        BY <1>1, <4>1, <4>2
    <3> QED
      BY <2>3, <3>2 DEF ValuesOf
  <2>5. s.streak \in Nat
    BY DEF StateType
  <2>6. MetOn(d)'
    <3>1. CASE ~Crossing
      BY <2>3, <2>4, <3>1 DEF MetOn, Hit
    <3>2. CASE Crossing
      <4>1. Cross(s.value, v) /\ s.value # None
        BY <2>3, <3>2 DEF Hit, Cross
      <4>2. Prior(d) # None
        BY <1>2, <4>1 DEF Resumed, Fresh
      <4>3. PICK i \in Recorded : rows[i].day < d /\ Prior(d) = rows[i]
        BY <4>2, PriorRow
      <4>4. Follows(rows[i].day, d) /\ s.value = rows[i].value
        BY <1>2, <1>6, <4>1, <4>2, <4>3 DEF Resumed
      <4>5. rows[i].day \in Days
        BY <4>3, InvalidationAssumption DEF Inv, Sound
      <4>6. s.value \in ValuesOf(rows[i].day)
        BY <4>1, <4>4 DEF ValuesOf
      <4>7. s.value \in ValuesOf(rows[i].day)'
        <5>1. PICK c : c = rows[i].day
          OBVIOUS
        <5>2. s.value \in ValuesOf(c)'
          BY <4>6, <5>1, ValuesGrow
        <5>3. rows'[i].day = c
          BY <4>3, <5>1, Appended
        <5> QED
          BY <5>2, <5>3
      <4> QED
        <5>1. PICK c \in Days : c = rows[i].day
          BY <4>5
        <5>2. s.value \in ValuesOf(c)'
          BY <4>6, <5>1, ValuesGrow
        <5> QED
          BY <2>4, <3>2, <4>1, <4>4, <5>1, <5>2 DEF MetOn
    <3> QED
      BY <3>1, <3>2
  <2>7. CASE s.streak = 0
    <3>1. Witness(d, 1)'
      BY <1>4, <2>6, WitnessOfOne
    <3> QED
      BY <1>4, <2>3, <2>7, <3>1
  <2>8. CASE s.streak # 0
    <3>1. Prior(d) # None
      BY <1>2, <2>8 DEF Resumed, Fresh
    <3>2. PICK i \in Recorded : rows[i].day < d /\ Prior(d) = rows[i]
      BY <3>1, PriorRow
    <3>3. /\ Follows(rows[i].day, d) /\ s.streak = rows[i].streak
          /\ s.status = rows[i].status
      BY <1>2, <1>6, <2>8, <3>1, <3>2 DEF Resumed
    <3>4. rows[i].status = "warning" /\ rows[i].streak > 0
      <4>1. rows[i].status \in Statuses
        BY RowFacts DEF Inv, RowType
      <4> QED
        BY <1>6, <2>5, <2>8, <3>3, <4>1 DEF Inv, TypeOK, Statuses
    <3>5. Witness(rows[i].day, s.streak)
      BY <3>3, <3>4 DEF InvalidationWitnessed
    <3>6. PICK c : c = rows[i].day
      OBVIOUS
    <3>7. Witness(c, s.streak)' /\ Follows(c, d)
      BY <3>3, <3>5, <3>6, ValuesGrow
    <3>8. Witness(d, s.streak + 1)'
      BY <1>4, <2>5, <2>6, <2>8, <3>7, WitnessOfMore
    <3> QED
      BY <1>4, <2>3, <3>8
  <2> QED
    BY <2>5, <2>7, <2>8
<1> QED
  BY <1>5, <1>6

LEMMA WitnessedNext ==
  Inv /\ InvalidationWitnessed /\ [Next]_vars => InvalidationWitnessed'
<1> SUFFICES ASSUME Inv, InvalidationWitnessed, [Next]_vars
             PROVE  InvalidationWitnessed'
  OBVIOUS
<1>1. ASSUME NEW t \in Instants, NEW d \in TradingDays, NEW input \in Inputs,
             Record(t, d, input)
      PROVE  InvalidationWitnessed'
  <2>0. PICK n : n = Len(rows) + 1
    OBVIOUS
  <2>1. PICK o : o = State(d, ValueOf[input])
    OBVIOUS
  <2>2. /\ n \in Nat \ {0} /\ Recorded = 1..(n - 1) /\ Recorded' = 1..n
        /\ \A i \in Recorded : rows'[i] = rows[i]
        /\ rows'[n] = [at |-> t, day |-> d, input |-> input, value |-> ValueOf[input],
                       status |-> o.status, streak |-> o.streak, triggered |-> o.triggered]
    BY <1>1, <2>0, <2>1, Appended
  <2>3. /\ rows'[n].day = d /\ rows'[n].status = o.status /\ rows'[n].streak = o.streak
        /\ \A i \in Recorded' : i = n \/ i \in Recorded
    BY <2>2
  <2>4. ASSUME NEW i \in Recorded', NEW row, row = rows'[i], row.streak > 0
        PROVE  \E e \in {c \in Weekdays : c <= row.day} :
                 /\ Witness(e, row.streak)'
                 /\ row.status = "warning" => e = row.day
                 /\ row.status = "invalidated" => Crossing \/ row.streak >= ConsecutiveBars
    <3>1. CASE i = n
      <4>1. row.day = d /\ row.status = o.status /\ row.streak = o.streak
        BY <2>3, <2>4, <3>1
      <4>2. PICK e \in {c \in Weekdays : c <= d} :
              /\ Witness(e, o.streak)'
              /\ o.status = "warning" => e = d
              /\ o.status = "invalidated" => Crossing \/ o.streak >= ConsecutiveBars
        BY <1>1, <2>1, <2>4, <4>1, WitnessStep
      <4> QED
        BY <4>1, <4>2
    <3>2. CASE i \in Recorded
      <4>1. row = rows[i]
        BY <2>2, <2>4, <3>2
      <4>2. PICK e \in {c \in Weekdays : c <= row.day} :
              /\ Witness(e, row.streak)
              /\ row.status = "warning" => e = row.day
              /\ row.status = "invalidated" => Crossing \/ row.streak >= ConsecutiveBars
        BY <2>4, <3>2, <4>1 DEF InvalidationWitnessed
      <4>3. Witness(e, row.streak)'
        BY <1>1, <4>2, ValuesGrow
      <4> QED
        BY <4>2, <4>3
    <3> QED
      BY <2>3, <3>1, <3>2
  <2> QED
    BY <2>4 DEF InvalidationWitnessed
<1>2. CASE UNCHANGED vars
  <2>1. rows' = rows /\ Recorded' = Recorded
    BY <1>2 DEF Recorded, vars
  <2>2. \A c : ValuesOf(c)' = ValuesOf(c)
    BY <2>1 DEF ValuesOf
  <2>3. \A e, n : Witness(e, n)' <=> Witness(e, n)
    BY <2>2 DEF Witness
  <2> QED
    BY <2>1, <2>3 DEF InvalidationWitnessed
<1> QED
  BY <1>1, <1>2 DEF Next

(* Every streak rests on as many sessions in a row, each with a recorded   *)
(* value that meets the condition, for every calendar and every order in   *)
(* which the analyses are recorded.                                        *)
THEOREM InvalidationIsWitnessed == Spec => []InvalidationWitnessed
<1>1. Init => InvalidationWitnessed
  BY DEF Init, InvalidationWitnessed, Recorded
<1>2. Inv /\ InvalidationWitnessed /\ [Next]_vars => (Inv /\ InvalidationWitnessed)'
  BY InvNext, WitnessedNext
<1> QED
  BY <1>1, <1>2, InvInit, PTL DEF Spec
-----------------------------------------------------------------------------
(* Where no analysis lags, rows are of the newest session of their time.   *)
Timely ==
  /\ \A s, t \in Instants : s <= t => session[s] <= session[t]
  /\ \A i \in Recorded : rows[i].day = session[rows[i].at]

DayRows(d) == {i \in Recorded : rows[i].day = d}

Hits(run, k) ==
  \A i \in 1..k :
    /\ DayRows(run[i]) # {} /\ run[i] > Origin
    /\ Current(run[i]).value # None /\ Compare(Current(run[i]).value)

Consecutive(run, k) == \A i \in 1..k : i # 1 => Follows(run[i - 1], run[i])

(* A run of k hits has been counted as k, or has invalidated.              *)
Counted ==
  /\ \A i \in Recorded : rows[i].status = "warning" => rows[i].streak < ConsecutiveBars
  /\ \A k \in 1..ConsecutiveBars : \A run \in [1..k -> TradingDays] :
       ~Crossing /\ Hits(run, k) /\ Consecutive(run, k) =>
         Current(run[k]).status = "invalidated" \/ Current(run[k]).streak >= k

(* A later row is of no earlier session.                                   *)
LEMMA DaysInOrder ==
  ASSUME Inv, Timely, NEW i \in Recorded, NEW j \in Recorded, After(i, j)
  PROVE  rows[j].day <= rows[i].day
<1>1. /\ rows[i].at \in Instants /\ rows[j].at \in Instants
      /\ rows[i].at \in Nat /\ rows[j].at \in Nat
  BY RowFacts DEF Inv, RowType
<1>2. rows[j].at <= rows[i].at
  BY <1>1 DEF After
<1> QED
  BY <1>1, <1>2 DEF Timely

LEMMA NoLaterDay ==
  ASSUME Inv, Timely, NEW t \in Instants, NEW d \in TradingDays, NEW input \in Inputs,
         Record(t, d, input), NEW i \in Recorded
  PROVE  rows[i].day <= d
<1>1. Newest(Recorded) \in Recorded /\ After(Newest(Recorded), i)
  BY NewestRow
<1>2. rows[i].day <= rows[Newest(Recorded)].day
  BY <1>1, DaysInOrder
<1>3. rows[i].day \in Int /\ rows[Newest(Recorded)].day \in Int /\ d \in Int
  BY <1>1, RowFacts, InvalidationAssumption DEF Inv
<1>4. rows # <<>>
  BY DEF Recorded, Inv, TypeOK
<1>5. ~(rows[Newest(Recorded)].day > d)
  BY <1>4 DEF Record, Superseded
<1> QED
  BY <1>2, <1>3, <1>5

(* After a step the row that counts for a session is the new one, or the   *)
(* one it was.                                                             *)
LEMMA CurrentAfterStep ==
  ASSUME Inv, NEW t \in Instants, NEW d \in TradingDays, NEW input \in Inputs,
         Record(t, d, input), NEW c, DayRows(c)' # {}, NEW n, n = Len(rows) + 1
  PROVE  \/ c = d /\ Current(c)' = rows'[n]
         \/ DayRows(c) # {} /\ Current(c)' = Current(c)
<1>1. /\ n \in Nat \ {0} /\ Recorded = 1..(n - 1) /\ Recorded' = 1..n
      /\ \A i \in Recorded : i \in Recorded' /\ rows'[i] = rows[i]
      /\ \A i \in Recorded' : i = n \/ i \in Recorded
  <2>1. /\ n \in Nat \ {0} /\ Recorded = 1..(n - 1) /\ Recorded' = 1..n
        /\ \A i \in Recorded : i \in Recorded' /\ rows'[i] = rows[i]
    BY Appended
  <2>2. \A i \in 1..n : i = n \/ i \in 1..(n - 1)
    BY <2>1
  <2> QED
    BY <2>1, <2>2
<1>2. rows'[n].day = d
  <2>1. PICK s : s = State(d, ValueOf[input])
    OBVIOUS
  <2>2. rows'[n] = [at |-> t, day |-> d, input |-> input, value |-> ValueOf[input],
                    status |-> s.status, streak |-> s.streak, triggered |-> s.triggered]
    BY <2>1, Appended
  <2> QED
    BY <2>2
<1>3. PICK new : new = DayRows(c)'
  OBVIOUS
<1>4. new \subseteq Recorded' /\ new # {} /\ \A i \in new : rows'[i].day = c
  BY <1>3 DEF DayRows
<1>5. PICK k \in new : k = Newest(new)' /\ \A j \in new : After(k, j)'
  <2>1. \E i \in new : \A j \in new : After(i, j)'
    BY <1>4, RankedStep DEF Ranked
  <2> QED
    BY <2>1 DEF Newest, After
<1>6. Current(c)' = rows'[k]
  BY <1>3, <1>5 DEF Current, DayRows
<1>7. CASE k = n
  BY <1>2, <1>4, <1>5, <1>6, <1>7
<1>8. CASE k # n
  <2>1. DayRows(c) \in SUBSET Recorded /\ k \in DayRows(c)
    BY <1>1, <1>4, <1>5, <1>8 DEF DayRows
  <2>2. DayRows(c) \subseteq new
    BY <1>1, <1>3 DEF DayRows
  <2>3. \A j \in DayRows(c) : After(k, j)
    BY <1>1, <1>5, <2>1, <2>2 DEF After
  <2>4. Newest(DayRows(c)) = k
    BY <2>1, <2>3, NewestUnique
  <2>5. Current(c) = rows[k]
    BY <2>4 DEF Current, DayRows
  <2> QED
    BY <1>1, <1>6, <2>1, <2>5
<1> QED
  BY <1>7, <1>8

(* A session continues the row that counts for the session before it.      *)
LEMMA PriorIsCurrent ==
  ASSUME Inv, Timely, NEW d \in TradingDays, NEW c \in TradingDays, Follows(c, d),
         DayRows(c) # {}
  PROVE  Prior(d) = Current(c)
<1> DEFINE earlier == {i \in Recorded : rows[i].day < d}
<1>1. DayRows(c) \in SUBSET Recorded /\ DayRows(c) \subseteq earlier
  BY DEF DayRows, Follows
<1>2. PICK k \in earlier : k = Newest(earlier) /\ \A j \in earlier : After(k, j)
  BY <1>1, NewestRow
<1>3. k \in Recorded /\ rows[k].day < d /\ rows[k].day \in Int /\ rows[k].day \in Weekdays
  BY <1>2, RowFacts, InvalidationAssumption DEF Inv, Sound
<1>4. Prior(d) = rows[k]
  BY <1>2 DEF Prior
<1> HIDE DEF earlier
<1>5. rows[k].day = c
  <2>1. PICK i \in DayRows(c) : TRUE
    OBVIOUS
  <2>2. i \in Recorded /\ rows[i].day = c /\ After(k, i)
    BY <1>1, <1>2, <2>1 DEF DayRows
  <2>3. c <= rows[k].day
    BY <1>3, <2>2, DaysInOrder
  <2>4. c \in Int /\ d \in Int
    BY InvalidationAssumption
  <2> QED
    BY <1>3, <2>3, <2>4 DEF Follows
<1>6. k \in DayRows(c) /\ \A j \in DayRows(c) : After(k, j)
  BY <1>1, <1>2, <1>3, <1>5 DEF DayRows
<1>7. Newest(DayRows(c)) = k
  BY <1>1, <1>6, NewestUnique
<1> QED
  BY <1>4, <1>7 DEF Current, DayRows

(* What Observe makes of a hit.                                            *)
LEMMA ObservedHit ==
  ASSUME NEW s \in StateType, NEW d, NEW v, v # None, ~Crossing, Compare(v)
  PROVE  LET o == Observe(s, d, v)
         IN  /\ o.streak = s.streak + 1
             /\ o.status = IF o.streak >= ConsecutiveBars THEN "invalidated" ELSE "warning"
<1>1. s.streak \in Nat /\ s.streak + 1 > 0
  BY DEF StateType
<1>2. Hit(s.value, v)
  BY DEF Hit
<1> QED
  BY <1>1, <1>2 DEF Observe

LEMMA ObservedWarning ==
  ASSUME NEW s \in StateType, NEW d, NEW v, Observe(s, d, v).status = "warning"
  PROVE  Observe(s, d, v).streak < ConsecutiveBars
<1>1. s.streak \in Nat /\ ConsecutiveBars \in Nat \ {0}
  BY InvalidationAssumption DEF StateType
<1>2. v # None
  BY DEF Observe, Fresh
<1>3. Hit(s.value, v)
  BY <1>2 DEF Observe
<1> QED
  BY <1>1, <1>2, <1>3 DEF Observe

(* The state made of a hit whose session continues k - 1 hits counted.     *)
LEMMA StateOfHit ==
  ASSUME Inv, NEW d \in TradingDays, d > Origin, NEW v \in Values, v # None,
         ~Crossing, Compare(v), NEW k \in Nat \ {0},
         k = 1 \/ /\ Prior(d) # None /\ Follows(Prior(d).day, d)
                  /\ Prior(d).status = "invalidated" \/ Prior(d).streak >= k - 1
  PROVE  State(d, v).status = "invalidated" \/ State(d, v).streak >= k
<1>1. PICK s \in StateType : s = Resumed(Prior(d), d)
  BY ResumedState
<1>2. d # Origin
  BY InvalidationAssumption
<1>3. CASE s.status = "invalidated"
  BY <1>1, <1>2, <1>3 DEF State
<1>4. CASE s.status # "invalidated"
  <2>1. State(d, v) = Observe(s, d, v)
    BY <1>1, <1>2, <1>4 DEF State
  <2>2. State(d, v).streak = s.streak + 1 /\ s.streak \in Nat
    BY <2>1, ObservedHit DEF StateType
  <2>3. k = 1 \/ s.streak >= k - 1
    BY <1>1, <1>4 DEF Resumed
  <2> QED
    BY <2>2, <2>3
<1> QED
  BY <1>3, <1>4

LEMMA TimelyStep ==
  ASSUME ~Lagging, Inv, Timely, NEW t \in Instants, NEW d \in TradingDays,
         NEW input \in Inputs, Record(t, d, input)
  PROVE  Timely'
<1>0. PICK n, s : n = Len(rows) + 1 /\ s = State(d, ValueOf[input])
  OBVIOUS
<1>1. /\ n \in Nat \ {0} /\ Recorded = 1..(n - 1) /\ Recorded' = 1..n
      /\ \A i \in Recorded : rows'[i] = rows[i]
      /\ rows'[n] = [at |-> t, day |-> d, input |-> input, value |-> ValueOf[input],
                     status |-> s.status, streak |-> s.streak, triggered |-> s.triggered]
      /\ session' = session
  BY <1>0, Appended
<1>2. rows'[n].day = session[rows'[n].at]
  <2>1. rows'[n].day = d /\ rows'[n].at = t
    BY <1>1
  <2>2. d = session[t]
    BY DEF Record
  <2> QED
    BY <2>1, <2>2
<1>3. \A i \in Recorded' : i = n \/ i \in Recorded
  BY <1>1
<1> QED
  BY <1>1, <1>2, <1>3 DEF Timely

LEMMA CountedStep ==
  ASSUME ~Lagging, TradingDays = Weekdays, Inv, Timely, Counted,
         NEW t \in Instants, NEW d \in TradingDays, NEW input \in Inputs, Record(t, d, input)
  PROVE  Counted'
<1>0. PICK n, s, v : n = Len(rows) + 1 /\ v = ValueOf[input] /\ s = State(d, v)
  OBVIOUS
<1>1. /\ n \in Nat \ {0} /\ Recorded = 1..(n - 1) /\ Recorded' = 1..n
      /\ \A i \in Recorded : rows'[i] = rows[i]
      /\ rows'[n] = [at |-> t, day |-> d, input |-> input, value |-> v,
                     status |-> s.status, streak |-> s.streak, triggered |-> s.triggered]
  BY <1>0, Appended
<1>2. \A i \in Recorded' : i = n \/ i \in Recorded
  BY <1>1
<1>3. /\ rows'[n].day = d /\ rows'[n].value = v
      /\ rows'[n].status = s.status /\ rows'[n].streak = s.streak
  BY <1>1
<1>4. \A i \in Recorded' : rows'[i].day <= d
  <2>1. \A i \in Recorded : rows[i].day <= d
    BY NoLaterDay
  <2>2. d <= d
    BY InvalidationAssumption
  <2> QED
    BY <1>1, <1>2, <1>3, <2>1, <2>2
<1>5. v \in Values /\ d \in Int /\ TradingDays \subseteq Int
  BY <1>0, InvalidationAssumption DEF Values
<1>6. \A i \in Recorded' : rows'[i].status = "warning" => rows'[i].streak < ConsecutiveBars
  <2>1. ASSUME s.status = "warning" PROVE s.streak < ConsecutiveBars
    <3>1. PICK r \in StateType : r = Resumed(Prior(d), d)
      BY ResumedState
    <3>2. s = Observe(r, d, v)
      BY <1>0, <2>1, <3>1 DEF State, Fresh
    <3> QED
      BY <2>1, <3>2, ObservedWarning
  <2> QED
    BY <1>1, <1>2, <1>3, <2>1 DEF Counted
<1>7. ASSUME NEW k \in 1..ConsecutiveBars, NEW run \in [1..k -> TradingDays],
             ~Crossing, Hits(run, k)', Consecutive(run, k)
      PROVE  (Current(run[k]).status = "invalidated" \/ Current(run[k]).streak >= k)'
  <2>1. k \in Nat \ {0} /\ \A i \in 1..k : run[i] \in TradingDays /\ run[i] \in Int
    <3>1. k \in Nat \ {0}
      BY InvalidationAssumption
    <3>2. \A i \in 1..k : run[i] \in TradingDays
      OBVIOUS
    <3> QED
      BY <1>5, <3>1, <3>2
  <2>2. \A i \in 1..k : /\ DayRows(run[i])' # {} /\ run[i] > Origin
                        /\ Current(run[i])'.value # None /\ Compare(Current(run[i])'.value)
    BY <1>7 DEF Hits
  <2>3. \A i \in 1..k : run[i] <= d
    BY <1>4, <2>2 DEF DayRows
  <2>4. \A i \in 1..k : i # k => run[i] < d
    <3> SUFFICES ASSUME NEW i \in 1..k, i # k PROVE run[i] < d
      OBVIOUS
    <3>1. i + 1 \in 1..k /\ i + 1 # 1 /\ (i + 1) - 1 = i
      BY <2>1
    <3>2. run[i] < run[i + 1]
      BY <1>7, <3>1 DEF Consecutive, Follows
    <3> QED
      BY <1>5, <2>1, <2>3, <3>1, <3>2
  <2>5. \A i \in 1..k : i # k => DayRows(run[i]) # {} /\ Current(run[i])' = Current(run[i])
    BY <1>0, <1>5, <2>1, <2>2, <2>4, CurrentAfterStep
  <2>6. k \in 1..k
    BY <2>1
  <2>7. CASE DayRows(run[k]) # {} /\ Current(run[k])' = Current(run[k])
    <3>1. Hits(run, k)
      BY <2>2, <2>5, <2>7 DEF Hits
    <3> QED
      BY <1>7, <2>7, <3>1 DEF Counted
  <2>8. CASE run[k] = d /\ Current(run[k])' = rows'[n]
    <3>1. v # None /\ Compare(v) /\ d > Origin
      BY <1>3, <2>2, <2>6, <2>8
    <3>2. CASE k = 1
      <4>1. s.status = "invalidated" \/ s.streak >= k
        BY <1>0, <1>5, <1>7, <2>1, <3>1, <3>2, StateOfHit
      <4> QED
        BY <1>3, <2>8, <4>1
    <3>3. CASE k # 1
      <4> DEFINE shorter == [i \in 1..k - 1 |-> run[i]]
      <4>1. /\ k - 1 \in 1..ConsecutiveBars /\ k - 1 \in 1..k /\ k - 1 # k
            /\ \A i \in 1..k - 1 : i \in 1..k /\ i # k
        BY <2>1, <3>3, InvalidationAssumption
      <4>2. shorter \in [1..k - 1 -> TradingDays] /\ \A i \in 1..k - 1 : shorter[i] = run[i]
        BY <2>1, <4>1
      <4>3. k - 1 \in 1..k - 1
        BY <2>1, <3>3
      <4> HIDE DEF shorter
      <4>4. Hits(shorter, k - 1)
        BY <2>2, <2>5, <4>1, <4>2 DEF Hits
      <4>5. Consecutive(shorter, k - 1)
        <5> SUFFICES ASSUME NEW i \in 1..k - 1, i # 1
                     PROVE  Follows(shorter[i - 1], shorter[i])
          BY DEF Consecutive
        <5>1. i - 1 \in 1..k - 1 /\ i \in 1..k
          BY <2>1
        <5> QED
          BY <1>7, <4>2, <5>1 DEF Consecutive
      <4>6. PICK c \in TradingDays : c = run[k - 1] /\ c = shorter[k - 1]
        BY <2>1, <4>1, <4>2, <4>3
      <4>7. Current(c).status = "invalidated" \/ Current(c).streak >= k - 1
        BY <1>7, <4>1, <4>2, <4>4, <4>5, <4>6 DEF Counted
      <4>8. DayRows(c) # {} /\ Follows(c, d)
        BY <1>7, <2>5, <2>6, <2>8, <3>3, <4>1, <4>6 DEF Consecutive
      <4>9. Prior(d) = Current(c)
        BY <4>8, PriorIsCurrent
      <4>10. Prior(d) # None /\ Prior(d).day = c
        <5>1. DayRows(c) \in SUBSET Recorded
          BY DEF DayRows
        <5>2. Newest(DayRows(c)) \in DayRows(c)
          BY <4>8, <5>1, NewestRow
        <5>3. Prior(d) = rows[Newest(DayRows(c))]
          BY <4>9 DEF Current, DayRows
        <5>4. rows[Newest(DayRows(c))] \in RowType /\ rows[Newest(DayRows(c))].day = c
          BY <5>2, RowFacts DEF DayRows, Inv
        <5> QED
          BY <5>3, <5>4, RowAssumption
      <4>11. s.status = "invalidated" \/ s.streak >= k
        BY <1>0, <1>5, <1>7, <2>1, <3>1, <4>7, <4>8, <4>9, <4>10, StateOfHit
      <4> QED
        BY <1>3, <2>8, <4>11
    <3> QED
      BY <3>2, <3>3
  <2> QED
    BY <1>0, <2>2, <2>6, <2>7, <2>8, CurrentAfterStep
<1> QED
  BY <1>6, <1>7 DEF Counted, Consecutive

LEMMA CountedInit == Init => Timely /\ Counted
<1> SUFFICES ASSUME Init PROVE Timely /\ Counted
  OBVIOUS
<1>1. Recorded = {} /\ \A c : DayRows(c) = {}
  BY DEF Init, Recorded, DayRows
<1>2. \A k \in 1..ConsecutiveBars : \A run : ~Hits(run, k)
  <2> SUFFICES ASSUME NEW k \in 1..ConsecutiveBars, NEW run PROVE ~Hits(run, k)
    OBVIOUS
  <2>1. k \in 1..k
    BY InvalidationAssumption
  <2> QED
    BY <1>1, <2>1 DEF Hits
<1> QED
  BY <1>1, <1>2 DEF Init, Timely, Counted

LEMMA CountedNext ==
  ASSUME ~Lagging, TradingDays = Weekdays, Inv, Timely, Counted, [Next]_vars
  PROVE  (Timely /\ Counted)'
<1>1. ASSUME NEW t \in Instants, NEW d \in TradingDays, NEW input \in Inputs,
             Record(t, d, input)
      PROVE  (Timely /\ Counted)'
  BY <1>1, TimelyStep, CountedStep
<1>2. CASE UNCHANGED vars
  <2>1. session' = session /\ rows' = rows /\ Recorded' = Recorded
    BY <1>2 DEF Recorded, vars
  <2>2. Timely'
    BY <2>1 DEF Timely
  <2>3. \A c : Current(c)' = Current(c) /\ DayRows(c)' = DayRows(c)
    BY <2>1 DEF Current, DayRows, Newest
  <2>4. Counted'
    BY <2>1, <2>3 DEF Counted, Hits
  <2> QED
    BY <2>2, <2>4
<1> QED
  BY <1>1, <1>2 DEF Next

LEMMA CountedIsNoticed ==
  ASSUME TradingDays = Weekdays, Inv, Counted
  PROVE  RunOfHitsInvalidates
<1> SUFFICES ASSUME NEW run \in [1..ConsecutiveBars -> TradingDays], ~Crossing, IsRun(run),
                    \A i \in DOMAIN run : Compare(Current(run[i]).value)
             PROVE  Current(run[ConsecutiveBars]).status = "invalidated"
  BY DEF RunOfHitsInvalidates
<1> DEFINE k == ConsecutiveBars
<1>1. k \in Nat \ {0} /\ k \in 1..k /\ DOMAIN run = 1..k
  BY InvalidationAssumption
<1>2. \A i \in 1..k : DayRows(run[i]) # {}
  BY <1>1 DEF IsRun, DayRows
<1>3. Hits(run, k)
  BY <1>1, <1>2 DEF IsRun, Hits
<1>4. Consecutive(run, k)
  <2> SUFFICES ASSUME NEW i \in 1..k, i # 1 PROVE Follows(run[i - 1], run[i])
    BY DEF Consecutive
  <2>1. i \in DOMAIN run \ {1} /\ i - 1 \in 1..k
    BY <1>1
  <2>2. run[i - 1] \in Weekdays
    BY <2>1
  <2> QED
    BY <2>1, <2>2 DEF IsRun, Follows
<1> DEFINE current == Current(run[k])
<1>5. current.status = "invalidated" \/ current.streak >= k
  BY <1>1, <1>3, <1>4 DEF Counted
<1>6. PICK i \in Recorded : current = rows[i]
  <2>1. DayRows(run[k]) \in SUBSET Recorded /\ DayRows(run[k]) # {}
    BY <1>1, <1>2 DEF DayRows
  <2>2. Newest(DayRows(run[k])) \in Recorded
    BY <2>1, NewestRow
  <2> QED
    BY <2>2 DEF Current, DayRows
<1>7. current.status \in Statuses /\ current.streak \in Nat
  BY <1>6, RowFacts DEF Inv, RowType
<1>8. current.status \in {"active", "unknown"} <=> current.streak = 0
  BY <1>6 DEF Inv, TypeOK
<1>9. current.status = "warning" => current.streak < k
  BY <1>6 DEF Counted
<1> HIDE DEF current
<1>10. current.status = "invalidated"
  BY <1>1, <1>5, <1>7, <1>8, <1>9 DEF Statuses
<1> QED
  BY <1>10 DEF current

(* Where no analysis lags and every weekday is a trading day, a run of as  *)
(* many hits as the rule asks for is reported as an invalidation.          *)
THEOREM RunsAreNoticed ==
  ASSUME ~Lagging, TradingDays = Weekdays
  PROVE  Spec => []RunOfHitsInvalidates
<1>1. Init => Inv /\ Timely /\ Counted
  BY InvInit, CountedInit
<1>2. Inv /\ Timely /\ Counted /\ [Next]_vars => (Inv /\ Timely /\ Counted)'
  BY InvNext, CountedNext
<1>3. Inv /\ Timely /\ Counted => RunOfHitsInvalidates
  BY CountedIsNoticed
<1> QED
  BY <1>1, <1>2, <1>3, PTL DEF Spec
=============================================================================
