------------------------- MODULE MainContractProofs -------------------------
(***************************************************************************)
(* Safety of the main-contract machine for every calendar, every set of    *)
(* curves and every confirmation length.                                   *)
(***************************************************************************)
EXTENDS MainContract, SequenceTheorems, TLAPS

(* A session of the calendar follows every day.                            *)
LEMMA NextTradingDayLater ==
  ASSUME NEW d \in Days
  PROVE  NextTradingDay(d) \in Nat /\ NextTradingDay(d) > d
BY CalendarAssumption DEF NextTradingDay

(* Every action appends one session and one record of the same day.        *)
Appends(d, c, r) ==
  /\ d \in Days
  /\ expanded # <<>> => d > expanded[Len(expanded)].date
  /\ expanded' = Append(expanded, [date |-> d, candidates |-> c])
  /\ records' = Append(records, r)
  /\ r.session_date = d
  /\ r.effective_session \in {NoDay, d, NextTradingDay(d)}

LEMMA StepAppends ==
  ASSUME TypeOK, Next
  PROVE  \E d \in Days : \E c \in CandidateSets \union {Missing} :
           \E r \in MappingRecords : Appends(d, c, r)
<1>1. PICK d \in Days :
        \/ MissingSession(d)
        \/ \E c \in CandidateSets :
             \/ Adopt(d, c) \/ Block(d, c) \/ EmergencyRoll(d, c)
             \/ KeepTop(d, c) \/ Challenge(d, c) \/ ConfirmRoll(d, c)
  BY DEF Next
<1>2. d \in Nat /\ NextTradingDay(d) \in Nat
  BY NextTradingDayLater, CalendarAssumption DEF Days
<1>3. Incumbent(d) \in Codes /\ NoContract \in Codes
  BY DEF Incumbent, TypeOK, Codes
<1>4. ASSUME MissingSession(d)
      PROVE  \E r \in MappingRecords : Appends(d, Missing, r)
  BY <1>2, <1>3, <1>4 DEF MissingSession, ComesNext, Replayed, Record, Appends, MappingRecords, Actions
<1>5. ASSUME NEW c \in CandidateSets,
             \/ Adopt(d, c) \/ Block(d, c) \/ EmergencyRoll(d, c)
             \/ KeepTop(d, c) \/ Challenge(d, c) \/ ConfirmRoll(d, c)
      PROVE  \E r \in MappingRecords : Appends(d, c, r)
  <2>1. RankedOf(c) \in Codes
    BY PolicyContract DEF Codes
  <2>2. StreakOf(d, RankedOf(c)) \in Nat
    BY DEF StreakOf, TypeOK
  <2>3. CASE Adopt(d, c)
    BY <1>2, <1>3, <2>1, <2>3 DEF Adopt, Observed, ComesNext, Replayed, Record, Appends, MappingRecords, Actions
  <2>4. CASE Block(d, c)
    BY <1>2, <1>3, <2>1, <2>4 DEF Block, Observed, ComesNext, Replayed, Record, Appends, MappingRecords, Actions
  <2>5. CASE EmergencyRoll(d, c)
    BY <1>2, <1>3, <2>1, <2>5 DEF EmergencyRoll, Observed, ComesNext, Replayed, Record, Appends, MappingRecords, Actions
  <2>6. CASE KeepTop(d, c)
    BY <1>2, <1>3, <2>1, <2>6 DEF KeepTop, Observed, ComesNext, Replayed, Record, Appends, MappingRecords, Actions
  <2>7. CASE Challenge(d, c)
    BY <1>2, <1>3, <2>1, <2>2, <2>7 DEF Challenge, Outranked, Observed, ComesNext, Replayed, Record, Appends, MappingRecords, Actions
  <2>8. CASE ConfirmRoll(d, c)
    BY <1>2, <1>3, <2>1, <2>2, <2>8 DEF ConfirmRoll, Outranked, Observed, ComesNext, Replayed, Record, Appends, MappingRecords, Actions
  <2>9. QED
    BY <1>5, <2>3, <2>4, <2>5, <2>6, <2>7, <2>8
<1>6. QED
  BY <1>1, <1>4, <1>5

(* The part of the type invariant that the branches of the code assign.    *)
RollTypeOK ==
  /\ effective \in Codes
  /\ pending \in Codes
  /\ pendingFrom \in IF pending = NoContract THEN {NoDay} ELSE Nat
  /\ challenger \in Codes
  /\ streak \in Nat

LEMMA TypeInit == Init => TypeOK
BY DEF Init, TypeOK, Codes

LEMMA TypeNext == TypeOK /\ [Next]_vars => TypeOK'
<1> SUFFICES ASSUME TypeOK, [Next]_vars PROVE TypeOK'
  OBVIOUS
<1>1. CASE UNCHANGED vars
  BY <1>1 DEF TypeOK, vars, MappingRecords, Codes, Actions
<1>2. CASE Next
  <2>1. PICK d \in Days, c \in CandidateSets \union {Missing}, r \in MappingRecords : Appends(d, c, r)
    BY <1>2, StepAppends
  <2>2. /\ expanded' \in Seq([date : Nat, candidates : CandidateSets \union {Missing}])
        /\ records' \in Seq(MappingRecords)
        /\ Len(records') = Len(expanded')
    BY <2>1, CalendarAssumption DEF Appends, TypeOK, Days
  <2>3. PICK e \in Days :
          \/ MissingSession(e)
          \/ \E k \in CandidateSets :
               \/ Adopt(e, k) \/ Block(e, k) \/ EmergencyRoll(e, k)
               \/ KeepTop(e, k) \/ Challenge(e, k) \/ ConfirmRoll(e, k)
    BY <1>2 DEF Next
  <2>4. RollTypeOK'
    <3>1. Incumbent(e) \in Codes /\ NoContract \in Codes
      BY DEF Incumbent, TypeOK, Codes
    <3>2. CASE MissingSession(e)
      BY <3>1, <3>2 DEF MissingSession, ConsumePending, NoChallenge, TypeOK, RollTypeOK
    <3>3. ASSUME NEW k \in CandidateSets,
                 Adopt(e, k) \/ Block(e, k) \/ EmergencyRoll(e, k) \/ KeepTop(e, k)
          PROVE  RollTypeOK'
      <4>1. RankedOf(k) \in Codes
        BY PolicyContract DEF Codes
      <4>2. QED
        BY <3>1, <3>3, <4>1 DEF Adopt, Block, EmergencyRoll, KeepTop, ConsumePending, NoChallenge, TypeOK, RollTypeOK
    <3>4. ASSUME NEW k \in CandidateSets, Challenge(e, k) \/ ConfirmRoll(e, k)
          PROVE  RollTypeOK'
      <4>1. RankedOf(k) \in Contracts
        BY <3>4, PolicyContract DEF Challenge, ConfirmRoll, Outranked
      <4>2. RankedOf(k) \in Codes /\ RankedOf(k) # NoContract
        BY <4>1, ContractAssumption DEF Codes
      <4>3. StreakOf(e, RankedOf(k)) \in Nat
        BY DEF StreakOf, TypeOK
      <4>4. NextTradingDay(e) \in Nat
        BY NextTradingDayLater
      <4>5. QED
        BY <3>1, <3>4, <4>2, <4>3, <4>4 DEF Challenge, ConfirmRoll, Outranked, ConsumePending, TypeOK, RollTypeOK
    <3>5. QED
      BY <2>3, <3>2, <3>3, <3>4
  <2>5. QED
    BY <2>2, <2>4 DEF TypeOK, RollTypeOK
<1>3. QED
  BY <1>1, <1>2

(* The machine's variables keep their types, and there is one record per   *)
(* session replayed.                                                       *)
THEOREM TypeCorrect == Spec => []TypeOK
BY TypeInit, TypeNext, PTL DEF Spec
-----------------------------------------------------------------------------
(* The strengthening of RollConfirmed: the running streak is witnessed by  *)
(* the last streak sessions, all of them lost by the incumbent in force to *)
(* the challenger.                                                         *)
StreakWitnessed ==
  /\ streak <= Len(records)
  /\ \A j \in (Len(records) - streak + 1)..Len(records) :
       OutrankedBy(j, effective, challenger)

(* Records carry the dates of their sessions, none later than the last.    *)
DatesOrdered ==
  \A i \in 1..Len(records) :
    /\ records[i].session_date = expanded[i].date
    /\ records[i].session_date <= expanded[Len(expanded)].date

IInv == TypeOK /\ StreakWitnessed /\ DatesOrdered /\ RollConfirmed

LEMMA HistoryKept ==
  ASSUME TypeOK, NEW d \in Days, NEW c \in CandidateSets \union {Missing},
         NEW r \in MappingRecords, Appends(d, c, r)
  PROVE  /\ Len(records) \in Nat
         /\ Len(records') = Len(records) + 1
         /\ Len(expanded') = Len(records) + 1
         /\ \A i \in 1..Len(records) : /\ records'[i] = records[i]
                                      /\ expanded'[i] = expanded[i]
         /\ records'[Len(records) + 1] = r
         /\ expanded'[Len(records) + 1] = [date |-> d, candidates |-> c]
BY DEF Appends, TypeOK

(* One session of a challenge extends the witnesses of the streak.         *)
LEMMA StreakExtended ==
  ASSUME IInv, NEW d \in Days, NEW c \in CandidateSets,
         Challenge(d, c) \/ ConfirmRoll(d, c)
  PROVE  StreakWitnessed'
<1>0. PICK n \in Nat : n = Len(records) + 1
  BY DEF IInv, TypeOK
<1>1. Outranked(d, c)
  BY DEF Challenge, ConfirmRoll
<1>2. PICK r \in MappingRecords : Appends(d, c, r) /\ r.effective_contract = effective'
  <2>1. Next
    BY DEF Next
  <2>2. PICK e \in Days, k \in CandidateSets \union {Missing}, r \in MappingRecords : Appends(e, k, r)
    BY <2>1, StepAppends DEF IInv
  <2>3. e = d /\ k = c
    BY <1>1, <2>2 DEF Outranked, Observed, Replayed, Appends, IInv, TypeOK
  <2>4. r.effective_contract = effective'
    BY <2>2 DEF Challenge, ConfirmRoll, Record, Appends, IInv, TypeOK
  <2>5. QED
    BY <2>2, <2>3, <2>4
<1>3. /\ n \in Nat /\ Len(records') = n
      /\ \A i \in 1..Len(records) : records'[i] = records[i] /\ expanded'[i] = expanded[i]
      /\ records'[n] = r
      /\ expanded'[n] = [date |-> d, candidates |-> c]
  BY <1>0, <1>2, HistoryKept DEF IInv
<1>4. OutrankedBy(n, effective, challenger)'
  BY <1>1, <1>2, <1>3, PolicyContract DEF Outranked, OutrankedBy
<1>5. CASE ~PendingDue(d) /\ challenger = RankedOf(c)
  <2>1. effective' = effective /\ challenger' = challenger /\ streak' = streak + 1
    BY <1>1, <1>5 DEF Outranked, Incumbent, StreakOf
  <2>2. \A j \in (Len(records) - streak + 1)..Len(records) : OutrankedBy(j, effective, challenger)'
    <3> TAKE j \in (Len(records) - streak + 1)..Len(records)
    <3>1. streak \in Nat /\ streak <= Len(records) /\ Len(records) \in Nat
      BY DEF IInv, StreakWitnessed, TypeOK
    <3>2. j \in 1..Len(records)
      BY <3>1
    <3>3. OutrankedBy(j, effective, challenger)
      BY DEF IInv, StreakWitnessed
    <3>4. QED
      BY <1>3, <2>1, <3>2, <3>3 DEF OutrankedBy
  <2>3. streak \in Nat /\ streak <= Len(records) /\ Len(records) \in Nat
    BY DEF IInv, StreakWitnessed, TypeOK
  <2>4. QED
    BY <1>0, <1>3, <1>4, <2>1, <2>2, <2>3 DEF StreakWitnessed
<1>6. CASE ~(~PendingDue(d) /\ challenger = RankedOf(c))
  <2>1. streak' = 1
    BY <1>1, <1>6 DEF Outranked, StreakOf
  <2>2. Len(records) \in Nat
    BY DEF IInv, TypeOK
  <2>3. QED
    BY <1>0, <1>3, <1>4, <2>1, <2>2 DEF StreakWitnessed
<1>7. QED
  BY <1>5, <1>6

LEMMA StreakNext == IInv /\ Next => StreakWitnessed'
<1> SUFFICES ASSUME IInv, Next PROVE StreakWitnessed'
  OBVIOUS
<1>1. Len(records') \in Nat
  <2>1. PICK d \in Days, c \in CandidateSets \union {Missing}, r \in MappingRecords : Appends(d, c, r)
    BY StepAppends DEF IInv
  <2>2. QED
    BY <2>1, HistoryKept DEF IInv
<1>2. CASE streak' = 0
  BY <1>1, <1>2 DEF StreakWitnessed
<1>3. CASE \E d \in Days : \E c \in CandidateSets : Challenge(d, c) \/ ConfirmRoll(d, c)
  BY <1>3, StreakExtended
<1>4. QED
  BY <1>2, <1>3 DEF Next, MissingSession, Adopt, Block, EmergencyRoll, KeepTop, NoChallenge

LEMMA DatesTyped ==
  ASSUME TypeOK, NEW i \in 1..Len(records)
  PROVE  /\ records[i].session_date \in Nat
         /\ expanded[Len(expanded)].date \in Nat
         /\ expanded # <<>>
<1>1. records[i] \in MappingRecords
  BY DEF TypeOK
<1>2. Len(expanded) \in 1..Len(expanded) /\ expanded # <<>>
  BY DEF TypeOK
<1>3. expanded[Len(expanded)] \in [date : Nat, candidates : CandidateSets \union {Missing}]
  BY <1>2, ElementOfSeq DEF TypeOK
<1>4. QED
  BY <1>1, <1>2, <1>3 DEF MappingRecords

LEMMA DatesNext == IInv /\ Next => DatesOrdered'
<1> SUFFICES ASSUME IInv, Next PROVE DatesOrdered'
  OBVIOUS
<1>1. PICK d \in Days, c \in CandidateSets \union {Missing}, r \in MappingRecords : Appends(d, c, r)
  BY StepAppends DEF IInv
<1>2. ASSUME NEW i \in 1..Len(records)
      PROVE  /\ records'[i] = records[i] /\ expanded'[i] = expanded[i]
             /\ records[i].session_date <= d
             /\ records[i].session_date = expanded[i].date
  <2>1. records'[i] = records[i] /\ expanded'[i] = expanded[i]
    BY <1>1, HistoryKept DEF IInv
  <2>2. expanded[Len(expanded)].date \in Nat /\ records[i].session_date \in Nat /\ d \in Nat
    BY DatesTyped, CalendarAssumption DEF IInv, Days
  <2>3. d > expanded[Len(expanded)].date
    BY <1>1, DatesTyped DEF Appends, IInv
  <2>4. QED
    BY <2>1, <2>2, <2>3 DEF IInv, DatesOrdered
<1>3. Len(records) \in Nat /\ d \in Nat
  BY CalendarAssumption DEF IInv, TypeOK, Days
<1>4. r.session_date = d
  BY <1>1 DEF Appends
<1>5. /\ Len(records') = Len(records) + 1
      /\ Len(expanded') = Len(records) + 1
      /\ records'[Len(records) + 1] = r
      /\ expanded'[Len(records) + 1] = [date |-> d, candidates |-> c]
  BY <1>1, HistoryKept DEF IInv
<1>6. QED
  BY <1>2, <1>3, <1>4, <1>5 DEF DatesOrdered

LEMMA RollConfirmedNext == IInv /\ Next => RollConfirmed'
<1> SUFFICES ASSUME IInv, Next, NEW i \in 1..Len(records'),
                    records'[i].action = "confirmed_roll"
             PROVE  Confirmed(i, records[i].effective_contract, records[i].decision_contract)'
  <2>1. DOMAIN records' = 1..Len(records')
    BY TypeNext DEF IInv, TypeOK
  <2>2. QED
    BY <2>1 DEF RollConfirmed
<1>1. PICK d \in Days, c \in CandidateSets \union {Missing}, r \in MappingRecords : Appends(d, c, r)
  BY StepAppends DEF IInv
<1>2. /\ Len(records) \in Nat
      /\ Len(records') = Len(records) + 1
      /\ \A j \in 1..Len(records) : records'[j] = records[j] /\ expanded'[j] = expanded[j]
      /\ records'[Len(records) + 1] = r
  BY <1>1, HistoryKept DEF IInv
<1>3. ConfirmationDays \in Nat \ {0}
  BY PolicyContract
<1>4. CASE i \in 1..Len(records)
  <2>1. Confirmed(i, records[i].effective_contract, records[i].decision_contract)
    BY <1>2, <1>4 DEF IInv, RollConfirmed, TypeOK
  <2>2. QED
    BY <1>2, <1>3, <1>4, <2>1 DEF Confirmed, OutrankedBy
<1>5. CASE i = Len(records) + 1
  <2>1. PICK e \in Days, k \in CandidateSets : ConfirmRoll(e, k)
    BY <1>1, <1>2, <1>5 DEF Next, MissingSession, Adopt, Block, EmergencyRoll, KeepTop,
                            Challenge, Record, IInv, TypeOK
  <2>2. /\ records'[i].effective_contract = effective'
        /\ records'[i].decision_contract = challenger'
        /\ streak' >= ConfirmationDays
    BY <1>2, <1>5, <2>1 DEF ConfirmRoll, Record, IInv, TypeOK
  <2>3. StreakWitnessed'
    BY StreakNext
  <2>4. streak' \in Nat
    BY TypeNext DEF IInv, TypeOK
  <2>5. QED
    BY <1>2, <1>3, <1>5, <2>2, <2>3, <2>4 DEF StreakWitnessed, Confirmed
<1>6. QED
  BY <1>2, <1>4, <1>5

LEMMA InvInit == Init => IInv
BY TypeInit DEF Init, IInv, StreakWitnessed, DatesOrdered, RollConfirmed

LEMMA InvNext == IInv /\ [Next]_vars => IInv'
<1>1. CASE Next
  BY <1>1, TypeNext, StreakNext, DatesNext, RollConfirmedNext DEF IInv
<1>2. CASE UNCHANGED vars
  BY <1>2, TypeNext DEF IInv, vars, StreakWitnessed, DatesOrdered, RollConfirmed, Confirmed, OutrankedBy
<1>3. QED
  BY <1>1, <1>2

(* For every calendar and every N: no roll is decided without N sessions   *)
(* in a row in which the challenger outranked the incumbent.               *)
THEOREM RollsAreConfirmed == Spec => []RollConfirmed
<1>1. Spec => []IInv
  BY InvInit, InvNext, PTL DEF Spec
<1>2. IInv => RollConfirmed
  BY DEF IInv
<1>3. QED
  BY <1>1, <1>2, PTL
-----------------------------------------------------------------------------
(* A session adds no row that is in force on an earlier day.               *)
LEMMA RowsKept ==
  ASSUME IInv, Next, NEW i \in DOMAIN records
  PROVE  EffectiveMapping(records', records[i].session_date)
           = EffectiveMapping(records, records[i].session_date)
<1> DEFINE day == records[i].session_date
<1>1. PICK d \in Days, c \in CandidateSets \union {Missing}, r \in MappingRecords : Appends(d, c, r)
  BY StepAppends DEF IInv
<1>2. /\ Len(records) \in Nat
      /\ DOMAIN records = 1..Len(records)
      /\ DOMAIN records' = 1..(Len(records) + 1)
      /\ \A j \in 1..Len(records) : records'[j] = records[j]
      /\ records'[Len(records) + 1] = r
  <2>1. records \in Seq(MappingRecords) /\ records' \in Seq(MappingRecords)
    BY TypeNext DEF IInv, TypeOK
  <2>2. DOMAIN records = 1..Len(records) /\ DOMAIN records' = 1..Len(records')
    BY <2>1
  <2>3. /\ Len(records) \in Nat
        /\ Len(records') = Len(records) + 1
        /\ \A j \in 1..Len(records) : records'[j] = records[j]
        /\ records'[Len(records) + 1] = r
    BY <1>1, HistoryKept DEF IInv
  <2>4. QED
    BY <2>2, <2>3
<1>3. day \in Nat /\ d \in Nat /\ day < d
  <2>1. expanded[Len(expanded)].date \in Nat /\ day \in Nat /\ d \in Nat
    BY <1>2, DatesTyped, CalendarAssumption DEF IInv, Days
  <2>2. d > expanded[Len(expanded)].date
    BY <1>1, <1>2, DatesTyped DEF Appends, IInv
  <2>3. QED
    BY <1>2, <2>1, <2>2 DEF IInv, DatesOrdered
<1>4. MappingRow(r).effective_session \in Nat /\ MappingRow(r).effective_session > day
  BY <1>1, <1>3, NextTradingDayLater, CalendarAssumption DEF MappingRow, Appends, MappingRecords
<1>5. RowsInForce(records', day) = RowsInForce(records, day)
  BY <1>2, <1>3, <1>4 DEF RowsInForce
<1>6. \A j \in RowsInForce(records, day) : MappingRow(records'[j]) = MappingRow(records[j])
  BY <1>2 DEF RowsInForce
<1>7. {MappingRow(records'[j]) : j \in RowsInForce(records', day)}
        = {MappingRow(records[j]) : j \in RowsInForce(records, day)}
  BY <1>5, <1>6
<1>8. QED
  BY <1>7 DEF EffectiveMapping

(* For every calendar: no session rewrites the mapping of an earlier one.  *)
THEOREM MappingIsNotRewritten == Spec => MappingNotRewritten
<1>1. IInv /\ [Next]_vars =>
        [\A i \in DOMAIN records :
           LET day == records[i].session_date
           IN  EffectiveMapping(records', day) = EffectiveMapping(records, day)]_vars
  BY RowsKept
<1>2. QED
  BY <1>1, InvInit, InvNext, PTL DEF Spec, MappingNotRewritten
-----------------------------------------------------------------------------
(* Where every session has a date of the calendar: what a step does to the *)
(* state and to the records.                                               *)
Quiet(d, r) ==
  /\ ConsumePending(d)
  /\ r.action # "confirmed_roll" /\ r.effective_session \in {NoDay, d}

Takes(d, c, r) ==
  /\ Quiet(d, r) /\ c \in CandidateSets
  /\ effective' = RankedOf(c) /\ effective' \in EligibleOf(c) /\ streak' = 0
  /\ r.action = "emergency_roll" \/ (Incumbent(d) = NoContract /\ r.effective_session = d)

Blocks(d, r) ==
  Quiet(d, r) /\ effective' = NoContract /\ streak' = 0 /\ r.action = "blocked"

Keeps(d, c, r) ==
  /\ Quiet(d, r)
  /\ effective' = Incumbent(d) /\ streak' = 0
  /\ c = Missing \/ (effective' \in EligibleOf(c) /\ RankedOf(c) = effective')

Challenges(d, c, r) ==
  Quiet(d, r) /\ Outranked(d, c) /\ streak' < ConfirmationDays

Confirms(d, c, r) ==
  /\ Outranked(d, c) /\ streak' >= ConfirmationDays
  /\ pending' = challenger' /\ pendingFrom' = NextTradingDay(d)
  /\ r.action = "confirmed_roll" /\ r.decision_contract = pending'
  /\ r.effective_session = pendingFrom'

Step(d, c, r) ==
  /\ Appends(d, c, r) /\ r.effective_contract = effective'
  /\ \/ Takes(d, c, r) \/ Blocks(d, r) \/ Keeps(d, c, r)
     \/ c \in CandidateSets /\ (Challenges(d, c, r) \/ Confirms(d, c, r))

LEMMA LastOfAppend ==
  ASSUME TypeOK, NEW x, NEW y, Append(records, x) = Append(records, y)
  PROVE  x = y
<1>1. Len(records) \in Nat /\ records \in Seq(MappingRecords)
  BY DEF TypeOK
<1>2. /\ Append(records, x)[Len(records) + 1] = x
      /\ Append(records, y)[Len(records) + 1] = y
  BY <1>1
<1> QED
  BY <1>2

LEMMA StepTells ==
  ASSUME TypeOK, Next
  PROVE  \E d \in Days : \E c \in CandidateSets \union {Missing} : \E r \in MappingRecords :
           /\ Step(d, c, r) /\ ComesNext(d)
           /\ d \in SessionDays \/ (expanded # <<>> => d = NextTradingDay(expanded[Len(expanded)].date))
<1>1. PICK d \in Days, c \in CandidateSets \union {Missing}, r \in MappingRecords : Appends(d, c, r)
  BY StepAppends
<1>0. ASSUME NEW e, NEW eff, NEW from, NEW action, NEW days, NEW decision,
             Record(e, eff, from, action, days, decision)
      PROVE  r = [session_date |-> e, effective_contract |-> eff, effective_session |-> from,
                  action |-> action, challenger_streak |-> days, decision_contract |-> decision]
  <2>1. PICK x : x = [session_date |-> e, effective_contract |-> eff, effective_session |-> from,
                      action |-> action, challenger_streak |-> days, decision_contract |-> decision]
    OBVIOUS
  <2>2. Append(records, r) = Append(records, x)
    BY <1>0, <1>1, <2>1 DEF Record, Appends
  <2> QED
    BY <2>1, <2>2, LastOfAppend
<1>2. PICK e \in Days :
        \/ MissingSession(e)
        \/ \E k \in CandidateSets :
             \/ Adopt(e, k) \/ Block(e, k) \/ EmergencyRoll(e, k)
             \/ KeepTop(e, k) \/ Challenge(e, k) \/ ConfirmRoll(e, k)
  BY DEF Next
<1>3. CASE MissingSession(e)
  <2>1. e = d /\ c = Missing
    BY <1>1, <1>3 DEF MissingSession, Replayed, Appends, TypeOK
  <2>2. r = [session_date |-> e, effective_contract |-> effective', effective_session |-> NoDay,
             action |-> "keep", challenger_streak |-> 0, decision_contract |-> effective']
    BY <1>0, <1>3 DEF MissingSession
  <2>3. Keeps(d, c, r) /\ r.effective_contract = effective'
    BY <1>3, <2>1, <2>2 DEF MissingSession, NoChallenge, Keeps, Quiet
  <2> QED
    BY <1>1, <1>3, <2>1, <2>3 DEF MissingSession, Step
<1>4. ASSUME NEW k \in CandidateSets,
             \/ Adopt(e, k) \/ Block(e, k) \/ EmergencyRoll(e, k)
             \/ KeepTop(e, k) \/ Challenge(e, k) \/ ConfirmRoll(e, k)
      PROVE  Step(d, c, r) /\ ComesNext(d) /\ d \in SessionDays
  <2>1. Observed(e, k)
    BY <1>4 DEF Adopt, Block, EmergencyRoll, KeepTop, Challenge, ConfirmRoll, Outranked
  <2>2. e = d /\ c = k
    BY <1>1, <2>1 DEF Observed, Replayed, Appends, TypeOK
  <2>3. RankedOf(k) # NoContract => RankedOf(k) \in EligibleOf(k)
    BY PolicyContract
  <2>4. CASE Adopt(e, k)
    <3>1. r = [session_date |-> e, effective_contract |-> effective', effective_session |-> e,
               action |-> "keep", challenger_streak |-> 0, decision_contract |-> effective']
      BY <1>0, <2>4 DEF Adopt
    <3>2. Takes(d, c, r) /\ r.effective_contract = effective'
      BY <2>2, <2>3, <2>4, <3>1 DEF Adopt, NoChallenge, Takes, Quiet
    <3> QED
      BY <1>1, <2>1, <2>2, <3>2 DEF Step, Observed
  <2>5. CASE Block(e, k)
    <3>1. r = [session_date |-> e, effective_contract |-> NoContract, effective_session |-> NoDay,
               action |-> "blocked", challenger_streak |-> 0, decision_contract |-> NoContract]
      BY <1>0, <2>5 DEF Block
    <3>2. Blocks(d, r) /\ r.effective_contract = effective'
      BY <2>2, <2>5, <3>1 DEF Block, NoChallenge, Blocks, Quiet
    <3> QED
      BY <1>1, <2>1, <2>2, <3>2 DEF Step, Observed
  <2>6. CASE EmergencyRoll(e, k)
    <3>1. r = [session_date |-> e, effective_contract |-> effective', effective_session |-> e,
               action |-> "emergency_roll", challenger_streak |-> 0, decision_contract |-> effective']
      BY <1>0, <2>6 DEF EmergencyRoll
    <3>2. Takes(d, c, r) /\ r.effective_contract = effective'
      BY <2>2, <2>3, <2>6, <3>1 DEF EmergencyRoll, NoChallenge, Takes, Quiet
    <3> QED
      BY <1>1, <2>1, <2>2, <3>2 DEF Step, Observed
  <2>7. CASE KeepTop(e, k)
    <3>1. r = [session_date |-> e, effective_contract |-> effective', effective_session |-> NoDay,
               action |-> "keep", challenger_streak |-> 0, decision_contract |-> effective']
      BY <1>0, <2>7 DEF KeepTop
    <3>2. Keeps(d, c, r) /\ r.effective_contract = effective'
      BY <2>2, <2>7, <3>1 DEF KeepTop, NoChallenge, Keeps, Quiet
    <3> QED
      BY <1>1, <2>1, <2>2, <3>2 DEF Step, Observed
  <2>8. CASE Challenge(e, k)
    <3>1. r = [session_date |-> e, effective_contract |-> effective', effective_session |-> NoDay,
               action |-> "keep", challenger_streak |-> streak', decision_contract |-> effective']
      BY <1>0, <2>8 DEF Challenge
    <3>2. Challenges(d, c, r) /\ r.effective_contract = effective'
      BY <2>2, <2>8, <3>1 DEF Challenge, Challenges, Quiet
    <3> QED
      BY <1>1, <2>1, <2>2, <3>2 DEF Step, Observed
  <2>9. CASE ConfirmRoll(e, k)
    <3>1. r = [session_date |-> e, effective_contract |-> effective', effective_session |-> pendingFrom',
               action |-> "confirmed_roll", challenger_streak |-> streak', decision_contract |-> pending']
      BY <1>0, <2>9 DEF ConfirmRoll
    <3>2. Confirms(d, c, r) /\ r.effective_contract = effective'
      BY <2>2, <2>9, <3>1 DEF ConfirmRoll, Confirms
    <3> QED
      BY <1>1, <2>1, <2>2, <3>2 DEF Step, Observed
  <2> QED
    BY <1>4, <2>4, <2>5, <2>6, <2>7, <2>8, <2>9
<1> QED
  BY <1>2, <1>3, <1>4

(* The last session, in state and in record: a confirmed roll waits for    *)
(* the very next session, and for no other.                                *)
Told ==
  /\ records = <<>> => effective = NoContract /\ pending = NoContract
  /\ records # <<>> =>
       LET r == records[Len(records)]
       IN  /\ expanded[Len(expanded)].date \in Days
           /\ r.session_date = expanded[Len(expanded)].date
           /\ r.effective_contract = effective
           /\ r.action = "confirmed_roll" <=> pending # NoContract
           /\ pending # NoContract =>
                /\ r.decision_contract = pending /\ r.effective_session = pendingFrom
                /\ pendingFrom = NextTradingDay(r.session_date)
                /\ pending # effective

(* The session comes at once after the last: a pending roll is due.        *)
LEMMA ComesAtOnce ==
  ASSUME OnCalendar, IInv, Told, NEW d \in Days, ComesNext(d), records # <<>>,
         d \in SessionDays \/ (expanded # <<>> => d = NextTradingDay(expanded[Len(expanded)].date))
  PROVE  /\ d = NextTradingDay(records[Len(records)].session_date)
         /\ d > records[Len(records)].session_date
         /\ pending # NoContract => PendingDue(d) /\ d = pendingFrom
<1> DEFINE e == expanded[Len(expanded)].date
<1>1. e \in Days /\ records[Len(records)].session_date = e
  BY DEF Told
<1>2. expanded # <<>>
  BY DEF IInv, TypeOK
<1>3. d > e /\ d <= NextTradingDay(e) /\ NextTradingDay(e) \in Nat /\ d \in Nat
  BY <1>1, <1>2, NextTradingDayLater, CalendarAssumption DEF ComesNext, Days
<1>4. d = NextTradingDay(e)
  <2>1. CASE d \in SessionDays
    <3>1. d \in TradingDays
      BY <2>1 DEF OnCalendar
    <3>2. NextTradingDay(e) <= d
      BY <1>1, <1>3, <3>1, CalendarAssumption DEF NextTradingDay
    <3> QED
      BY <1>3, <3>2
  <2> QED
    BY <1>2, <2>1
<1> HIDE DEF e
<1>5. pending # NoContract => d = pendingFrom
  BY <1>1, <1>4 DEF Told
<1> QED
  BY <1>1, <1>3, <1>4, <1>5 DEF PendingDue

(* A step, with what ComesAtOnce and HistoryKept say of it.                *)
Session(d, c, r, n) ==
  /\ n = Len(records) /\ n \in Nat
  /\ d \in Days /\ c \in CandidateSets \union {Missing} /\ r \in MappingRecords
  /\ Step(d, c, r)
  /\ Len(records') = n + 1 /\ Len(expanded') = n + 1
  /\ DOMAIN records = 1..n /\ DOMAIN records' = 1..(n + 1)
  /\ \A i \in 1..n : records'[i] = records[i] /\ expanded'[i] = expanded[i]
  /\ records'[n + 1] = r /\ expanded'[n + 1] = [date |-> d, candidates |-> c]
  /\ n # 0 => /\ records # <<>>
              /\ d = NextTradingDay(records[n].session_date)
              /\ d > records[n].session_date
              /\ pending # NoContract => PendingDue(d) /\ d = pendingFrom
  /\ n = 0 => records = <<>> /\ effective = NoContract /\ pending = NoContract

LEMMA SessionIs ==
  ASSUME OnCalendar, IInv, Told, Next
  PROVE  \E d, c, r, n : Session(d, c, r, n)
<1>0. TypeOK
  BY DEF IInv
<1>1. PICK d \in Days, c \in CandidateSets \union {Missing}, r \in MappingRecords :
        /\ Step(d, c, r) /\ ComesNext(d)
        /\ d \in SessionDays \/ (expanded # <<>> => d = NextTradingDay(expanded[Len(expanded)].date))
  BY <1>0, StepTells
<1>2. PICK n : n = Len(records)
  OBVIOUS
<1>3. /\ n \in Nat /\ Len(records') = n + 1 /\ Len(expanded') = n + 1
      /\ \A i \in 1..n : records'[i] = records[i] /\ expanded'[i] = expanded[i]
      /\ records'[n + 1] = r /\ expanded'[n + 1] = [date |-> d, candidates |-> c]
  BY <1>0, <1>1, <1>2, HistoryKept DEF Step
<1>4. DOMAIN records = 1..n /\ DOMAIN records' = 1..(n + 1)
  <2>1. records \in Seq(MappingRecords) /\ records' \in Seq(MappingRecords)
    BY TypeNext DEF IInv, TypeOK
  <2> QED
    BY <1>2, <1>3, <2>1
<1>5. n # 0 => records # <<>>
  BY <1>2
<1>6. n = 0 => records = <<>>
  BY <1>0, <1>2 DEF TypeOK
<1>7. n # 0 => /\ d = NextTradingDay(records[n].session_date)
               /\ d > records[n].session_date
               /\ pending # NoContract => PendingDue(d) /\ d = pendingFrom
  BY <1>1, <1>2, <1>5, ComesAtOnce
<1>8. n = 0 => effective = NoContract /\ pending = NoContract
  BY <1>6 DEF Told
<1> QED
  BY <1>1, <1>2, <1>3, <1>4, <1>5, <1>6, <1>7, <1>8 DEF Session

(* No roll waits after a session that confirms none.                       *)
LEMMA Consumed ==
  ASSUME IInv, NEW d, NEW c, NEW r, NEW n, Session(d, c, r, n), ConsumePending(d)
  PROVE  pending' = NoContract
BY DEF Session, ConsumePending, IInv, TypeOK

LEMMA ToldNext == OnCalendar /\ IInv /\ Told /\ Next => Told'
<1> SUFFICES ASSUME OnCalendar, IInv, Told, Next PROVE Told'
  OBVIOUS
<1>1. PICK d, c, r, n : Session(d, c, r, n)
  BY SessionIs
<1>2. /\ records' # <<>> /\ records'[Len(records')] = r
      /\ expanded'[Len(expanded')].date = d /\ d \in Days
      /\ r.session_date = d /\ r.effective_contract = effective'
  BY <1>1 DEF Session, Step, Appends
<1>3. CASE r.action # "confirmed_roll" /\ ConsumePending(d)
  BY <1>1, <1>2, <1>3, Consumed DEF Told
<1>4. CASE c \in CandidateSets /\ Confirms(d, c, r)
  <2>1. RankedOf(c) \in Contracts /\ RankedOf(c) # effective'
    BY <1>4, PolicyContract DEF Confirms, Outranked
  <2>2. pending' = RankedOf(c) /\ pending' # NoContract
    BY <1>4, <2>1, ContractAssumption DEF Confirms, Outranked
  <2>3. /\ pendingFrom' = NextTradingDay(d) /\ r.action = "confirmed_roll"
        /\ r.decision_contract = pending' /\ r.effective_session = pendingFrom'
    BY <1>4 DEF Confirms
  <2> QED
    BY <1>2, <2>1, <2>2, <2>3 DEF Told
<1> QED
  BY <1>1, <1>3, <1>4 DEF Session, Step, Takes, Blocks, Keeps, Challenges, Quiet

LEMMA EligibleNext == OnCalendar /\ IInv /\ Told /\ IncumbentEligible /\ Next => IncumbentEligible'
<1> SUFFICES ASSUME OnCalendar, IInv, Told, IncumbentEligible, Next PROVE IncumbentEligible'
  OBVIOUS
<1>1. PICK d, c, r, n : Session(d, c, r, n)
  BY SessionIs
<1>2. c # Missing /\ r.effective_contract # NoContract => r.effective_contract \in EligibleOf(c)
  BY <1>1 DEF Session, Step, Takes, Blocks, Keeps, Challenges, Confirms, Outranked
<1>3. n \in Nat /\ \A i \in 1..(n + 1) : i \in 1..n \/ i = n + 1
  BY <1>1 DEF Session
<1>4. \A i \in 1..n :
        records'[i].effective_contract # NoContract /\ expanded'[i].candidates # Missing
          => records'[i].effective_contract \in EligibleOf(expanded'[i].candidates)
  BY <1>1 DEF Session, IncumbentEligible
<1>5. /\ records'[n + 1] = r /\ expanded'[n + 1].candidates = c
      /\ DOMAIN records' = 1..(n + 1)
  BY <1>1 DEF Session
<1> QED
  BY <1>2, <1>3, <1>4, <1>5 DEF IncumbentEligible

LEMMA SwitchNext == OnCalendar /\ IInv /\ Told /\ SwitchAnnounced /\ Next => SwitchAnnounced'
<1> SUFFICES ASSUME OnCalendar, IInv, Told, SwitchAnnounced, Next PROVE SwitchAnnounced'
  OBVIOUS
<1>1. PICK d, c, r, n : Session(d, c, r, n)
  BY SessionIs
<1>2. /\ n \in Nat /\ Len(records) = n /\ Len(records') = n + 1
      /\ records'[n + 1] = r /\ r.session_date = d
      /\ \A i \in 1..n : records'[i] = records[i]
  BY <1>1 DEF Session, Step, Appends
<1>3. SUFFICES ASSUME NEW i \in 2..(n + 1),
                      records'[i].effective_contract # records'[i - 1].effective_contract
               PROVE  LET before == records'[i - 1]
                          now == records'[i]
                      IN  \/ now.action \in {"emergency_roll", "blocked"}
                          \/ /\ before.effective_contract = NoContract
                             /\ now.effective_session = now.session_date
                          \/ /\ before.action = "confirmed_roll"
                             /\ before.decision_contract = now.effective_contract
                             /\ before.effective_session = now.session_date
  BY <1>2 DEF SwitchAnnounced
<1>4. CASE i \in 2..n
  <2>1. i \in 1..n /\ i - 1 \in 1..n
    BY <1>2, <1>4
  <2> QED
    BY <1>2, <1>3, <1>4, <2>1 DEF SwitchAnnounced
<1>5. CASE i = n + 1
  <2> DEFINE before == records[n]
  <2>1. n # 0 /\ i - 1 = n /\ n \in 1..n /\ records'[i - 1] = before /\ records'[i] = r
    BY <1>2, <1>5
  <2>2. before.effective_contract = effective /\ r.effective_contract = effective'
    BY <1>1, <1>2, <2>1 DEF Told, Session, Step
  <2>3. effective' # effective
    BY <1>3, <2>1, <2>2
  <2>4. CASE Takes(d, c, r)
    <3>1. CASE r.action = "emergency_roll"
      BY <2>1, <3>1
    <3>2. CASE Incumbent(d) = NoContract /\ r.effective_session = d
      <4>1. effective = NoContract
        BY <1>1, <2>1, <3>2 DEF Incumbent, Session, PendingDue
      <4> QED
        BY <1>2, <2>1, <2>2, <3>2, <4>1
    <3> QED
      BY <2>4, <3>1, <3>2 DEF Takes
  <2>5. CASE Blocks(d, r)
    BY <2>1, <2>5 DEF Blocks
  <2>6. CASE effective' = Incumbent(d)
    <3>1. PendingDue(d) /\ effective' = pending /\ pending # NoContract
      BY <2>3, <2>6 DEF Incumbent, PendingDue
    <3>2. /\ before.action = "confirmed_roll" /\ before.decision_contract = pending
          /\ before.effective_session = pendingFrom
      BY <1>1, <1>2, <2>1, <3>1 DEF Told, Session
    <3>3. pendingFrom = d
      BY <1>1, <2>1, <3>1 DEF Session
    <3> QED
      BY <1>2, <2>1, <2>2, <3>1, <3>2, <3>3
  <2> QED
    BY <1>1, <2>4, <2>5, <2>6 DEF Session, Step, Keeps, Challenges, Confirms, Outranked
<1> QED
  BY <1>2, <1>4, <1>5

(* The converse of StreakWitnessed: sessions lost in a row to the same     *)
(* challenger are counted, all of them.                                    *)
Counts ==
  \A k \in 1..Len(records) : \A incumbent, top \in Contracts :
    (\A j \in (Len(records) - k + 1)..Len(records) : OutrankedBy(j, incumbent, top))
      => challenger = top /\ streak >= k

(* Only an Outranked step lets the incumbent lose the session.             *)
LEMMA LostSession ==
  ASSUME IInv, NEW d, NEW c, NEW r, NEW n, Session(d, c, r, n),
         NEW incumbent \in Contracts, NEW top \in Contracts,
         OutrankedBy(n + 1, incumbent, top)'
  PROVE  /\ c \in CandidateSets /\ (Challenges(d, c, r) \/ Confirms(d, c, r))
         /\ effective' = incumbent /\ RankedOf(c) = top /\ challenger' = top
         /\ streak' = StreakOf(d, top) /\ Incumbent(d) = incumbent
<1>1. /\ records'[n + 1] = r /\ expanded'[n + 1].candidates = c
      /\ r.effective_contract = effective' /\ incumbent # NoContract
  BY ContractAssumption DEF Session, Step
<1>2. /\ c # Missing /\ effective' = incumbent /\ incumbent \in EligibleOf(c)
      /\ RankedOf(c) = top /\ top # incumbent
  BY <1>1 DEF OutrankedBy
<1>3. c \in CandidateSets /\ (Challenges(d, c, r) \/ Confirms(d, c, r))
  BY <1>1, <1>2 DEF Session, Step, Takes, Blocks, Keeps
<1> QED
  BY <1>2, <1>3 DEF Challenges, Confirms, Outranked

LEMMA CountsNext == OnCalendar /\ IInv /\ Told /\ Counts /\ Next => Counts'
<1> SUFFICES ASSUME OnCalendar, IInv, Told, Counts, Next PROVE Counts'
  OBVIOUS
<1>1. PICK d, c, r, n : Session(d, c, r, n)
  BY SessionIs
<1>2. n \in Nat /\ Len(records) = n /\ Len(records') = n + 1
  BY <1>1 DEF Session
<1>3. SUFFICES ASSUME NEW k \in 1..(n + 1), NEW incumbent \in Contracts, NEW top \in Contracts,
                      \A j \in ((n + 1) - k + 1)..(n + 1) : OutrankedBy(j, incumbent, top)'
               PROVE  challenger' = top /\ streak' >= k
  BY <1>2 DEF Counts
<1>4. OutrankedBy(n + 1, incumbent, top)'
  BY <1>2, <1>3
<1>5. /\ challenger' = top /\ streak' = StreakOf(d, top) /\ Incumbent(d) = incumbent
  BY <1>1, <1>4, LostSession
<1>6. streak \in Nat
  BY DEF IInv, TypeOK
<1>7. CASE k = 1
  BY <1>5, <1>6, <1>7 DEF StreakOf
<1>8. CASE k # 1
  <2>1. k - 1 \in 1..n /\ n \in (n - (k - 1) + 1)..n /\ n # 0 /\ n \in 1..n
    BY <1>2, <1>3, <1>8
  <2>2. \A j \in (n - (k - 1) + 1)..n : OutrankedBy(j, incumbent, top)
    <3> SUFFICES ASSUME NEW j \in (n - (k - 1) + 1)..n PROVE OutrankedBy(j, incumbent, top)
      OBVIOUS
    <3>1. j \in ((n + 1) - k + 1)..(n + 1) /\ j \in 1..n
      BY <1>2
    <3>2. records'[j] = records[j] /\ expanded'[j] = expanded[j]
      BY <1>1, <3>1 DEF Session
    <3> QED
      BY <1>3, <3>1, <3>2 DEF OutrankedBy
  <2>3. challenger = top /\ streak >= k - 1
    BY <1>2, <2>1, <2>2 DEF Counts
  <2>4. records[n].effective_contract = incumbent
    BY <2>1, <2>2 DEF OutrankedBy
  <2>5. effective = incumbent
    BY <1>1, <1>2, <2>1, <2>4 DEF Told, Session
  <2>6. ~PendingDue(d)
    BY <1>1, <1>2, <1>5, <2>1, <2>5 DEF Told, Session, PendingDue, Incumbent
  <2>7. streak' = streak + 1
    BY <1>5, <2>3, <2>6 DEF StreakOf
  <2> QED
    BY <1>3, <1>5, <1>6, <2>3, <2>7
<1> QED
  BY <1>7, <1>8

LEMMA NotMissedNext ==
  OnCalendar /\ IInv /\ Told /\ Counts /\ RollNotMissed /\ Next => RollNotMissed'
<1> SUFFICES ASSUME OnCalendar, IInv, Told, Counts, RollNotMissed, Next PROVE RollNotMissed'
  OBVIOUS
<1>1. PICK d, c, r, n : Session(d, c, r, n)
  BY SessionIs
<1>2. /\ n \in Nat /\ Len(records) = n /\ Len(records') = n + 1
      /\ DOMAIN records = 1..n /\ DOMAIN records' = 1..(n + 1)
      /\ records'[n + 1] = r
      /\ \A i \in 1..n : records'[i] = records[i] /\ expanded'[i] = expanded[i]
  BY <1>1 DEF Session
<1>3. ConfirmationDays \in Nat \ {0}
  BY PolicyContract
<1>4. SUFFICES ASSUME NEW i \in 1..(n + 1), NEW incumbent \in Contracts, NEW top \in Contracts,
                      Confirmed(i, incumbent, top)'
               PROVE  /\ records'[i].action = "confirmed_roll"
                      /\ records'[i].decision_contract = top
  BY <1>2 DEF RollNotMissed
<1>5. CASE i \in 1..n
  <2>1. \A j \in (i - ConfirmationDays + 1)..i : j \in 1..n
    BY <1>2, <1>3, <1>4, <1>5 DEF Confirmed
  <2>2. Confirmed(i, incumbent, top)
    BY <1>2, <1>4, <2>1 DEF Confirmed, OutrankedBy
  <2> QED
    BY <1>2, <1>5, <2>2 DEF RollNotMissed
<1>6. CASE i = n + 1
  <2>1. /\ ConfirmationDays \in 1..(n + 1) /\ n + 1 \in ((n + 1) - ConfirmationDays + 1)..(n + 1)
        /\ \A j \in ((n + 1) - ConfirmationDays + 1)..(n + 1) : OutrankedBy(j, incumbent, top)'
    BY <1>2, <1>3, <1>4, <1>6 DEF Confirmed
  <2>2. challenger' = top /\ streak' >= ConfirmationDays
    BY <1>2, <2>1, CountsNext DEF Counts
  <2>3. c \in CandidateSets /\ (Challenges(d, c, r) \/ Confirms(d, c, r))
    BY <1>1, <2>1, LostSession
  <2>4. streak' \in Nat
    BY TypeNext DEF IInv, TypeOK
  <2>5. Confirms(d, c, r)
    BY <1>3, <2>2, <2>3, <2>4 DEF Challenges
  <2> QED
    BY <1>2, <1>6, <2>2, <2>5 DEF Confirms
<1> QED
  BY <1>2, <1>5, <1>6
-----------------------------------------------------------------------------
(* Rows are written in the order in which they come into force.            *)
RowOrder ==
  \A i \in 1..Len(records) :
    /\ records[i].effective_session \in {NoDay, records[i].session_date,
                                        NextTradingDay(records[i].session_date)}
    /\ i # Len(records) =>
         /\ records[i].session_date < records[Len(records)].session_date
         /\ MappingRow(records[i]).effective_session <= records[Len(records)].session_date

(* The row in force is the one that every other in force comes before.     *)
LEMMA RowInForceIs ==
  ASSUME NEW recs, NEW day, NEW k \in RowsInForce(recs, day),
         \A i \in RowsInForce(recs, day) :
           /\ MappingRow(recs[i]).effective_session \in Nat
           /\ MappingRow(recs[i]).decision_date \in Nat
           /\ MappingRow(recs[i]).effective_session <= MappingRow(recs[k]).effective_session
           /\ i # k => MappingRow(recs[i]).decision_date < MappingRow(recs[k]).decision_date
  PROVE  EffectiveMapping(recs, day) = MappingRow(recs[k])
<1> DEFINE eligible == {MappingRow(recs[i]) : i \in RowsInForce(recs, day)}
           Before(m, n) == \/ m.effective_session > n.effective_session
                           \/ /\ m.effective_session = n.effective_session
                              /\ m.decision_date >= n.decision_date
<1>1. PICK best : best = MappingRow(recs[k])
  OBVIOUS
<1>2. /\ best \in eligible /\ best.effective_session \in Nat /\ best.decision_date \in Nat
      /\ \A m \in eligible : /\ m.effective_session \in Nat /\ m.decision_date \in Nat
                             /\ m.effective_session <= best.effective_session
                             /\ m = best \/ m.decision_date < best.decision_date
  BY <1>1
<1> HIDE DEF eligible
<1>3. \A n \in eligible : Before(best, n)
  BY <1>2
<1>4. \A m \in eligible : (\A n \in eligible : Before(m, n)) => m = best
  BY <1>2
<1>5. (CHOOSE m \in eligible : \A n \in eligible : Before(m, n)) = best
  BY <1>2, <1>3, <1>4
<1> QED
  BY <1>1, <1>5 DEF EffectiveMapping, eligible

(* The row of a record, and its types.                                     *)
LEMMA RowOf ==
  ASSUME NEW r \in MappingRecords
  PROVE  /\ MappingRow(r).decision_date = r.session_date /\ r.session_date \in Nat
         /\ MappingRow(r).effective_session \in Nat
         /\ MappingRow(r).effective_session =
              IF r.effective_session = NoDay THEN r.session_date ELSE r.effective_session
         /\ MappingRow(r).to_contract =
              IF r.action = "confirmed_roll" THEN r.decision_contract ELSE r.effective_contract
BY DEF MappingRow, MappingRecords

(* The rows before that of a step.                                         *)
LEMMA RowsBefore ==
  ASSUME IInv, RowOrder, NEW d, NEW c, NEW r, NEW n, Session(d, c, r, n), NEW i \in 1..n
  PROVE  /\ MappingRow(records'[i]) = MappingRow(records[i])
         /\ MappingRow(records[i]).effective_session \in Nat
         /\ MappingRow(records[i]).effective_session <= d
         /\ MappingRow(records[i]).decision_date \in Nat
         /\ MappingRow(records[i]).decision_date < d
         /\ records[i].session_date < d
<1>1. /\ n \in Nat /\ Len(records) = n /\ d \in Nat /\ records'[i] = records[i]
      /\ d = NextTradingDay(records[n].session_date) /\ d > records[n].session_date
  BY CalendarAssumption DEF Session, Days
<1>2. i \in 1..n /\ n \in 1..n /\ records[i] \in MappingRecords /\ records[n] \in MappingRecords
  BY <1>1 DEF IInv, TypeOK
<1>3. /\ MappingRow(records[i]).decision_date = records[i].session_date
      /\ records[i].session_date \in Nat /\ records[n].session_date \in Nat
      /\ MappingRow(records[i]).effective_session \in Nat
      /\ MappingRow(records[i]).effective_session =
           IF records[i].effective_session = NoDay THEN records[i].session_date
                                                   ELSE records[i].effective_session
  BY <1>2, RowOf
<1>4. CASE i = n
  BY <1>1, <1>2, <1>3, <1>4 DEF RowOrder
<1>5. CASE i # n
  BY <1>1, <1>2, <1>3, <1>5 DEF RowOrder
<1> QED
  BY <1>4, <1>5

(* The row of a step is the last, by both dates.                           *)
LEMMA RowOfStep ==
  ASSUME NEW d, NEW c, NEW r, NEW n, Session(d, c, r, n)
  PROVE  /\ d \in Nat /\ NextTradingDay(d) \in Nat /\ NextTradingDay(d) > d
         /\ r.session_date = d /\ MappingRow(r).decision_date = d
         /\ r.effective_session \in {NoDay, d, NextTradingDay(d)}
         /\ MappingRow(r).effective_session \in {d, NextTradingDay(d)}
         /\ r.effective_session # NextTradingDay(d) => MappingRow(r).effective_session = d
         /\ Confirms(d, c, r) => MappingRow(r).effective_session = NextTradingDay(d)
<1>1. d \in Nat /\ NextTradingDay(d) \in Nat /\ NextTradingDay(d) > d
  BY NextTradingDayLater, CalendarAssumption DEF Session, Days
<1>2. r \in MappingRecords /\ r.session_date = d /\ r.effective_session \in {NoDay, d, NextTradingDay(d)}
  BY DEF Session, Step, Appends
<1>3. Confirms(d, c, r) => r.effective_session = NextTradingDay(d)
  BY DEF Confirms
<1>4. /\ MappingRow(r).decision_date = r.session_date
      /\ MappingRow(r).effective_session =
           IF r.effective_session = NoDay THEN r.session_date ELSE r.effective_session
  BY <1>2, RowOf
<1> QED
  BY <1>1, <1>2, <1>3, <1>4, CalendarAssumption

LEMMA RowOrderNext == OnCalendar /\ IInv /\ Told /\ RowOrder /\ Next => RowOrder'
<1> SUFFICES ASSUME OnCalendar, IInv, Told, RowOrder, Next PROVE RowOrder'
  OBVIOUS
<1>1. PICK d, c, r, n : Session(d, c, r, n)
  BY SessionIs
<1>2. /\ n \in Nat /\ Len(records) = n /\ Len(records') = n + 1 /\ records'[n + 1] = r
      /\ \A i \in 1..n : records'[i] = records[i]
      /\ r.session_date = d /\ r.effective_session \in {NoDay, d, NextTradingDay(d)}
  BY <1>1, RowOfStep DEF Session
<1>3. \A i \in 1..n : /\ records[i].session_date < d
                      /\ MappingRow(records'[i]).effective_session <= d
  BY <1>1, RowsBefore
<1>4. \A i \in 1..n : records[i].effective_session \in {NoDay, records[i].session_date,
                                                       NextTradingDay(records[i].session_date)}
  BY <1>2 DEF RowOrder
<1>5. \A i \in 1..(n + 1) : i \in 1..n \/ i = n + 1
  BY <1>2
<1> QED
  BY <1>2, <1>3, <1>4, <1>5 DEF RowOrder

(* The row of a step is in force on any day from its effective session on. *)
LEMMA NewRowInForce ==
  ASSUME IInv, RowOrder, NEW d, NEW c, NEW r, NEW n, Session(d, c, r, n),
         NEW day \in Nat, MappingRow(r).effective_session <= day
  PROVE  EffectiveMapping(records', day) = MappingRow(r)
<1>1. /\ n \in Nat /\ DOMAIN records' = 1..(n + 1) /\ records'[n + 1] = r
      /\ \A i \in 1..(n + 1) : i \in 1..n \/ i = n + 1
  BY DEF Session
<1>2. /\ d \in Nat /\ MappingRow(r).decision_date = d
      /\ MappingRow(r).effective_session \in Nat /\ MappingRow(r).effective_session >= d
  BY RowOfStep
<1>3. n + 1 \in RowsInForce(records', day)
  BY <1>1 DEF RowsInForce
<1>4. ASSUME NEW i \in RowsInForce(records', day)
      PROVE  /\ MappingRow(records'[i]).effective_session \in Nat
             /\ MappingRow(records'[i]).decision_date \in Nat
             /\ MappingRow(records'[i]).effective_session <= MappingRow(records'[n + 1]).effective_session
             /\ i # n + 1 => MappingRow(records'[i]).decision_date < MappingRow(records'[n + 1]).decision_date
  <2>1. i \in 1..n \/ i = n + 1
    BY <1>1 DEF RowsInForce
  <2>2. CASE i = n + 1
    BY <1>1, <1>2, <2>2
  <2>3. CASE i \in 1..n
    <3>1. /\ MappingRow(records'[i]).effective_session \in Nat
          /\ MappingRow(records'[i]).effective_session <= d
          /\ MappingRow(records'[i]).decision_date \in Nat
          /\ MappingRow(records'[i]).decision_date < d
      BY <2>3, RowsBefore
    <3> QED
      BY <1>1, <1>2, <3>1
  <2> QED
    BY <2>1, <2>2, <2>3
<1>5. EffectiveMapping(records', day) = MappingRow(records'[n + 1])
  BY <1>3, <1>4, RowInForceIs
<1> QED
  BY <1>1, <1>5

LEMMA AgreesNext ==
  OnCalendar /\ IInv /\ Told /\ RowOrder /\ MappingAgrees /\ Next => MappingAgrees'
<1> SUFFICES ASSUME OnCalendar, IInv, Told, RowOrder, MappingAgrees, Next PROVE MappingAgrees'
  OBVIOUS
<1>1. PICK d, c, r, n : Session(d, c, r, n)
  BY SessionIs
<1>2. /\ n \in Nat /\ Len(records) = n /\ Len(records') = n + 1
      /\ DOMAIN records = 1..n /\ DOMAIN records' = 1..(n + 1)
      /\ records'[n + 1] = r /\ r.effective_contract = effective' /\ r \in MappingRecords
      /\ \A i \in 1..n : records'[i] = records[i]
      /\ \A i \in 1..(n + 1) : i \in 1..n \/ i = n + 1
  BY <1>1 DEF Session, Step
<1>3. /\ d \in Nat /\ NextTradingDay(d) \in Nat /\ NextTradingDay(d) > d /\ r.session_date = d
      /\ MappingRow(r).effective_session \in {d, NextTradingDay(d)}
  BY <1>1, RowOfStep
<1>4. \/ Quiet(d, r)
      \/ c \in CandidateSets /\ Confirms(d, c, r)
  BY <1>1 DEF Session, Step, Takes, Blocks, Keeps, Challenges
<1>5. ASSUME NEW i \in 1..n
      PROVE  EffectiveMapping(records', records'[i].session_date).to_contract
               = records'[i].effective_contract
  BY <1>2, RowsKept DEF MappingAgrees
<1>6. CASE Quiet(d, r)
  <2>1. r.action # "confirmed_roll" /\ pending' = NoContract
    BY <1>1, <1>6, Consumed DEF Quiet
  <2>2. MappingRow(r).to_contract = effective'
    BY <1>2, <2>1, RowOf
  <2>3. MappingRow(r).effective_session = d
    BY <1>1, <1>3, <1>6, RowOfStep, CalendarAssumption DEF Quiet
  <2>4. /\ EffectiveMapping(records', d) = MappingRow(r)
        /\ EffectiveMapping(records', NextTradingDay(d)) = MappingRow(r)
    BY <1>1, <1>3, <2>3, NewRowInForce
  <2>5. EffectiveMapping(records', records'[n + 1].session_date).to_contract
          = records'[n + 1].effective_contract
    BY <1>2, <1>3, <2>2, <2>4
  <2>6. Incumbent(NextTradingDay(d))' = effective'
    BY <2>1 DEF Incumbent, PendingDue
  <2> QED
    BY <1>2, <1>3, <1>5, <2>2, <2>4, <2>5, <2>6 DEF MappingAgrees
<1>7. CASE c \in CandidateSets /\ Confirms(d, c, r)
  <2>1. /\ effective' = Incumbent(d) /\ Incumbent(d) \in EligibleOf(c) /\ pending' = RankedOf(c)
        /\ RankedOf(c) # Incumbent(d)
        /\ pendingFrom' = NextTradingDay(d)
        /\ r.action = "confirmed_roll" /\ r.decision_contract = pending'
    BY <1>7 DEF Confirms, Outranked
  <2>2. Incumbent(d) # NoContract /\ pending' # NoContract
    BY <1>7, <2>1, PolicyContract, ContractAssumption
  <2>3. n # 0
    BY <1>1, <2>2 DEF Session, Incumbent, PendingDue
  <2>4. records # <<>> /\ d = NextTradingDay(records[n].session_date)
    BY <1>1, <2>3 DEF Session
  <2>5. EffectiveMapping(records, d).to_contract = Incumbent(d)
    BY <1>2, <2>4 DEF MappingAgrees
  <2>6. MappingRow(r).effective_session = NextTradingDay(d)
    BY <1>1, <1>7, RowOfStep
  <2>7. EffectiveMapping(records', d) = EffectiveMapping(records, d)
    <3>1. \A i \in 1..n : MappingRow(records'[i]) = MappingRow(records[i])
      BY <1>2
    <3>2. RowsInForce(records', d) = RowsInForce(records, d)
      BY <1>2, <1>3, <2>6, <3>1 DEF RowsInForce
    <3>3. {MappingRow(records'[i]) : i \in RowsInForce(records', d)}
            = {MappingRow(records[i]) : i \in RowsInForce(records, d)}
      BY <1>2, <3>1, <3>2 DEF RowsInForce
    <3> QED
      BY <3>3 DEF EffectiveMapping
  <2>8. EffectiveMapping(records', records'[n + 1].session_date).to_contract
          = records'[n + 1].effective_contract
    BY <1>2, <1>3, <2>1, <2>5, <2>7
  <2>9. EffectiveMapping(records', NextTradingDay(d)) = MappingRow(r)
    BY <1>1, <1>3, <2>6, NewRowInForce
  <2>10. MappingRow(r).to_contract = pending'
    BY <1>2, <2>1, RowOf
  <2>11. Incumbent(NextTradingDay(d))' = pending'
    <3>1. PICK next \in Nat : next = NextTradingDay(d)
      BY <1>3
    <3> QED
      BY <2>1, <2>2, <3>1 DEF Incumbent, PendingDue
  <2> QED
    BY <1>2, <1>3, <1>5, <2>8, <2>9, <2>10, <2>11 DEF MappingAgrees
<1> QED
  BY <1>4, <1>6, <1>7
-----------------------------------------------------------------------------
(* All of it, where every session has a date of the calendar.              *)
CalendarInv ==
  /\ IInv /\ Told /\ Counts /\ RowOrder
  /\ IncumbentEligible /\ SwitchAnnounced /\ RollNotMissed /\ MappingAgrees

LEMMA CalendarInit == Init => CalendarInv
<1> SUFFICES ASSUME Init PROVE CalendarInv
  OBVIOUS
<1>1. IInv
  BY InvInit
<1>2. records = <<>> /\ Len(records) = 0 /\ DOMAIN records = {}
  BY DEF Init
<1>3. Told
  BY <1>2 DEF Told, Init
<1>4. Counts /\ RowOrder
  BY <1>2 DEF Counts, RowOrder
<1>5. IncumbentEligible /\ SwitchAnnounced /\ RollNotMissed /\ MappingAgrees
  BY <1>2 DEF IncumbentEligible, SwitchAnnounced, RollNotMissed, MappingAgrees
<1> QED
  BY <1>1, <1>3, <1>4, <1>5 DEF CalendarInv

LEMMA CalendarNext == OnCalendar /\ CalendarInv /\ [Next]_vars => CalendarInv'
<1>1. CASE Next
  BY <1>1, InvNext, ToldNext, CountsNext, RowOrderNext, EligibleNext, SwitchNext,
     NotMissedNext, AgreesNext DEF CalendarInv
<1>2. CASE UNCHANGED vars
  <2>1. IInv' \/ ~IInv
    BY <1>2, InvNext
  <2>2. Told' <=> Told
    BY <1>2 DEF Told, vars
  <2>3. Counts' <=> Counts
    BY <1>2 DEF Counts, OutrankedBy, vars
  <2>4. RowOrder' <=> RowOrder
    BY <1>2 DEF RowOrder, vars
  <2>5. (IncumbentEligible' <=> IncumbentEligible) /\ (SwitchAnnounced' <=> SwitchAnnounced)
    BY <1>2 DEF IncumbentEligible, SwitchAnnounced, vars
  <2>6. RollNotMissed' <=> RollNotMissed
    BY <1>2 DEF RollNotMissed, Confirmed, OutrankedBy, vars
  <2>7. MappingAgrees' <=> MappingAgrees
    BY <1>2 DEF MappingAgrees, Incumbent, PendingDue, vars
  <2> QED
    BY <2>1, <2>2, <2>3, <2>4, <2>5, <2>6, <2>7 DEF CalendarInv
<1> QED
  BY <1>1, <1>2

LEMMA CalendarInvariant == ASSUME OnCalendar PROVE Spec => []CalendarInv
<1>1. CalendarInv /\ [Next]_vars => CalendarInv'
  BY CalendarNext
<1> QED
  BY <1>1, CalendarInit, PTL DEF Spec

(* No confirmed roll is missed, whatever gaps, blocks and pending rolls    *)
(* come in between.                                                        *)
THEOREM RollsAreNotMissed == ASSUME OnCalendar PROVE Spec => []RollNotMissed
BY CalendarInvariant, PTL DEF CalendarInv

(* The main contract changes only as announced by the session before, or   *)
(* as recorded for the session itself.                                     *)
THEOREM SwitchesAreAnnounced == ASSUME OnCalendar PROVE Spec => []SwitchAnnounced
BY CalendarInvariant, PTL DEF CalendarInv

(* No session has a main contract that its own curve makes ineligible.     *)
THEOREM IncumbentsAreEligible == ASSUME OnCalendar PROVE Spec => []IncumbentEligible
BY CalendarInvariant, PTL DEF CalendarInv

(* The mapping table names the main contract of every session, and the one *)
(* the next trading day will start with.                                   *)
THEOREM MappingTellsTheSame == ASSUME OnCalendar PROVE Spec => []MappingAgrees
BY CalendarInvariant, PTL DEF CalendarInv
=============================================================================
