---------------------------- MODULE MainContract ----------------------------
(***************************************************************************)
(* MainContractStateMachine.replay: the stateful choice of the main        *)
(* contract, one completed session after another, and the mapping rows     *)
(* that build_mapping_and_continuous derives from its records.             *)
(*                                                                         *)
(* One step of this module is one element of the code's list "expanded":   *)
(* an observed session, or a calendar session for which no curve exists.   *)
(* The liquidity policy is a parameter (EligibleOf, RankedOf); module      *)
(* MainContractPolicy gives the operators the code uses.                   *)
(***************************************************************************)
EXTENDS Integers, Sequences, FiniteSets

CONSTANTS
  Contracts,        \* contract codes
  NoContract,       \* None, where a contract code is expected
  NoDay,            \* None, where a date is expected
  CandidateSets,    \* what candidates_from_curve may return for a session
  Missing,          \* candidates is None: a session without a curve
  TradingDays,      \* dates the exchange calendar calls trading days
  SessionDays,      \* dates on which a curve may be observed
  LastDay,          \* bound: no session after this date
  ConfirmationDays, \* policy.confirmation_days
  EligibleOf(_),    \* codes of policy._eligible(candidates)
  RankedOf(_)       \* code of policy.rank(eligible), NoContract if none

Days == 1..LastDay
Actions == {"keep", "confirmed_roll", "emergency_roll", "blocked"}

ASSUME ContractAssumption == NoContract \notin Contracts

ASSUME CalendarAssumption ==
  /\ LastDay \in Nat
  /\ NoDay \notin Nat
  /\ TradingDays \subseteq Nat \ {0}
  /\ SessionDays \subseteq Nat \ {0}
  /\ \A d \in Days : \E t \in TradingDays :
       t > d /\ \A u \in TradingDays : u > d => t <= u

ASSUME PolicyContract ==
  /\ ConfirmationDays \in Nat \ {0}
  /\ Missing \notin CandidateSets
  /\ \A c \in CandidateSets :
       /\ EligibleOf(c) \subseteq Contracts
       /\ IF EligibleOf(c) = {} THEN RankedOf(c) = NoContract
                                ELSE RankedOf(c) \in EligibleOf(c)

VARIABLES
  expanded,     \* sequence of [date, candidates], the sessions replayed so far
  effective,    \* the main contract in force, or NoContract
  pending,      \* a confirmed challenger that waits for its session
  pendingFrom,  \* the session from which it is in force
  challenger,   \* the contract that outranks the incumbent
  streak,       \* for how many consecutive sessions
  records       \* the MappingRecords returned

vars == <<expanded, effective, pending, pendingFrom, challenger, streak, records>>
-----------------------------------------------------------------------------
NextTradingDay(d) ==
  CHOOSE t \in TradingDays : t > d /\ \A u \in TradingDays : u > d => t <= u

Init ==
  /\ expanded = <<>>
  /\ records = <<>>
  /\ effective = NoContract
  /\ pending = NoContract
  /\ pendingFrom = NoDay
  /\ challenger = NoContract
  /\ streak = 0

(* The dates the next element of expanded may have: after the last one and *)
(* no later than the session the calendar says comes next.                 *)
ComesNext(d) ==
  /\ d \in Days
  /\ expanded # <<>> =>
       /\ d > expanded[Len(expanded)].date
       /\ d <= NextTradingDay(expanded[Len(expanded)].date)

(* Mutation: a roll is applied a session late.                             *)
PendingDue_Late(d) == pending # NoContract /\ d > pendingFrom

PendingDue(d) == pending # NoContract /\ d >= pendingFrom

(* The incumbent once a due roll has been applied.                         *)
Incumbent(d) == IF PendingDue(d) THEN pending ELSE effective

(* Mutation: the date of an applied roll is left behind.                   *)
ConsumePending_KeepsDate(d) ==
  /\ pending' = IF PendingDue(d) THEN NoContract ELSE pending
  /\ UNCHANGED pendingFrom

(* The effect on the roll state of every branch: a due roll is consumed.   *)
ConsumePending(d) ==
  /\ pending' = IF PendingDue(d) THEN NoContract ELSE pending
  /\ pendingFrom' = IF PendingDue(d) THEN NoDay ELSE pendingFrom

(* Mutation: a missing or won session does not end the streak.             *)
NoChallenge_Kept == UNCHANGED <<challenger, streak>>

NoChallenge == challenger' = NoContract /\ streak' = 0

Record(d, eff, from, action, days, decision) ==
  records' = Append(records,
    [session_date |-> d, effective_contract |-> eff, effective_session |-> from,
     action |-> action, challenger_streak |-> days, decision_contract |-> decision])

Replayed(d, c) == expanded' = Append(expanded, [date |-> d, candidates |-> c])
-----------------------------------------------------------------------------
(* The calendar has a session for which there is no curve.                 *)
MissingSession(d) ==
  /\ ComesNext(d)
  /\ expanded # <<>> => d = NextTradingDay(expanded[Len(expanded)].date)
  /\ Replayed(d, Missing)
  /\ ConsumePending(d)
  /\ effective' = Incumbent(d)
  /\ NoChallenge
  /\ Record(d, effective', NoDay, "keep", 0, effective')

(* An observed session; each action below is one of the code's branches.   *)
Observed(d, c) ==
  /\ ComesNext(d)
  /\ d \in SessionDays
  /\ Replayed(d, c)

(* No main contract is in force: take the first ranked one, from today.    *)
Adopt(d, c) ==
  /\ Observed(d, c)
  /\ Incumbent(d) = NoContract
  /\ RankedOf(c) # NoContract
  /\ ConsumePending(d)
  /\ effective' = RankedOf(c)
  /\ NoChallenge
  /\ Record(d, effective', d, "keep", 0, effective')

(* Nothing is eligible: the incumbent, if any, is dropped.                 *)
Block(d, c) ==
  /\ Observed(d, c)
  /\ RankedOf(c) = NoContract
  /\ ConsumePending(d)
  /\ effective' = NoContract
  /\ NoChallenge
  /\ Record(d, NoContract, NoDay, "blocked", 0, NoContract)

(* The incumbent is not eligible but another contract is.                  *)
EmergencyRoll(d, c) ==
  /\ Observed(d, c)
  /\ Incumbent(d) # NoContract
  /\ Incumbent(d) \notin EligibleOf(c)
  /\ RankedOf(c) # NoContract
  /\ ConsumePending(d)
  /\ effective' = RankedOf(c)
  /\ NoChallenge
  /\ Record(d, effective', d, "emergency_roll", 0, effective')

KeepTop(d, c) ==
  /\ Observed(d, c)
  /\ Incumbent(d) \in EligibleOf(c)
  /\ RankedOf(c) = Incumbent(d)
  /\ ConsumePending(d)
  /\ effective' = Incumbent(d)
  /\ NoChallenge
  /\ Record(d, effective', NoDay, "keep", 0, effective')

(* Mutation: a new challenger starts at zero.                              *)
StreakOf_FromZero(d, top) ==
  IF ~PendingDue(d) /\ challenger = top THEN streak + 1 ELSE 0

(* An eligible incumbent is outranked for the streak'-th session in a row. *)
StreakOf(d, top) ==
  IF ~PendingDue(d) /\ challenger = top THEN streak + 1 ELSE 1

(* Mutation: the incumbent's own eligibility is not looked at.             *)
Outranked_AnyIncumbent(d, c) ==
  /\ Observed(d, c)
  /\ Incumbent(d) # NoContract
  /\ RankedOf(c) \notin {Incumbent(d), NoContract}
  /\ effective' = Incumbent(d)
  /\ challenger' = RankedOf(c)
  /\ streak' = StreakOf(d, RankedOf(c))

Outranked(d, c) ==
  /\ Observed(d, c)
  /\ Incumbent(d) \in EligibleOf(c)
  /\ RankedOf(c) # Incumbent(d)
  /\ effective' = Incumbent(d)
  /\ challenger' = RankedOf(c)
  /\ streak' = StreakOf(d, RankedOf(c))

Challenge(d, c) ==
  /\ Outranked(d, c)
  /\ streak' < ConfirmationDays
  /\ ConsumePending(d)
  /\ Record(d, effective', NoDay, "keep", streak', effective')

ConfirmRoll(d, c) ==
  /\ Outranked(d, c)
  /\ streak' >= ConfirmationDays
  /\ pending' = challenger'
  /\ pendingFrom' = NextTradingDay(d)
  /\ Record(d, effective', pendingFrom', "confirmed_roll", streak', pending')

Next ==
  \E d \in Days :
    \/ MissingSession(d)
    \/ \E c \in CandidateSets :
         \/ Adopt(d, c)
         \/ Block(d, c)
         \/ EmergencyRoll(d, c)
         \/ KeepTop(d, c)
         \/ Challenge(d, c)
         \/ ConfirmRoll(d, c)

Spec == Init /\ [][Next]_vars
-----------------------------------------------------------------------------
(* Mutation: a confirmed roll writes the old contract.                     *)
MappingRow_Outgoing(r) ==
  [decision_date |-> r.session_date,
   effective_session |-> IF r.effective_session = NoDay THEN r.session_date
                                                        ELSE r.effective_session,
   to_contract |-> r.effective_contract]

(* The mapping row build_mapping_and_continuous writes for a record.       *)
MappingRow(r) ==
  [decision_date |-> r.session_date,
   effective_session |-> IF r.effective_session = NoDay THEN r.session_date
                                                        ELSE r.effective_session,
   to_contract |-> IF r.action = "confirmed_roll" THEN r.decision_contract
                                                  ELSE r.effective_contract]

(* Mutation: rows of later sessions are not filtered out.                  *)
RowsInForce_All(recs, day) == DOMAIN recs

RowsInForce(recs, day) ==
  {i \in DOMAIN recs : MappingRow(recs[i]).effective_session <= day}

(* load_effective_mapping of one vintage: the latest row in force on day,  *)
(* by effective session and then by decision date.                         *)
EffectiveMapping(recs, day) ==
  LET eligible == {MappingRow(recs[i]) : i \in RowsInForce(recs, day)}
  IN  CHOOSE m \in eligible :
        \A n \in eligible :
          \/ m.effective_session > n.effective_session
          \/ /\ m.effective_session = n.effective_session
             /\ m.decision_date >= n.decision_date
-----------------------------------------------------------------------------
Codes == Contracts \union {NoContract}

MappingRecords ==
  [session_date : Nat, effective_contract : Codes,
   effective_session : Nat \union {NoDay}, action : Actions,
   challenger_streak : Nat, decision_contract : Codes]

(* The variables have their types, and there is one record per session.    *)
TypeOK ==
  /\ expanded \in Seq([date : Nat, candidates : CandidateSets \union {Missing}])
  /\ records \in Seq(MappingRecords)
  /\ Len(records) = Len(expanded)
  /\ effective \in Codes
  /\ pending \in Codes
  /\ pendingFrom \in IF pending = NoContract THEN {NoDay} ELSE Nat
  /\ challenger \in Codes
  /\ streak \in Nat

(* In the i-th session the eligible incumbent was outranked by top.        *)
OutrankedBy(i, incumbent, top) ==
  /\ expanded[i].candidates # Missing
  /\ records[i].effective_contract = incumbent
  /\ incumbent \in EligibleOf(expanded[i].candidates)
  /\ RankedOf(expanded[i].candidates) = top
  /\ top # incumbent

(* top has outranked one and the same incumbent in each of the last        *)
(* ConfirmationDays sessions up to the i-th, none of them missing.         *)
Confirmed(i, incumbent, top) ==
  /\ i >= ConfirmationDays
  /\ \A j \in (i - ConfirmationDays + 1)..i : OutrankedBy(j, incumbent, top)

(* Every session has a date of the exchange calendar.                      *)
OnCalendar == SessionDays \subseteq TradingDays

(* A roll is decided in a session only if the challenger has outranked the *)
(* incumbent in ConfirmationDays sessions of the calendar in a row: a      *)
(* missing or ineligible session is never skipped (main_contract_state.py  *)
(* 72-85, 170-175).                                                        *)
RollConfirmed ==
  \A i \in DOMAIN records :
    records[i].action = "confirmed_roll" =>
      Confirmed(i, records[i].effective_contract, records[i].decision_contract)

(* ... and the roll is decided in the first session that confirms it: no   *)
(* streak is lost to the pending roll, to another contract or to a gap.    *)
RollNotMissed ==
  \A i \in DOMAIN records : \A incumbent, top \in Contracts :
    Confirmed(i, incumbent, top) =>
      /\ records[i].action = "confirmed_roll"
      /\ records[i].decision_contract = top

(* The main contract changes from one session to the next only by the roll *)
(* confirmed in the session before, in the session it announced, or by an  *)
(* explicit emergency roll, block or adoption recorded for the session.    *)
SwitchAnnounced ==
  \A i \in 2..Len(records) :
    LET before == records[i - 1]
        now    == records[i]
    IN  now.effective_contract # before.effective_contract =>
          \/ now.action \in {"emergency_roll", "blocked"}
          \/ /\ before.effective_contract = NoContract
             /\ now.effective_session = now.session_date
          \/ /\ before.action = "confirmed_roll"
             /\ before.decision_contract = now.effective_contract
             /\ before.effective_session = now.session_date

(* A contract that the policy excludes on a session's own data is never the*)
(* main contract of that session, a roll that falls due included.          *)
IncumbentEligible ==
  \A i \in DOMAIN records :
    /\ expanded[i].candidates # Missing
    /\ records[i].effective_contract # NoContract
    => records[i].effective_contract \in EligibleOf(expanded[i].candidates)

(* The mapping table tells the same story as the machine: for the day of   *)
(* every session the row in force names that session's main contract, and  *)
(* for the next trading day it names the contract that day will start with.*)
MappingAgrees ==
  /\ \A i \in DOMAIN records :
       EffectiveMapping(records, records[i].session_date).to_contract
         = records[i].effective_contract
  /\ records # <<>> =>
       LET next == NextTradingDay(records[Len(records)].session_date)
       IN  EffectiveMapping(records, next).to_contract = Incumbent(next)

(* A later session never changes which contract the mapping gives for a    *)
(* day that is already recorded: roll decisions are not retroactive.       *)
MappingNotRewritten ==
  [][\A i \in DOMAIN records :
       LET day == records[i].session_date
       IN  EffectiveMapping(records', day) = EffectiveMapping(records, day)]_vars

(* DESIGN.md 137: a decision taken after the close of day D is in force on *)
(* the next trading day at the earliest.                                   *)
EffectiveNextSession ==
  \A i \in 2..Len(records) :
    records[i].action \in {"confirmed_roll", "emergency_roll"} =>
      EffectiveMapping(records, records[i].session_date).to_contract
        = records[i - 1].effective_contract
=============================================================================
