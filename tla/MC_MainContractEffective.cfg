SPECIFICATION Spec
CONSTANTS
  Settlement <- MC_Settlement
  NoIndex = NoIndex
  Horizons = {1, 2}
  Plans <- MC_Plans
  History = 8
  Contracts = {1, 2, 3}
  NoContract = NoContract
  NoneRanked = NoContract
  NoDay = NoDay
  Missing = Missing
  CandidateSets <- MC_CandidateSets
  TradingDays <- MC_TradingDays
  SessionDays <- MC_TradingDays
  LastDay = 8
  ConfirmationDays = 2
  MinDte = 10
  MinShare = 15
  EligibleOf <- EligibleCodes
  RankedOf <- RankedCode
INVARIANT
  EffectiveNextSession
CHECK_DEADLOCK FALSE
