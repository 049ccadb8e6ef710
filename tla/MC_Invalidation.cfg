SPECIFICATION Spec
CONSTANTS
  low = low
  even = even
  gone = gone
  Days = {1, 2, 3, 4, 5, 6}
  Weekdays = {1, 2, 5, 6}
  TradingDays = {1, 2, 5, 6}
  Origin = 1
  Instants = {1, 2, 3, 4}
  Inputs = {low, even, gone}
  ValueOf <- MC_ValueOf
  Operator = "lt"
  ConsecutiveBars = 2
  Lagging = FALSE
  None = None
  MaxRows = 5
INVARIANTS
  InvalidationWitnessed
  RunOfHitsInvalidates
PROPERTY
  InvalidationStays
CHECK_DEADLOCK FALSE
