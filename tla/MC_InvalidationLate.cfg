SPECIFICATION Spec
CONSTANTS
  low = low
  even = even
  gone = gone
  Days = {1, 2, 3, 4, 5, 6}
  Weekdays = {1, 2, 5, 6}
  TradingDays = {1, 2, 5, 6}
  Origin = 1
  Instants = {1, 2, 3, 4}
  Inputs = {low, even, gone}
  ValueOf <- MC_ValueOf
  Operator = "lt"
  ConsecutiveBars = 2
  Lagging = TRUE
  None = None
  MaxRows = 5
INVARIANT
  RunOfHitsInvalidates
CHECK_DEADLOCK FALSE
