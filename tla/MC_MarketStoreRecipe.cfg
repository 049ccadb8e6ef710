SPECIFICATION Spec
CONSTANTS
  Dates = {1, 2}
  Published <- MC_Published
  Payloads = {a}
  Recipes = {cal, rev}
  Refreshers = {r1}
  Readers = {}
  None = None
  Window = 1
  MaxTime = 3
  MaxBatches = 3
INVARIANT
  SeriesIsCurrent
CHECK_DEADLOCK FALSE
