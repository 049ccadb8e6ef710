SPECIFICATION Spec
CONSTANTS
  Dates = {1, 2}
  Published <- MC_Published
  Payloads = {a, b}
  Recipes = {cal}
  Refreshers = {r1, r2}
  Readers = {}
  None = None
  Window = 0
  MaxTime = 3
  MaxBatches = 3
INVARIANTS
  TypeOK
  RevisionsOrdered
  VintageCausal
  RebuildComplete
  RefreshReturnsFetched
PROPERTY
  HistoryKept
SYMMETRY Symmetry
CHECK_DEADLOCK FALSE
