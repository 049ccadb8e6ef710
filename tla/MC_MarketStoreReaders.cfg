SPECIFICATION Spec
CONSTANTS
  Dates = {1, 2}
  Published <- MC_Published
  Payloads = {a, b}
  Recipes = {cal, rev}
  Refreshers = {r1}
  Readers = {s1}
  None = None
  Window = 1
  MaxTime = 3
  MaxBatches = 2
INVARIANT
  ContextCoherent
SYMMETRY Symmetry
CHECK_DEADLOCK FALSE
