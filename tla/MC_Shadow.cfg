CONSTANTS
  None = None
  Config <- DefaultConfig
  Freshness <- MC_Freshness
  Contexts <- MC_Contexts
  Exchanges = {"DCE", "LME"}
  Sessions = {4, 5}
  Instants = {8, 9, 10, 11}
  MaxCalls = 2

SPECIFICATION Spec
CHECK_DEADLOCK FALSE

INVARIANTS
  CandidateIsSafe
  MetricCausal
  MirrorSymmetric
  CallsAccounted
  FaultsAreGaps
