SPECIFICATION FairSpec
CONSTANTS
  Callers = {c1, c2}
  Keys = {k1}
  Template = template
  Generated = generated
  None = None
  NarrativeSlots = 1
  MaxCalls = 3
INVARIANTS
  TypeOK
  EventPerRun
  InsertsNeverConflict
  ObservationFindsRun
  GeneratorsBounded
PROPERTIES
  LedgerSpec
  CallsEnd
CHECK_DEADLOCK FALSE
