SPECIFICATION FairSpec
CONSTANTS
  Events = {e1, e2}
  Relays = {r1, r2}
INVARIANTS
  NothingStranded
  ProcessedOnce
PROPERTY
  AtLeastOnce
