CONSTANTS
  r1 = r1
  r2 = r2
  r3 = r3
  c1 = c1
  c2 = c2
  Requests = {r1, r2, r3}
  Clients = {c1, c2}
  ClientOf <- MC_ClientOf
  KindOf <- MC_KindOf
  MaxPerMinute = 1
  Window = 2
  Threads = 1
  Retries = 3
  Chunks = 2
  MaxTime = 2
  MaxFaults = 1
  MaxBacklog = 1

SPECIFICATION FairSpec
CHECK_DEADLOCK FALSE

INVARIANTS
  AnsweredInFull
  SessionsReaped
  WindowExact

PROPERTY
  RequestsEnd
