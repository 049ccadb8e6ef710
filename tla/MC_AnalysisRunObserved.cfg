SPECIFICATION Spec
CONSTANTS
  Callers = {c1}
  Keys = {k1}
  Template = template
  Generated = generated
  None = None
  NarrativeSlots = 1
  MaxCalls = 2
INVARIANT
  AnsweredIsObserved
CHECK_DEADLOCK FALSE
