SPECIFICATION Spec
CONSTANTS
  Chunks = 3
  Faults = {"thread", "open", "request", "store", "throw", "flush", "remove"}
INVARIANTS
  TypeOK
  ToldIsTrue
  ThreadNeverOutlives
PROPERTIES
  ClosedViewGoes
CHECK_DEADLOCK FALSE
