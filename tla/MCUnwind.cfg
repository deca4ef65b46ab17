SPECIFICATION Spec
CONSTANTS
  Programs <- All
  CodeFor <- CodeUsed
  Interrupts = TRUE
  Undefined = Undefined
  Null = Null
INVARIANTS
  CodePaired
  Agrees
  ScopeKept
PROPERTIES
  InterruptedStops
