SPECIFICATION Spec
CONSTANT Programs <- MCPrograms
INVARIANTS
  
  LocalsSet
  ScopesKept
