CONSTANTS
  window = window
  other = other
  None = None
  Item = {window, other}
  Flag = {{"global", "visible", "persistent"}, {"global"}, {"visible"}, {"persistent", "nocode"}, {"persistent", "codeonly"}, {"global", "codeonly"}}
  MaxScripts = 3
  MaxModules = 1
  MaxDepth = 2
  Uses = {}
SPECIFICATION Spec
CHECK_DEADLOCK FALSE
INVARIANTS AssertionsHold ScopeIsItems PendingOnce
