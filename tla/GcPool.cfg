CONSTANTS
  Commit = 2
  PoolSize = 4
  Cap = 1
  Space = 9
  Half = 9
  Requests = {2, 5}
  Fails = TRUE
SPECIFICATION Spec
INVARIANTS BlocksExact FindsPool
