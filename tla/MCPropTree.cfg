SPECIFICATION Spec
CONSTANTS
  Table = {1, 2}
  Chain <- MCChain
  MaxKey = 5
  Shared = 1
  Hashes <- HalfRound
  Copies = 1
  Key <- MCKey
  IndexKey = {1}
  Value = {v1}
  PutAttrs <- Guards
  hash <- MCHash
  Words = 8
  Dim = 1
  Property <- MCProperty
  Nil = Nil
INVARIANTS
  TypeOK
  TablesExact
PROPERTIES
  IsMap
