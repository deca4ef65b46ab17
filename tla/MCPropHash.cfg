SPECIFICATION Spec
CONSTANTS
  Table = {1}
  Chain <- MCChain
  MaxKey = 3
  Shared = 2
  Hashes <- AllRound
  Copies = 2
  Key <- MCKey
  IndexKey = {}
  Value = {v1}
  PutAttrs <- Plain
  hash <- MCHash
  Words = 8
  Dim = 1
  Property <- MCProperty
  Nil = Nil
INVARIANTS
  KeysUnique
