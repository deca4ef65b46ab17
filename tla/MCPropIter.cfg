SPECIFICATION IterSpec
CONSTANTS
  Table = {1, 2}
  Chain <- MCChain
  MaxKey = 2
  Shared = 2
  Hashes <- HalfRound
  Copies = 2
  Key <- MCKey
  IndexKey = {}
  Value = {v1}
  PutAttrs <- Enum
  hash <- MCHash
  Words = 8
  Dim = 1
  Property <- MCProperty
  Nil = Nil
  Loop = {1}
  Body = {"add", "overwrite", "delete"}
  Changes = 1
INVARIANTS
  StandsOnLive
  EachOnce
PROPERTIES
  HandsOutLive
