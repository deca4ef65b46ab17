SPECIFICATION LibrarySpec
CONSTANTS
  Jobs <- MCJobs
  Dollars = 2
  v1 = v1
  v2 = v2
  foo = foo
  Undefined = Undefined
  Hole = Hole
  EmptyName = EmptyName
  Name = {foo}
  Value = {v1, v2, Undefined}
  Before <- MCBefore
  Calls <- MCCalls
  AsUint32 <- MCAsUint32
  Words <- MCWords
  MaxLength = 3
  NaN = NaN
  Throws = Throws
  msPerSecond = 2
  SecondsPerMinute = 2
  MinutesPerHour = 3
  MaxTime = 100000000
  LocalTZA <- MCLocalTZA
  DaylightBias = 12
  StandardDate <- MCStandard
  DaylightDate <- MCDaylight
  BufferSize = 8
  FIXED_DIGITS = 20
  MaxDigits = 4
  Kinds <- MCKinds
  Questions <- MCQuestions
CONSTRAINT
  Short
INVARIANTS
  FoundIsMatch
  StringsAgree
  LengthCovers
  DatesRight
  TextsRight
PROPERTIES
  
  IsList
CHECK_DEADLOCK FALSE
