SPECIFICATION Spec
CONSTANTS
  SignBit = 4
  TextByte <- NoTexts
  TextLen = 0
  ValuesOfA <- Zeros
  ValuesOfB <- TwoIntegers
  MaxRows = 3
  Windows <- SomeWindows
INVARIANTS
  TypeOK
  Working
  AnswerIsQuery
  EncodingsDecide
  HeapHoldsFirst
  GroupsAreExact
CHECK_DEADLOCK FALSE
