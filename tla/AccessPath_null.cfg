SPECIFICATION Spec
CONSTANTS
  SignBit = 4
  TextByte <- Nuls
  TextLen = 2
  Kinds <- AllKinds
  Literals <- Constants
  TableIds <- Ids
  RowIds <- Keys
  MaxConjuncts = 1
INVARIANT NullNeverMatches
CHECK_DEADLOCK FALSE
