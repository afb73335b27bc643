SPECIFICATION Spec
CONSTANTS
  SignBit = 4
  TextByte <- Nuls
  TextLen = 2
  Kinds <- AllKinds
  Literals <- Constants
  TableIds <- Ids
  RowIds <- Keys
  MaxConjuncts = 2
INVARIANTS
  TypeOK
  RangesFit
  RowsAreWhere
  RowsInOrder
  ScanStaysInside
  EntriesDecode
CHECK_DEADLOCK FALSE
