SPECIFICATION Spec
CONSTANTS
  TableId <- OneId
  IndexId <- OneId
  Pk <- ThreePk
  Alike <- Zeros
  Val <- TwoVal
  Entry = Entry
  Absent = Absent
  NoEntry = NoEntry
  MaxStatements = 2
INVARIANTS
  TypeOK
  PendingUntouched
  IndexStaysExact
  ReadsBeforeWrites
  Ledger
CHECK_DEADLOCK FALSE
