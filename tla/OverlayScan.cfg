SPECIFICATION FairSpec
CONSTANTS
  v1 = v1
  Key <- ThreeKeys
  Value <- OneValue
  Absent = Absent
  NoEntry = NoEntry
  NoRow = NoRow
  NoKey = NoKey
INVARIANTS
  TypeOK
  MergeOK
PROPERTIES
  ImplementsFrozenScan
  ScanEnds
CHECK_DEADLOCK FALSE
