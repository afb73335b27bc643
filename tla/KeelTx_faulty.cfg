SPECIFICATION FairSpec
CONSTANTS
  c1 = c1
  c2 = c2
  t1 = t1
  t2 = t2
  t3 = t3
  t4 = t4
  v1 = v1
  Conn <- TwoConns
  TxId <- TwoTxs
  Key <- TwoKeys
  Value <- OneValue
  Absent = Absent
  NoEntry = NoEntry
  None = None
  Statements <- NoCursors
  Faults <- BothFaults
INVARIANT StoreIsCommittedPlusPrefix
PROPERTIES
  ImplementsSnapshotTx
  MutexIsNeverStuck
