SPECIFICATION Spec
CONSTANTS
  c1 = c1
  c2 = c2
  p1 = p1
  p2 = p2
  a = a
  b = b
  Conn <- TwoConns
  TableId <- OneId
  IndexId <- OneId
  Pk <- TwoPks
  Alike = {}
  Val <- TwoValues
  Entry = Entry
  Absent = Absent
  NoEntry = NoEntry
  None = None
  MaxStatements = 5
  Faults = FALSE
SYMMETRY Interchangeable
INVARIANT
  NoDanglingEntry
