CONSTANTS
  Columns <- TwoColumns
  Rows <- AllRows
  Clauses <- SomeClauses
  GroupedClauses <- SomeGrouped
  MaxKeys = 2
SPECIFICATION Spec
CHECK_DEADLOCK FALSE
INVARIANTS
  TypeOK
  ParserReads
  PrintReadsBack
  SqlMeaning
  GroupedMeaning
