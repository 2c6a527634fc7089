CONSTANTS
  Rows = 3
  Cols = 3
  Prime = 3
  F <- FVal
  Zero = 0
  One = 1
  Plus <- PlusVal
  Times <- TimesVal
  MinusOne <- MinusOneVal
  Over <- OverVal
SPECIFICATION Spec
INVARIANTS TypeOK SolutionsKept PivotColumns
PROPERTIES Terminates
CHECK_DEADLOCK FALSE
