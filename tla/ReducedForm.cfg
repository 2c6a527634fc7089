CONSTANTS
  Rows = 2
  Cols = 2
  Prime = 3
  F <- FVal
  Zero = 0
  One = 1
  Plus <- PlusVal
  Times <- TimesVal
  MinusOne <- MinusOneVal
  Over <- OverVal
SPECIFICATION Spec
INVARIANT RegularReduced
CHECK_DEADLOCK FALSE
