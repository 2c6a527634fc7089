CONSTANTS
  Texts <- TextsVal
  Parts <- PartsVal
  Digit <- DigitVal
  Others <- OthersVal
  INT_MAX = 80
  MaxDigits = 3
  Obj = {o1, o2, o3}
  Hints = {h1}
  Null = Null
  Empty = Empty
  MaxErrors = 3
  MaxStack = 3
  Uses = {}
  Asked <- Values
  PerSec = 10
  PerMs = 10
  Hz = 5
  IntMax = 31
  MaxBuf = 13
  MaxSet = 2
SYMMETRY Symmetry
SPECIFICATION AllSpec
INVARIANTS AcceptsUrls PartsCompose RoundTrip ReportsOneError ErrorsAreReported NoErrorLost WaitsAsAsked 
CHECK_DEADLOCK FALSE
