CONSTANTS
  Programs <- ProgramsVal
  Indexes = {0, 1, 8}
  Lengths = {1, 2}
  Natives = {"Little", "Big"}
  Builds = {TRUE, FALSE}
  SizeT = 8
  MaxFill = 2
SPECIFICATION Spec
INVARIANTS CharsInside ReadBack BytesInOrder
CHECK_DEADLOCK FALSE
