CONSTANTS
  Slot = {a, b}
  Shapes <- ShapesVal
  F = {0, 1}
  Zero = 0
  Plus <- PlusVal
  Less <- LessVal
  Times <- TimesVal
  Over <- OverVal
  Null = Null
  Free = Free
  Lost = Lost
  Arrays = {r1, r2, r3}
SPECIFICATION Spec
INVARIANTS ArraysOwned
PROPERTIES KeepsValues LostOnlyByMove
SYMMETRY Symmetry
