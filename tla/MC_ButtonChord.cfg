SPECIFICATION Spec
CONSTANTS
  Buttons = {b1, b2, b3, b4}
  QUEUE_SIZE = 3
  ReadsMayFail = FALSE
  ThreadKeepsUp = TRUE
SYMMETRY ButtonSymmetry
INVARIANT
  CorrectedAfterDebounce
