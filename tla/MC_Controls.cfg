SPECIFICATION ControlsSpec
CONSTANTS
  Buttons = {1, 2}
  QUEUE_SIZE = 2
  ReadsMayFail = FALSE
  ThreadKeepsUp = FALSE
  MAX_NOTES = 1
  DIVIDER = 1
  key_map <- TwoKeys
INVARIANTS
  NotesFollowPins
  HeldOnce
PROPERTIES
  ButtonSafety
  ArpeggioSafety
