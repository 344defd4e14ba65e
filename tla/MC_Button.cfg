SPECIFICATION Spec
CONSTANTS
  Buttons = {b1, b2}
  QUEUE_SIZE = 3
  ReadsMayFail = TRUE
  ThreadKeepsUp = FALSE
INVARIANTS
  TypeOK
  EventsAlternate
  StateIsReported
  VerifiedAtRest
  IgnoredOnlyWhileTimed
PROPERTY
  CorrectedUnlessRefused
