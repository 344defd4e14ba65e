SPECIFICATION Spec
CONSTANTS
  FULL = 3
  PHASES = 8
  STEP = 3
  FLOOR = 1
  Curve <- MCCurve
  FADE = 1
  WHOLE = 4
  BUFFER_SIZE = 3
  DELAY = 2
  GAIN = 1
  TICK_PHASES = 5
  TICK_STEP = 3
  MAX_NOTES = 2
  Mode <- MCMode
INVARIANT
  TicksKeepTime
PROPERTIES
  OneShotIsWhole
  ImplementsDelayLine
  FallsQuiet
