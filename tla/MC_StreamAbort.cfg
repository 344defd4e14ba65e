CONSTANTS
  Channels = {left, right}
  QUEUE_SIZE = 3
SPECIFICATION Spec
INVARIANT EncoderAborted
CHECK_DEADLOCK FALSE
