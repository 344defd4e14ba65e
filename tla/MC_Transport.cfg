SPECIFICATION TransportSpec
CONSTANTS
  Channels <- Stereo
  QUEUE_SIZE = 3
  Blocks = {block1, block2}
  Frames = {frame1}
  NoFrame = NoFrame
  NoBlock = NoBlock
  HCI_ISO_BUF_ALLOC_PER_CHAN = 1
  FLUSH_BOUND = 2
INVARIANTS
  SendsWhileStreaming
  QuietWhenDown
PROPERTIES
  StreamSafety
  TransmitSafety
CHECK_DEADLOCK FALSE
