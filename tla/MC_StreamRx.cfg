SPECIFICATION RxSpec
CONSTANTS
  Channels = {left, right}
  QUEUE_SIZE = 3
  Blocks = {block1, block2}
  Frames = {frame1, frame2}
  NoFrame = NoFrame
  NoBlock = NoBlock
INVARIANTS TypeOK StreamMatchesLink AudioMatchesState NoCodecFault OverflowNeedsBurst FifoInStep
PROPERTIES FollowsLink ImplementsLossyFifo
CHECK_DEADLOCK FALSE
