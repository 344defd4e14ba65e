SPECIFICATION Spec
CONSTANTS
  HCI_ISO_BUF_ALLOC_PER_CHAN = 2
  FLUSH_BOUND = 3
INVARIANT
  FlushWaitsForOngoing
