SPECIFICATION Spec
CONSTANTS
  CONFIG_BT_MAX_CONN = 2
  VOLUMES = 3
  Idle = Idle
  Answered = Answered
  CHANGES_BOUND = 4
INVARIANTS
  SameVolumeAtRest
PROPERTIES
  Settles
