SPECIFICATION Spec
CONSTANTS
  Headsets = {h1, h2}
  NoConn = NoConn
  CONFIG_BT_MAX_CONN = 2
  CIS_CONN_RETRY_TIMES = 2
SYMMETRY HeadsetSymmetry
INVARIANT
  RequestsServed
CHECK_DEADLOCK FALSE
