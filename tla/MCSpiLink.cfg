SPECIFICATION FairSpec
CONSTANTS
  WORD = 64
  NET_PKT_MAX_SIZE = 16
  NET_HW_RX_HEADER_SIZE = 8
  REPORT_MAX = 14
  TX_MAX = 5
  FIDS = 2
INVARIANT FrameFits
PROPERTIES CommandLinkSpec FifoWindowKept CallReturns
\* The program stops after its last halt.
CHECK_DEADLOCK FALSE
