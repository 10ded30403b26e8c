SPECIFICATION PingSpec
CONSTANTS
  WORD = 24
  MS = 2
  ARP_TIMEOUT = 4
  ARP_TIMEOUT_COUNT = 5
  MAX_GAP = 3
  MAX_PINGS = 2
  CAP = 16
INVARIANT
  PacketPointersKept
