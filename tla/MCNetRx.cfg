CONSTANTS
  NET_PKT_COUNT = 6
  ETH_RX_POOL_SIZE = 3
  RESERVED = 2
  CHIP_QUEUE = 2
  d1 = d1
  d2 = d2
  EMPTY = EMPTY
  Data <- TwoContents
  MAX_EMPTY = 1
SPECIFICATION RxFairSpec
INVARIANT RingOwnsItsPackets
INVARIANT NoPacketLeaked
INVARIANT FrameCountHonest
INVARIANT HaltTakesEmptyFrames
PROPERTY RxQueueSpec
PROPERTY ReceiveProgress
