CONSTANT NET_PKT_COUNT = 4
SPECIFICATION Spec
INVARIANT FreeListSpellsQueue
INVARIANT NoFreePacketLost
PROPERTY PoolSpec
