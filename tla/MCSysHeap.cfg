CONSTANTS
  blocks_count = 4
  storage = 2
  storage_size = 8
  alignment = 2
  WORD = 16
  Sizes = {1, 2, 3, 5, 8, 9, 14}
SPECIFICATION Spec
INVARIANT HeapIntact
INVARIANT DescriptorsConserved
INVARIANT FreeBlocksMerged
PROPERTY AllocatorSpec
