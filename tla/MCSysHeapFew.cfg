CONSTANTS
  blocks_count = 3
  storage = 2
  storage_size = 8
  alignment = 2
  WORD = 16
  Sizes = {1, 2, 3, 5, 8}
SPECIFICATION Spec
PROPERTY CallerOwnsBlock
