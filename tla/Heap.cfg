\* Two pages of four smallest chunks to allocate from.
SPECIFICATION Spec
CONSTANTS
  MinChunk = 4
  PageSize = 16
  StackBase = 80
  MemTop = 96
  MaxAlloc = 40
  ZeroOnFree = TRUE
  Segments <- MCSegments
  Sizes = {3, 9}
  Alignments = {8}
  Calls = {"malloc", "posix_memalign", "realloc", "zone_memalign", "zone_free"}
  MaxLive = 2
INVARIANTS Partition ChunksSound LiveBacked NothingLeaks SearchComplete
PROPERTY FreshIsZero
