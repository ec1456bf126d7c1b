CONSTANTS
  HeapSize <- MCHeapSize
  HdrSize <- MCHdrSize
  MinSplit <- MCMinSplit
  PtrSize <- MCPtrSize
  SizeWidth <- MCSizeWidth
  Sizes <- MCSizes
  Counts <- MCCounts
  Alignments <- MCAlignments
  MaxAllocs <- MCMaxAllocs

SPECIFICATION Spec
INVARIANT TypeOK
INVARIANT BlocksTileArena
INVARIANT LiveAllocationsSound
INVARIANT RoundTrip
PROPERTY ImplementsArena
