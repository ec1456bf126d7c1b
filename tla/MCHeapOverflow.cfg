CONSTANTS
  HeapSize <- MCHeapSize
  HdrSize <- MCHdrSize
  MinSplit <- MCMinSplit
  PtrSize <- MCPtrSize
  SizeWidth <- MCSizeWidth
  Sizes <- MCSizesOverflow
  Counts <- MCCounts
  Alignments <- MCAlignments
  MaxAllocs <- MCMaxAllocs

SPECIFICATION Spec
INVARIANT LiveAllocationsSound
