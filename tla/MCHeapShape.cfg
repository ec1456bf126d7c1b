CONSTANTS
  HeapSize <- MCHeapSize
  HdrSize <- MCHdrSize
  MinSplit <- MCMinSplit
  PtrSize <- MCPtrSize
  SizeWidth <- MCSizeWidth
  Sizes <- MCSizesOdd
  Counts <- MCCounts
  Alignments <- MCAlignments
  MaxAllocs <- MCMaxAllocs

SPECIFICATION Spec
INVARIANT HeapShapeKept
