------------------------------- MODULE MCHeap -------------------------------
(* Heap instantiated for TLC: a 160-byte arena with the i386 header size   *)
(* (16 bytes) and the code's 32-byte split slack, so that a request of 8   *)
(* or 24 bytes splits the arena a few times before the last block is taken *)
(* whole.  size_t is 16 bits wide so that its wrap-around is representable.*)
EXTENDS Heap

MCHeapSize == 160
MCHdrSize == 16
MCMinSplit == 32
MCPtrSize == 4
MCSizeWidth == 16
MCSizes == {8, 24}
MCCounts == {3}
MCAlignments == {16}
MCMaxAllocs == 5

\* Requests that reach the wrap-around of size_t: 2^16 - 1.
MCSizesOverflow == {8, 65535}

\* A request size that is not a multiple of 8.
MCSizesOdd == {1, 24}
=============================================================================
