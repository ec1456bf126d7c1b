-------------------------------- MODULE Heap --------------------------------
(***************************************************************************)
(* The kernel heap of src/mm.c: a first-fit allocator over one arena whose *)
(* blocks form a doubly linked list in address order.                      *)
(*                                                                         *)
(* The list is a sequence of block headers in address order: blocks[1] is *)
(* heap_head, blocks[i+1] is blocks[i]->next and blocks[i-1] its ->prev.   *)
(* Addresses are offsets from heap_start (KERNEL_HEAP_START, a multiple of *)
(* 2^21, so an offset is aligned exactly when the address is).  A pointer  *)
(* handed to a caller is the payload address, header address + HdrSize.   *)
(*                                                                         *)
(* The callers of the allocator (shell, file table, kernel) are the        *)
(* environment: live holds what they were given and still own, so that    *)
(* the arguments of kfree/krealloc are pointers the code really receives.  *)
(***************************************************************************)
EXTENDS Integers, Sequences, FiniteSets

LOCAL INSTANCE SequencesExt

CONSTANTS
  HeapSize,    \* KERNEL_HEAP_SIZE, the arena in bytes
  HdrSize,     \* sizeof(mem_block_t)
  MinSplit,    \* slack a split must leave beyond a new header
  PtrSize,     \* sizeof(void* ), the slot kmalloc_aligned stashes
  SizeWidth,   \* bits of size_t
  Sizes,       \* request sizes callers pass
  Counts,      \* element counts passed to kcalloc
  Alignments,  \* alignments passed to kmalloc_aligned
  MaxAllocs    \* bound on mem_stats.num_allocations

ASSUME HeapSize > HdrSize /\ HeapSize % 8 = 0
ASSUME Counts \subseteq Nat \ {0}
ASSUME MaxAllocs \in Nat

VARIABLES
  blocks,     \* the block list from heap_head, in address order
  mem_stats,  \* the running counters of mem_stats_t
  live        \* allocations the callers hold: [ptr, base, align, req]

vars == <<blocks, mem_stats, live>>

NULL == -1

SizeMod == 2 ^ SizeWidth

\* size_t arithmetic wraps modulo 2^SizeWidth.
Wrap(x) == x % SizeMod

\* size = (size + 7) & ~7, computed in size_t.
AlignUp8(size) == LET s == Wrap(size + 7) IN s - (s % 8)

IsPowerOfTwo(a) == \E k \in 0 .. SizeWidth : 2 ^ k = a

Block(a, s, f) == [addr |-> a, size |-> s, is_free |-> f]

-----------------------------------------------------------------------------
(* mm_init: one free block spanning the arena, counters from it.           *)
Init ==
  /\ blocks = << Block(0, HeapSize - HdrSize, TRUE) >>
  /\ mem_stats = [ total_memory       |-> HeapSize,
                   used_memory        |-> 0,
                   free_memory        |-> HeapSize - HdrSize,
                   num_allocations    |-> 0,
                   num_frees          |-> 0,
                   largest_free_block |-> HeapSize - HdrSize ]
  /\ live = {}

\* The index of the block whose payload is ptr: ptr - sizeof(mem_block_t).
BlockOf(bs, ptr) == CHOOSE i \in DOMAIN bs : bs[i].addr + HdrSize = ptr

\* Variant of find_free_block that does not test is_free.
FindFreeBlockAnyState(bs, size) ==
  LET fits == { i \in DOMAIN bs : bs[i].size >= size }
  IN  IF fits = {} THEN 0 ELSE CHOOSE i \in fits : \A j \in fits : i <= j

\* find_free_block: the first block in list order that is free and fits;
\* 0 stands for NULL.
FindFreeBlock(bs, size) ==
  LET fits == { i \in DOMAIN bs : bs[i].is_free /\ bs[i].size >= size }
  IN  IF fits = {} THEN 0 ELSE CHOOSE i \in fits : \A j \in fits : i <= j

\* Variant of split_block with the size guard dropped (always splits).
SplitBlockUnguarded(bs, i, size) ==
  LET tail == Block(bs[i].addr + HdrSize + size,
                    Wrap(bs[i].size - size - HdrSize), TRUE)
  IN  InsertAt([bs EXCEPT ![i].size = size], i + 1, tail)

\* split_block: carve a free tail off block i when it leaves more than a
\* header plus MinSplit bytes; the tail is linked right after block i.
SplitBlock(bs, i, size) ==
  IF bs[i].size > Wrap(size + HdrSize + MinSplit)
  THEN LET tail == Block(bs[i].addr + HdrSize + size,
                         Wrap(bs[i].size - size - HdrSize), TRUE)
       IN  InsertAt([bs EXCEPT ![i].size = size], i + 1, tail)
  ELSE bs

\* Variant of Absorb that forgets the absorbed header's bytes.
AbsorbNoHeader(bs, i) ==
  RemoveAt([bs EXCEPT ![i].size = Wrap(@ + bs[i + 1].size)], i + 1)

\* One step of merge_free_blocks: block i absorbs its successor.
Absorb(bs, i) ==
  RemoveAt([bs EXCEPT ![i].size = Wrap(@ + bs[i + 1].size + HdrSize)], i + 1)

\* Variant of the forward loop written as an if: merges one successor.
MergeNextOnce(bs, i) ==
  IF i < Len(bs) /\ bs[i + 1].is_free THEN Absorb(bs, i) ELSE bs

\* The two while loops of merge_free_blocks: first forward, then backward.
RECURSIVE MergeNext(_, _)
MergeNext(bs, i) ==
  IF i < Len(bs) /\ bs[i + 1].is_free THEN MergeNext(Absorb(bs, i), i) ELSE bs

RECURSIVE MergePrev(_, _)
MergePrev(bs, i) ==
  IF i > 1 /\ bs[i - 1].is_free THEN MergePrev(Absorb(bs, i - 1), i - 1) ELSE bs

MergeFreeBlocks(bs, i) == MergePrev(MergeNext(bs, i), i)

(***************************************************************************)
(* kmalloc as a function of the list and the counters, so that krealloc,  *)
(* kcalloc and kmalloc_aligned can call it: [blocks, stats, ptr].          *)
(***************************************************************************)
KmallocOp(bs, st, size) ==
  LET s == AlignUp8(size)
      i == FindFreeBlock(bs, s)
      sp == SplitBlock(bs, i, s)
      nb == [sp EXCEPT ![i].is_free = FALSE]
  IN  IF size = 0 \/ i = 0
      THEN [blocks |-> bs, stats |-> st, ptr |-> NULL]
      ELSE [blocks |-> nb,
            stats  |-> [st EXCEPT !.used_memory = Wrap(@ + nb[i].size),
                                  !.free_memory = Wrap(@ - nb[i].size),
                                  !.num_allocations = @ + 1],
            ptr    |-> nb[i].addr + HdrSize]

\* kfree of a non-NULL pointer; freeing a free block returns at once.
KfreeOp(bs, st, ptr) ==
  LET i == BlockOf(bs, ptr)
  IN  IF bs[i].is_free
      THEN [blocks |-> bs, stats |-> st]
      ELSE [blocks |-> MergeFreeBlocks([bs EXCEPT ![i].is_free = TRUE], i),
            stats  |-> [st EXCEPT !.used_memory = Wrap(@ - bs[i].size),
                                  !.free_memory = Wrap(@ + bs[i].size),
                                  !.num_frees = @ + 1]]

\* A result of KmallocOp handed to a caller who asked for req bytes.
Grant(r, ptr, align, req) ==
  /\ r.ptr # NULL
  /\ blocks' = r.blocks
  /\ mem_stats' = r.stats
  /\ live' = live \cup {[ptr |-> ptr, base |-> r.ptr, align |-> align, req |-> req]}

CanAllocate == mem_stats.num_allocations < MaxAllocs

\* Allocations a caller may pass back to kfree/krealloc (aligned ones have
\* no matching free path).
Freeable == { l \in live : l.ptr = l.base }

-----------------------------------------------------------------------------
(* kmalloc(size); a NULL result changes nothing and is a stutter.          *)
Kmalloc(size) ==
  /\ CanAllocate
  /\ LET r == KmallocOp(blocks, mem_stats, size) IN Grant(r, r.ptr, 1, size)

(* kfree(ptr) of an allocation the caller owns.                            *)
Kfree(l) ==
  LET r == KfreeOp(blocks, mem_stats, l.ptr)
  IN  /\ blocks' = r.blocks
      /\ mem_stats' = r.stats
      /\ live' = live \ {l}

(* krealloc(ptr, new_size) with ptr non-NULL (a NULL ptr is kmalloc).      *)
KreallocFree(l) == Kfree(l)                        \* new_size == 0

KreallocInPlace(l, n) ==
  LET i == BlockOf(blocks, l.ptr)
  IN  /\ n # 0
      /\ blocks[i].size >= n
      /\ blocks' = SplitBlock(blocks, i, n)
      /\ live' = (live \ {l}) \cup {[l EXCEPT !.req = n]}
      /\ UNCHANGED mem_stats

\* Variant of krealloc's move path that never frees the old block.
KreallocMoveNoFree(l, n) ==
  LET i == BlockOf(blocks, l.ptr)
      r == KmallocOp(blocks, mem_stats, n)
  IN  /\ n # 0
      /\ blocks[i].size < n
      /\ CanAllocate
      /\ r.ptr # NULL
      /\ blocks' = r.blocks
      /\ mem_stats' = r.stats
      /\ live' = (live \ {l}) \cup {[ptr |-> r.ptr, base |-> r.ptr,
                                     align |-> 1, req |-> n]}

KreallocMove(l, n) ==
  LET i == BlockOf(blocks, l.ptr)
      r == KmallocOp(blocks, mem_stats, n)
      f == KfreeOp(r.blocks, r.stats, l.ptr)
  IN  /\ n # 0
      /\ blocks[i].size < n
      /\ CanAllocate
      /\ r.ptr # NULL
      /\ blocks' = f.blocks
      /\ mem_stats' = f.stats
      /\ live' = (live \ {l}) \cup {[ptr |-> r.ptr, base |-> r.ptr,
                                     align |-> 1, req |-> n]}

(* kcalloc(count, size): overflow check by division, then kmalloc; the   *)
(* zero fill writes payload bytes only.                                    *)
Kcalloc(count, size) ==
  LET total == Wrap(count * size)
  IN  /\ total \div count = size
      /\ CanAllocate
      /\ LET r == KmallocOp(blocks, mem_stats, total)
         IN  Grant(r, r.ptr, 1, count * size)

(* kmalloc_aligned(size, alignment): over-allocate and round the payload  *)
(* pointer up; the raw pointer is stashed in the PtrSize bytes before it.  *)
KmallocAligned(size, alignment) ==
  LET total == Wrap(size + alignment + PtrSize)
      r == KmallocOp(blocks, mem_stats, total)
      x == r.ptr + PtrSize + alignment - 1
  IN  /\ alignment # 0
      /\ IsPowerOfTwo(alignment)
      /\ CanAllocate
      /\ Grant(r, x - (x % alignment), alignment, size)

(* mm_get_stats: refresh largest_free_block by a scan of the list.         *)
MmGetStats ==
  LET frees == { blocks[i].size : i \in { j \in DOMAIN blocks : blocks[j].is_free } }
  IN  /\ mem_stats' = [mem_stats EXCEPT !.largest_free_block =
                         IF frees = {} THEN 0
                         ELSE CHOOSE m \in frees : \A s \in frees : m >= s]
      /\ UNCHANGED <<blocks, live>>

(* mm_validate_pointer: non-NULL and inside [heap_start, heap_start +    *)
(* heap_size); addresses here are offsets from heap_start.                 *)
MmValidatePointer(ptr) == ptr # NULL /\ 0 <= ptr /\ ptr < HeapSize

(* mm_check_heap_integrity: walk the list; every header inside the arena, *)
(* next->prev == current (the sequence links both ways by construction),  *)
(* and the sum of size + sizeof(mem_block_t), in size_t, within heap_size. *)
MmCheckHeapIntegrity(bs) ==
  /\ \A i \in DOMAIN bs : 0 <= bs[i].addr /\ bs[i].addr < HeapSize
  /\ FoldLeft(LAMBDA t, b : Wrap(t + b.size + HdrSize), 0, bs) <= HeapSize

Next ==
  \/ \E n \in Sizes : Kmalloc(n)
  \/ \E l \in Freeable : Kfree(l)
  \/ \E l \in Freeable : KreallocFree(l)
  \/ \E l \in Freeable, n \in Sizes : KreallocInPlace(l, n)
  \/ \E l \in Freeable, n \in Sizes : KreallocMove(l, n)
  \/ \E c \in Counts, n \in Sizes : Kcalloc(c, n)
  \/ \E n \in Sizes, a \in Alignments : KmallocAligned(n, a)
  \/ MmGetStats

Spec == Init /\ [][Next]_vars

-----------------------------------------------------------------------------
TypeOK ==
  /\ blocks \in Seq([addr : 0 .. HeapSize - HdrSize,
                     size : 0 .. HeapSize - HdrSize, is_free : BOOLEAN])
  /\ Len(blocks) >= 1
  /\ mem_stats \in [total_memory : Nat, used_memory : 0 .. SizeMod - 1,
                    free_memory : 0 .. SizeMod - 1, num_allocations : Nat,
                    num_frees : Nat, largest_free_block : 0 .. SizeMod - 1]
  /\ \A l \in live : l \in [ptr : Nat, base : Nat, align : Nat, req : Nat]

(* The blocks exactly tile the arena: each header starts where the        *)
(* previous block's payload ends and the last payload ends at the end of  *)
(* the arena.  Split and the two merge loops of kfree recompute addresses *)
(* and sizes; an error in that arithmetic leaves a gap or an overlap.     *)
BlocksTileArena ==
  /\ blocks[1].addr = 0
  /\ \A i \in 1 .. Len(blocks) - 1 :
       blocks[i + 1].addr = blocks[i].addr + HdrSize + blocks[i].size
  /\ blocks[Len(blocks)].addr + HdrSize + blocks[Len(blocks)].size = HeapSize

(* Every allocation a caller holds lies in a used block of its own that   *)
(* is large enough for what the caller asked (kmalloc, kcalloc, krealloc, *)
(* and for kmalloc_aligned from the aligned pointer on): no two callers   *)
(* are ever handed the same memory.                                        *)
LiveAllocationsSound ==
  /\ \A l \in live :
       /\ MmValidatePointer(l.ptr)
       /\ \E i \in DOMAIN blocks : blocks[i].addr + HdrSize = l.base
       /\ LET b == blocks[BlockOf(blocks, l.base)]
          IN  /\ ~b.is_free
              /\ l.ptr % l.align = 0
              /\ l.base + PtrSize <= l.ptr \/ l.ptr = l.base
              /\ l.ptr + l.req <= l.base + b.size
  /\ \A l1, l2 \in live : l1 # l2 => l1.base # l2.base

(* Round trip (spec section 8): once the callers hold no memory, the free *)
(* path has coalesced the arena back into one free block.                  *)
RoundTrip ==
  (\A i \in DOMAIN blocks : blocks[i].is_free) => Len(blocks) = 1

(* Spec section 8, conservation: used + free == arena - header overhead,  *)
(* with used/free the counters kmalloc and kfree maintain.                 *)
StatsConservation ==
  mem_stats.used_memory + mem_stats.free_memory = HeapSize - HdrSize * Len(blocks)

(* Spec section 3: no two adjacent free blocks coexist.                   *)
NoAdjacentFree ==
  \A i \in 1 .. Len(blocks) - 1 : ~(blocks[i].is_free /\ blocks[i + 1].is_free)

(* kmalloc aligns every size to 8 bytes, so every used block's payload is *)
(* 8-byte aligned.                                                         *)
PayloadsAligned ==
  \A i \in DOMAIN blocks : ~blocks[i].is_free => (blocks[i].addr + HdrSize) % 8 = 0

(* The heap keeps the shape spec sections 3 and 4.2 promise after every   *)
(* call, krealloc's in-place shrink (split_block with the caller's        *)
(* unrounded size, no merge) included: no two adjacent free blocks, and   *)
(* every used payload 8-byte aligned.                                     *)
HeapShapeKept == NoAdjacentFree /\ PayloadsAligned

\* The payload of block b: the size bytes after its header.
PayloadOf(b) == [lo |-> b.addr + HdrSize, hi |-> b.addr + HdrSize + b.size]

\* The refinement mapping onto Arena.  A caller's pointer is given the
\* payload of the block it was carved from.  The regions in use are the
\* payloads of the blocks that are not free.
HeldRegions ==
  [p \in { l.ptr : l \in live } |->
     LET l == CHOOSE x \in live : x.ptr = p
     IN  PayloadOf(blocks[BlockOf(blocks, l.base)])]

UsedRegions ==
  { PayloadOf(blocks[i]) : i \in { j \in DOMAIN blocks : ~blocks[j].is_free } }

AR == INSTANCE Arena WITH held <- HeldRegions, used <- UsedRegions

(* kmalloc, kcalloc, kmalloc_aligned, kfree and krealloc implement Arena.  *)
(* Every call either fails and changes nothing, or changes exactly one     *)
(* caller's region: it hands out a new region apart from all in use, takes *)
(* one back, or replaces one.  Every block in use is held by a caller, so  *)
(* krealloc's move path must free the old block after copying, and the     *)
(* merges of kfree must leave every other caller's payload as it was.      *)
ImplementsArena == AR!ASpec

=============================================================================
