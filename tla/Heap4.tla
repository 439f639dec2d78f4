-------------------------------- MODULE Heap4 --------------------------------
(***************************************************************************)
(* portable/MemMang/heap_4.c: the first-fit allocator with coalescing.     *)
(*                                                                         *)
(* A heap is a record: the block headers in memory (mem), pxEnd,           *)
(* xFreeBytesRemaining (free) and xMinimumEverFreeBytes (min).  The        *)
(* operators take a heap and return the one the C function leaves; the     *)
(* list is walked by following the next pointers, as the code does.        *)
(***************************************************************************)
EXTENDS Integers, FiniteSets

CONSTANTS ucHeap,             \* address of the pool, which may be unaligned
          configTOTAL_HEAP_SIZE,
          heapBYTE_ALIGNMENT,
          xHeapStructSize,    \* sizeof(BlockLink_t), aligned
          heapALLOC_BIT       \* the top bit of a size_t

ASSUME HeapAssumption ==
  /\ ucHeap \in Nat \ {0}
  /\ heapBYTE_ALIGNMENT \in Nat \ {0}
  /\ xHeapStructSize \in Nat \ {0}
  /\ xHeapStructSize % heapBYTE_ALIGNMENT = 0
  /\ configTOTAL_HEAP_SIZE \in Nat
  /\ configTOTAL_HEAP_SIZE >= 2 * (heapBYTE_ALIGNMENT + xHeapStructSize)
  /\ heapALLOC_BIT \in Nat
  /\ heapALLOC_BIT > ucHeap + configTOTAL_HEAP_SIZE

NULL   == -1
xStart == 0       \* the list head is a static, outside of the pool
Word   == 2 * heapALLOC_BIT

Aligned(n) == (n \div heapBYTE_ALIGNMENT) * heapBYTE_ALIGNMENT

\* vPortInitialiseBlocks: where the pool starts and where pxEnd is put.
pucAlignedHeap == Aligned(ucHeap + heapBYTE_ALIGNMENT - 1)
EndAddress ==
  Aligned(pucAlignedHeap + (configTOTAL_HEAP_SIZE - (pucAlignedHeap - ucHeap))
          - xHeapStructSize)

Addresses == {a \in pucAlignedHeap..EndAddress : a % heapBYTE_ALIGNMENT = 0}

\* Memory in which no header is: a header swallowed by its neighbour is
\* forgotten except that its allocated flag is clear.
NoHeader == [next |-> NULL, size |-> 0, alloc |-> FALSE]

\* The static data before the first call.
BlankHeap ==
  [mem   |-> [a \in {xStart} \cup Addresses |-> NoHeader],
   pxEnd |-> NULL, free |-> 0, min |-> 0]

vPortInitialiseBlocks(h) ==
  LET whole == EndAddress - pucAlignedHeap
  IN  [mem   |-> [h.mem EXCEPT ![xStart].next = pucAlignedHeap,
                               ![pucAlignedHeap].size = whole,
                               ![pucAlignedHeap].next = EndAddress],
       pxEnd |-> EndAddress, free |-> whole, min |-> whole]

Ready(h) == IF h.pxEnd = NULL THEN vPortInitialiseBlocks(h) ELSE h

-----------------------------------------------------------------------------
\* Mutant: a freed block is joined to the free block before it even where an
\* allocated one lies between them.
InsertJoinsAcross(mem, end, b) ==
  LET Walk[a \in DOMAIN mem] == IF mem[a].next < b THEN Walk[mem[a].next] ELSE a
      it == Walk[xStart]
  IN  IF it = xStart
      THEN [mem EXCEPT ![it].next = b, ![b].next = mem[it].next]
      ELSE [mem EXCEPT ![it].size = @ + mem[b].size, ![b] = NoHeader]

\* Into the address-ordered list, joined to the free block before it and to
\* the one after it where they touch.
prvInsertBlockIntoFreeList(mem, end, b) ==
  LET Walk[a \in DOMAIN mem] == IF mem[a].next < b THEN Walk[mem[a].next] ELSE a
      it     == Walk[xStart]
      after  == mem[it].next
      behind == it + mem[it].size = b
      blk    == IF behind THEN it ELSE b
      size   == IF behind THEN mem[it].size + mem[b].size ELSE mem[b].size
      ahead  == blk + size = after /\ after # end
      merged == [mem EXCEPT
                   ![blk].size = size + IF ahead THEN mem[after].size ELSE 0,
                   ![blk].next = IF ahead THEN mem[after].next ELSE after,
                   ![b]        = IF behind THEN NoHeader ELSE @]
      linked == [merged EXCEPT ![it].next = IF it # blk THEN blk ELSE @]
  IN  IF ahead THEN [linked EXCEPT ![after] = NoHeader] ELSE linked

Refused(h) == [heap |-> h, p |-> NULL]

\* Mutant: a size with the top bit set is let through, and wraps round.
WantedWraps(n) ==
  LET w == (n + xHeapStructSize) % Word
  IN  Aligned(w + heapBYTE_ALIGNMENT - 1) % Word

\* The block size for a request of n bytes; 0 for one that is turned down.
xWantedSize(n) ==
  LET w == (n + xHeapStructSize) % Word
  IN  IF n = 0 \/ n >= heapALLOC_BIT THEN 0
      ELSE Aligned(w + heapBYTE_ALIGNMENT - 1) % Word

\* The tail of a block becomes a block of its own.
Split(mem, b, w) ==
  [mem EXCEPT ![b + w] = [NoHeader EXCEPT !.size = mem[b].size - w],
              ![b].size = w]

\* First fit over the free list, the remainder given back if it is worth it.
Take(h, w) ==
  LET Fit[a \in DOMAIN h.mem] ==
        LET b == h.mem[a].next
        IN  IF h.mem[b].size < w /\ h.mem[b].next # NULL THEN Fit[b] ELSE a
      previous == Fit[xStart]
      b        == h.mem[previous].next
      unlinked == [h.mem EXCEPT ![previous].next = h.mem[b].next]
      mem      == IF h.mem[b].size - w > 2 * xHeapStructSize
                  THEN prvInsertBlockIntoFreeList(Split(unlinked, b, w), h.pxEnd, b + w)
                  ELSE unlinked
      free     == h.free - mem[b].size
  IN  IF b = h.pxEnd THEN Refused(h)
      ELSE [heap |-> [h EXCEPT !.mem = [mem EXCEPT ![b].alloc = TRUE, ![b].next = NULL],
                               !.free = free,
                               !.min = IF free < @ THEN free ELSE @],
            p    |-> b + xHeapStructSize]

\* The heap and the pointer after pvPortMalloc(n).
pvPortMalloc(h0, n) ==
  LET h == Ready(h0)
      w == xWantedSize(n)
  IN  IF w = 0 \/ w > h.free THEN Refused(h) ELSE Take(h, w)

\* Mutant: the bytes are counted before the allocated flag is looked at.
FreeCountsFirst(h, p) ==
  LET b == p - xHeapStructSize
      c == [h EXCEPT !.free = @ + h.mem[b].size]
  IN  IF p = NULL THEN h
      ELSE IF ~h.mem[b].alloc THEN c
      ELSE [c EXCEPT !.mem = prvInsertBlockIntoFreeList(
                               [@ EXCEPT ![b].alloc = FALSE], h.pxEnd, b)]

\* The heap after vPortFree(p).
vPortFree(h, p) ==
  LET b == p - xHeapStructSize
  IN  IF p = NULL \/ ~h.mem[b].alloc THEN h
      ELSE [h EXCEPT !.free = @ + h.mem[b].size,
                     !.mem = prvInsertBlockIntoFreeList(
                               [@ EXCEPT ![b].alloc = FALSE], h.pxEnd, b)]

-----------------------------------------------------------------------------
Allocated(h) == {a \in Addresses : h.mem[a].alloc}

\* The free blocks in list order.
FreeBlocks(h) ==
  LET After[a \in DOMAIN h.mem] ==
        IF h.mem[a].next \in {NULL, h.pxEnd} THEN {}
        ELSE {h.mem[a].next} \cup After[h.mem[a].next]
  IN  After[xStart]
==============================================================================
