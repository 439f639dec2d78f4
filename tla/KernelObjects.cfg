SPECIFICATION Spec
CONSTANTS
  ucHeap = 1
  configTOTAL_HEAP_SIZE = 23
  heapBYTE_ALIGNMENT = 2
  xHeapStructSize = 2
  heapALLOC_BIT = 32
  sizeofQueue = 1
  sizeofTCB = 1
  StackBytes = 3
  Lengths = {1, 2}
  BufferSizes = {0, 2, 7, 30, 63}
  Messages = {a, b}
  Token = token
  Junk = junk
  MaxQueues = 1
INVARIANTS BlocksTileThePool FreeBytesExact NothingLeaks ServesWhatFits
PROPERTIES ImplementsAllocator 
