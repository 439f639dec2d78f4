---------------------------- MODULE KernelObjects ----------------------------
(***************************************************************************)
(* Kernel objects in heap memory: queues and semaphores (kernel/queue.c),  *)
(* tasks (the allocation half of xTaskCreate in kernel/tasks.c) and the    *)
(* buffers of malloc and free (port/lwip/lwip_libc.c), all taken from      *)
(* heap_4.  The message storage of a queue is a ring whose two cursors     *)
(* prvCopyIn and prvCopyOut move; blocking is the business of Queue.       *)
(*                                                                         *)
(* pvPortMalloc and vPortFree are atomic steps.  Between two calls of them *)
(* in one kernel function another task may run.                            *)
(***************************************************************************)
EXTENDS Heap4, Sequences, Functions

CONSTANTS sizeofQueue,   \* sizeof(Queue_t)
          sizeofTCB,     \* sizeof(TCB_t)
          StackBytes,    \* usStackDepth * sizeof(StackType_t)
          Lengths,       \* values of uxQueueLength
          BufferSizes,   \* what applications ask of malloc
          Messages,      \* messages, each of one byte
          Token,         \* what a semaphore holds
          Junk,          \* storage that was never written
          MaxQueues      \* bound: queues in use at a time

VARIABLES heap,
          queues,     \* handle -> queue
          stacks,     \* stacks of the tasks being created, with no TCB yet
          orphans,    \* stacks for which there was no TCB, to be given back
          tasks,      \* <<stack, TCB>> of each task created
          buffers,    \* pointers the applications hold
          freed       \* the pointer freed last, while its header is intact

vars == <<heap, queues, stacks, orphans, tasks, buffers, freed>>

-----------------------------------------------------------------------------
\* pcWriteTo and pcReadFrom are counted in items from pcHead; the message
\* read next is the one after pcReadFrom.
NewQueue(len, item, count) ==
  [uxLength |-> len, uxItemSize |-> item, uxMessagesWaiting |-> count,
   pcWriteTo |-> 0, pcReadFrom |-> len - 1, storage |-> [i \in 0..(len - 1) |-> Junk]]

\* Mutant: the read cursor is stepped back first.
CopyInStepsFirst(r, x, xToFront) ==
  LET back == IF r.pcReadFrom = 0 THEN r.uxLength - 1 ELSE r.pcReadFrom - 1
      s    == [r EXCEPT !.uxMessagesWaiting = @ + 1]
  IN  IF r.uxItemSize = 0 THEN s
      ELSE IF xToFront THEN [s EXCEPT !.storage[back] = x, !.pcReadFrom = back]
      ELSE [s EXCEPT !.storage[r.pcWriteTo] = x,
                     !.pcWriteTo = IF @ + 1 >= r.uxLength THEN 0 ELSE @ + 1]

\* To the back at pcWriteTo, to the front at pcReadFrom, which then steps back.
prvCopyIn(r, x, xToFront) ==
  LET s == [r EXCEPT !.uxMessagesWaiting = @ + 1]
  IN  IF r.uxItemSize = 0 THEN s
      ELSE IF xToFront
      THEN [s EXCEPT !.storage[r.pcReadFrom] = x,
                     !.pcReadFrom = IF @ = 0 THEN r.uxLength - 1 ELSE @ - 1]
      ELSE [s EXCEPT !.storage[r.pcWriteTo] = x,
                     !.pcWriteTo = IF @ + 1 >= r.uxLength THEN 0 ELSE @ + 1]

NextRead(r) == IF r.pcReadFrom + 1 >= r.uxLength THEN 0 ELSE r.pcReadFrom + 1

prvCopyOut(r) ==
  IF r.uxItemSize = 0
  THEN [queue |-> [r EXCEPT !.uxMessagesWaiting = @ - 1], item |-> Token]
  ELSE [queue |-> [r EXCEPT !.uxMessagesWaiting = @ - 1, !.pcReadFrom = NextRead(r)],
        item  |-> r.storage[NextRead(r)]]

\* The messages that calls of prvCopyOut would return, in their order.
Contents(r) ==
  LET After[n \in 0..r.uxMessagesWaiting] ==
        IF n = 0 THEN r ELSE prvCopyOut(After[n - 1]).queue
  IN  [i \in 1..r.uxMessagesWaiting |-> prvCopyOut(After[i - 1]).item]

-----------------------------------------------------------------------------
\* pvPortMalloc(n) returns Pointer(n); Malloc(n, p): it is called and returns p.
Pointer(n) == pvPortMalloc(heap, n).p

Malloc(n, p) ==
  LET r == pvPortMalloc(heap, n)
  IN  /\ p = r.p
      /\ heap' = r.heap
      /\ freed' = IF /\ p # NULL /\ freed >= p
                     /\ freed <= p + r.heap.mem[p - xHeapStructSize].size
                  THEN NULL ELSE freed

Free(p) ==
  /\ heap' = vPortFree(heap, p)
  /\ freed' = p

\* xQueueCreate; xQueueCreateMutex and xQueueCreateCounting put their tokens
\* into a queue of items of no size.
xQueueCreate(len, item, count) ==
  \E p \in {Pointer(sizeofQueue + len * item)} :
    /\ Cardinality(DOMAIN queues) < MaxQueues
    /\ Malloc(sizeofQueue + len * item, p)
    /\ queues' = IF p = NULL THEN queues
                 ELSE [q \in DOMAIN queues \cup {p} |->
                         IF q = p THEN NewQueue(len, item, count) ELSE queues[q]]
    /\ UNCHANGED <<stacks, orphans, tasks, buffers>>

vQueueDelete(q) ==
  /\ Free(q)
  /\ queues' = Restrict(queues, DOMAIN queues \ {q})
  /\ UNCHANGED <<stacks, orphans, tasks, buffers>>

xQueueSend(q, x, xToFront) ==
  /\ queues[q].uxMessagesWaiting < queues[q].uxLength
  /\ queues' = [queues EXCEPT ![q] = prvCopyIn(@, x, xToFront)]
  /\ UNCHANGED <<heap, stacks, orphans, tasks, buffers, freed>>

xQueueReceive(q) ==
  /\ queues[q].uxMessagesWaiting > 0
  /\ queues' = [queues EXCEPT ![q] = prvCopyOut(@).queue]
  /\ UNCHANGED <<heap, stacks, orphans, tasks, buffers, freed>>

-----------------------------------------------------------------------------
\* xTaskCreate: the stack first.
CreateStack ==
  /\ \E p \in {Pointer(StackBytes)} :
       Malloc(StackBytes, p) /\ stacks' = IF p = NULL THEN stacks ELSE stacks \cup {p}
  /\ UNCHANGED <<queues, orphans, tasks, buffers>>

\* Mutant: the call fails and the stack is forgotten.
CreateForgetsStack(s) ==
  /\ stacks' = stacks \ {s}
  /\ \E p \in {Pointer(sizeofTCB)} :
       /\ Malloc(sizeofTCB, p)
       /\ tasks' = IF p = NULL THEN tasks ELSE tasks \cup {<<s, p>>}
  /\ UNCHANGED <<queues, orphans, buffers>>

\* Then the TCB.
CreateTCB(s) ==
  /\ stacks' = stacks \ {s}
  /\ \E p \in {Pointer(sizeofTCB)} :
       /\ Malloc(sizeofTCB, p)
       /\ IF p = NULL THEN orphans' = orphans \cup {s} /\ UNCHANGED tasks
                      ELSE tasks' = tasks \cup {<<s, p>>} /\ UNCHANGED orphans
  /\ UNCHANGED <<queues, buffers>>

\* Without one the stack is given back and the call fails.
CreateFails(s) ==
  /\ Free(s)
  /\ orphans' = orphans \ {s}
  /\ UNCHANGED <<queues, stacks, tasks, buffers>>

malloc(n) ==
  /\ \E p \in {Pointer(n)} :
       Malloc(n, p) /\ buffers' = IF p = NULL THEN buffers ELSE buffers \cup {p}
  /\ UNCHANGED <<queues, stacks, orphans, tasks>>

\* free, of a pointer held, or once more of one freed before.
free(p) ==
  /\ Free(p)
  /\ buffers' = buffers \ {p}
  /\ UNCHANGED <<queues, stacks, orphans, tasks>>

-----------------------------------------------------------------------------
Init ==
  /\ heap = BlankHeap
  /\ queues = <<>>
  /\ stacks = {}
  /\ orphans = {}
  /\ tasks = {}
  /\ buffers = {}
  /\ freed = NULL

Next ==
  \/ \E n \in Lengths : xQueueCreate(n, 1, 0)
  \/ \E n \in Lengths : \E c \in 0..n : xQueueCreate(n, 0, c)
  \/ \E q \in DOMAIN queues :
       \/ vQueueDelete(q)
       \/ xQueueReceive(q)
       \/ queues[q].uxItemSize = 0 /\ xQueueSend(q, Token, FALSE)
       \/ /\ queues[q].uxItemSize = 1
          /\ \E x \in Messages, front \in BOOLEAN : xQueueSend(q, x, front)
  \/ CreateStack
  \/ \E s \in stacks : CreateTCB(s)
  \/ \E s \in orphans : CreateFails(s)
  \/ \E n \in BufferSizes : malloc(n)
  \/ \E p \in buffers \cup {freed} : free(p)

Spec == Init /\ [][Next]_vars
-----------------------------------------------------------------------------
Blocks == Allocated(heap) \cup FreeBlocks(heap)

\* Whatever was allocated and freed, the blocks tile the pool: each one ends
\* where another one starts or at pxEnd, and no two free ones touch, so that
\* prvInsertBlockIntoFreeList has joined all that could be joined.
BlocksTileThePool ==
  heap.pxEnd # NULL =>
    /\ pucAlignedHeap \in Blocks
    /\ \A a \in Blocks : a + heap.mem[a].size \in (Blocks \cup {heap.pxEnd}) \ {a}
    /\ \A a, b \in FreeBlocks(heap) : a + heap.mem[a].size # b

\* xFreeBytesRemaining, which pvPortMalloc trusts to turn a request down
\* without looking at the list, is what the free blocks add up to.
FreeBytesExact ==
  heap.pxEnd # NULL =>
    heap.free = FoldFunction(+, 0, [a \in FreeBlocks(heap) |-> heap.mem[a].size])

\* Every allocated block belongs to one object that is still in use, also
\* when xTaskCreate runs out of memory half way.
Owned == DOMAIN queues \cup buffers \cup {t[1] : t \in tasks} \cup {t[2] : t \in tasks}
         \cup stacks \cup orphans
NothingLeaks == Allocated(heap) = {p - xHeapStructSize : p \in Owned}

\* heap_4 is an allocator: whatever is allocated lies in the pool and is
\* clear of all that is allocated already.
Alloc == INSTANCE Allocator WITH
  Lo <- pucAlignedHeap, Hi <- EndAddress, Align <- heapBYTE_ALIGNMENT,
  live <- [a \in Allocated(heap) |-> heap.mem[a].size]
ImplementsAllocator == Alloc!Spec

\* A request is served, with the room asked for behind the header, exactly
\* when a gap between the allocated blocks is large enough for it: neither
\* the split nor the fragmentation of the free list hides memory.
ServesWhatFits ==
  \A n \in BufferSizes :
    LET r == pvPortMalloc(heap, n)
        b == r.p - xHeapStructSize
    IN  IF n > 0 /\ Alloc!Fits(Aligned(n + xHeapStructSize + heapBYTE_ALIGNMENT - 1))
        THEN r.p # NULL /\ r.heap.mem[b].size >= n + xHeapStructSize
        ELSE r.p = NULL

\* The rings are queues: whatever the order of sends to either end and of
\* receives, the cursors, wrapping on their own, lose and repeat no message.
MQ == INSTANCE MessageQueues WITH
  Handles <- Addresses, Tokens <- UNION {0..n : n \in Lengths},
  contents <- [q \in DOMAIN queues |-> Contents(queues[q])]
ImplementsQueues == MQ!Spec
==============================================================================
