----------------------------- MODULE QueueProofs -----------------------------
(***************************************************************************)
(* The invariants of Queue for any number of tasks, priorities, queues and *)
(* mutexes, any tick width and any arguments of the calls.  IInv is        *)
(* inductive: the properties checked by TLC need each other (a wake-up     *)
(* keeps a task on one list because its event item is only on an event     *)
(* list while its state item is blocked; a switch finds a task because the *)
(* idle task is never a mutex holder, hence never moved; ...).             *)
(***************************************************************************)
EXTENDS Queue, SchedulerProofs

\* Every created task is on a list, the idle task is ready once the scheduler
\* runs, and a task between two kernel calls is ready while it runs.
ListsInv ==
  /\ KernelGood(kernel)
  /\ irq \in {"none", "tick"}
  /\ at \in [AllTasks -> Places]
  /\ \A x \in AllTasks : at[x] # "none" <=> x \in BlockedItems(kernel) \cup ReadyItems(kernel)
  /\ kernel.xSchedulerRunning => /\ Idle \in ReadyItems(kernel)
                                 /\ kernel.pxCurrentTCB \in AllTasks
  /\ ~kernel.xSchedulerRunning => at[Idle] = "none" /\ irq = "none"
  /\ /\ kernel.pxCurrentTCB # NULL
     /\ at[kernel.pxCurrentTCB] \in {"run", "block", "recheck"}
     => kernel.pxCurrentTCB \in ReadyItems(kernel)

\* A task inside a blocking call knows what it waits for, and nobody waits to
\* give a mutex.
CallInv ==
  /\ call \in [AllTasks -> Calls \cup {NoCall}]
  /\ \A t \in Tasks : at[t] \in {"block", "wait", "recheck"} =>
       call[t] \in Calls /\ (call[t].op = "send" => call[t].q \notin Mutexes)

\* The token of a mutex is in the queue or with the holder; callers that look
\* at the result of xSemaphoreTake believe to own it exactly when they do.
TokenInv ==
  /\ uxMessagesWaiting \in [Queues -> Nat]
  /\ pxMutexHolder \in [Queues -> Tasks \cup {NULL}]
  /\ owns \subseteq Tasks \X Mutexes
  /\ CountBounded
  /\ \A m \in Mutexes : \/ uxMessagesWaiting[m] = 1 /\ pxMutexHolder[m] = NULL
                        \/ uxMessagesWaiting[m] = 0 /\ pxMutexHolder[m] \in Tasks
  /\ ChecksResult => \A m \in Mutexes, t \in Tasks :
                       <<t, m>> \in owns <=> t = pxMutexHolder[m]

\* The inductive invariant.
IInv == ListsInv /\ CallInv /\ TokenInv /\ BoostedHoldsMutex

-----------------------------------------------------------------------------
\* The invariant holds when the first function of the kernel is called.
LEMMA InitInv == Init => IInv
  <1> SUFFICES ASSUME Init PROVE IInv
    OBVIOUS
  <1> USE DEF Init, SchedInit
  <1>1. /\ KernelGood(kernel)
        /\ ReadyItems(kernel) = {}
        /\ BlockedItems(kernel) = {}
    BY InitGood
  <1>2. /\ kernel.pxCurrentTCB = NULL
        /\ kernel.xSchedulerRunning = FALSE
        /\ kernel.uxPriority = [t \in AllTasks |-> uxBasePriority(t)]
    BY DEF prvInitialiseTaskLists
  <1>3. ListsInv
    <2>1. at \in [AllTasks -> Places] /\ \A x \in AllTasks : at[x] = "none"
      BY DEF Places
    <2>2. Idle \in AllTasks
      BY DEF AllTasks
    <2> QED BY <1>1, <1>2, <2>1, <2>2 DEF ListsInv
  <1>4. CallInv
    BY DEF CallInv, AllTasks
  <1>5. TokenInv
    <2>1. \A m \in Mutexes : m \in Queues /\ InitialCount[m] = 1
      BY QueueAssumption
    <2>2. NULL \notin Tasks
      BY SchedulerAssumption DEF AllTasks
    <2>3. InitialCount \in [Queues -> Nat] /\ CountBounded
      BY QueueAssumption DEF CountBounded
    <2> QED BY <2>1, <2>2, <2>3 DEF TokenInv
  <1>6. BoostedHoldsMutex
    BY <1>2 DEF BoostedHoldsMutex
  <1> QED BY <1>3, <1>4, <1>5, <1>6 DEF IInv

\* The fields that IInv constrains, as steps need them.
LEMMA TaskFacts ==
  ASSUME IInv, NEW t \in Tasks, Running(t)
  PROVE  /\ KernelGood(kernel)
         /\ kernel.xSchedulerRunning
         /\ kernel.pxCurrentTCB = t
         /\ t \in AllTasks /\ Idle \in AllTasks /\ t # Idle /\ t # NULL
         /\ Idle \in ReadyItems(kernel)
         /\ at[t] \in {"run", "block", "recheck"} => t \in ReadyItems(kernel)
         /\ kernel.uxPriority \in [AllTasks -> Priorities]
  <1>1. KernelGood(kernel)
    BY DEF IInv, ListsInv
  <1>2. kernel \in KernelType
    BY <1>1 DEF KernelGood
  <1> QED BY <1>1, <1>2, Fields, SchedulerAssumption DEF IInv, ListsInv, Running, AllTasks

\* A step of the running task that leaves the created tasks on the lists and
\* the idle task ready preserves ListsInv.
LEMMA TaskLists ==
  ASSUME IInv, NEW t \in Tasks, Running(t), at[t] # "none",
         NEW R, NEW B, NEW c, NEW priority, NEW y \in Places \ {"none"},
         Becomes(kernel, kernel', R, B, c, priority),
         R \cup B = ReadyItems(kernel) \cup BlockedItems(kernel),
         c \in AllTasks, Idle \in R,
         irq' = irq, at' = [at EXCEPT ![t] = y],
         at'[c] \in {"run", "block", "recheck"} => c \in R
  PROVE  ListsInv'
  <1>1. /\ KernelGood(kernel')
        /\ ReadyItems(kernel') = R
        /\ BlockedItems(kernel') = B
        /\ kernel'.pxCurrentTCB = c
        /\ kernel'.xSchedulerRunning = kernel.xSchedulerRunning
    BY DEF Becomes
  <1>2. /\ at \in [AllTasks -> Places]
        /\ \A x \in AllTasks : at[x] # "none" <=> x \in BlockedItems(kernel) \cup ReadyItems(kernel)
        /\ irq \in {"none", "tick"}
    BY DEF IInv, ListsInv
  <1>3. t \in AllTasks /\ kernel.xSchedulerRunning
    BY TaskFacts
  <1>4. /\ at' \in [AllTasks -> Places]
        /\ \A x \in AllTasks : at'[x] # "none" <=> at[x] # "none"
    BY <1>2, <1>3
  <1>5. \A x \in AllTasks : at'[x] # "none" <=> x \in B \cup R
    BY <1>2, <1>4
  <1> QED BY <1>1, <1>2, <1>3, <1>4, <1>5 DEF ListsInv

\* A step that changes no priority and no holder keeps the boosts justified.
LEMMA SameBoost ==
  ASSUME BoostedHoldsMutex, kernel'.uxPriority = kernel.uxPriority,
         pxMutexHolder' = pxMutexHolder
  PROVE  BoostedHoldsMutex'
  BY DEF BoostedHoldsMutex
-----------------------------------------------------------------------------
\* The successful critical section of prvSend wakes at most one task and
\* returns the holder of a mutex, nobody else, to its base priority.
LEMMA SendKernel ==
  ASSUME IInv, NEW t \in Tasks, NEW q \in Queues, Send(t, q)
  PROVE  \E woken \in SUBSET BlockedItems(kernel), priority \in [AllTasks -> Priorities] :
           /\ Becomes(kernel, kernel', ReadyItems(kernel) \cup woken,
                      BlockedItems(kernel) \ woken, kernel.pxCurrentTCB, priority)
           /\ \A x \in AllTasks :
                \/ priority[x] = kernel.uxPriority[x] /\ ~(q \in Mutexes /\ x = pxMutexHolder[q])
                \/ priority[x] = uxBasePriority(x)
  <1> DEFINE k == IF q \in Mutexes
                  THEN vTaskPriorityDisinherit(kernel, pxMutexHolder[q]) ELSE kernel
             e == xTasksWaitingToReceive(q)
  <1>1. /\ KernelGood(kernel)
        /\ pxMutexHolder[q] \in AllTasks \cup {NULL}
    BY DEF IInv, ListsInv, TokenInv, AllTasks
  <1>2. kernel.uxPriority \in [AllTasks -> Priorities]
    BY <1>1, Fields DEF KernelGood
  <1>3. PICK priority \in [AllTasks -> Priorities] :
          /\ Becomes(kernel, k, ReadyItems(kernel), BlockedItems(kernel),
                     kernel.pxCurrentTCB, priority)
          /\ \A x \in AllTasks :
               \/ priority[x] = kernel.uxPriority[x] /\ ~(q \in Mutexes /\ x = pxMutexHolder[q])
               \/ priority[x] = uxBasePriority(x)
    <2>1. CASE q \in Mutexes
      <3>1. k = vTaskPriorityDisinherit(kernel, pxMutexHolder[q])
        BY <2>1
      <3> QED BY <1>1, <2>1, <3>1, DisinheritGood
    <2>2. CASE q \notin Mutexes
      <3>1. k = kernel
        BY <2>2
      <3> QED BY <1>1, <1>2, <2>2, <3>1 DEF Becomes
    <2> QED BY <2>1, <2>2
  <1>4. kernel' = xTaskRemoveFromEventList(k, e)
    BY DEF Send
  <1> HIDE DEF k
  <1>5. /\ KernelGood(k)
        /\ ReadyItems(k) = ReadyItems(kernel)
        /\ BlockedItems(k) = BlockedItems(kernel)
        /\ k.pxCurrentTCB = kernel.pxCurrentTCB
        /\ k.uxPriority = priority
        /\ k.xSchedulerRunning = kernel.xSchedulerRunning
    BY <1>3 DEF Becomes
  <1>6. e \in EventLists
    BY DEF xTasksWaitingToReceive, EventLists
  <1>7. PICK woken \in SUBSET BlockedItems(k) :
          Becomes(k, kernel', ReadyItems(k) \cup woken, BlockedItems(k) \ woken,
                  k.pxCurrentTCB, k.uxPriority)
    BY <1>4, <1>5, <1>6, WakeGood
  <1>8. Becomes(kernel, kernel', ReadyItems(kernel) \cup woken,
                BlockedItems(kernel) \ woken, kernel.pxCurrentTCB, priority)
    BY <1>5, <1>7 DEF Becomes
  <1> QED BY <1>3, <1>5, <1>7, <1>8

\* The successful critical section of xQueueReceive wakes at most one task.
LEMMA ReceiveKernel ==
  ASSUME IInv, NEW t \in Tasks, NEW q \in Queues, Receive(t, q)
  PROVE  \E woken \in SUBSET BlockedItems(kernel) :
           Becomes(kernel, kernel', ReadyItems(kernel) \cup woken,
                   BlockedItems(kernel) \ woken, kernel.pxCurrentTCB, kernel.uxPriority)
  <1>1. KernelGood(kernel)
    BY DEF IInv, ListsInv
  <1>2. xTasksWaitingToSend(q) \in EventLists
    BY DEF xTasksWaitingToSend, EventLists
  <1>3. kernel' = xTaskRemoveFromEventList(kernel, xTasksWaitingToSend(q))
    BY DEF Receive
  <1> QED BY <1>1, <1>2, <1>3, WakeGood

\* A call that returns leaves nothing behind.
LEMMA ReturnCall ==
  ASSUME IInv, NEW t \in Tasks, NEW yield, Return(t, yield)
  PROVE  /\ CallInv'
         /\ \E y \in {"run", "yield"} : at' = [at EXCEPT ![t] = y]
  <1>1. t \in AllTasks /\ at \in [AllTasks -> Places]
    BY DEF IInv, ListsInv, AllTasks
  <1>2. PICK y \in {"run", "yield"} : at' = [at EXCEPT ![t] = y]
    BY DEF Return
  <1>3. /\ call' \in [AllTasks -> Calls \cup {NoCall}]
        /\ \A x \in Tasks : x # t => at'[x] = at[x] /\ call'[x] = call[x]
        /\ at'[t] \notin {"block", "wait", "recheck"}
    BY <1>1, <1>2 DEF Return, IInv, CallInv, AllTasks
  <1>4. CallInv'
    BY <1>3 DEF IInv, CallInv
  <1> QED BY <1>2, <1>4

\* What Send preserves, from the first critical section or the third.
LEMMA SendInv ==
  ASSUME IInv, NEW t \in Tasks, NEW q \in Queues, Running(t),
         at[t] \in {"run", "recheck"}, CanSend(q), Send(t, q),
         q \in Mutexes => <<t, q>> \in owns
  PROVE  IInv' /\ SwitchStep
  <1> DEFINE cur == kernel.pxCurrentTCB
  <1>1. /\ t \in AllTasks /\ cur = t /\ t # NULL
        /\ t \in ReadyItems(kernel) /\ Idle \in ReadyItems(kernel)
        /\ kernel.uxPriority \in [AllTasks -> Priorities]
    BY TaskFacts
  <1>2. PICK woken \in SUBSET BlockedItems(kernel), priority \in [AllTasks -> Priorities] :
          /\ Becomes(kernel, kernel', ReadyItems(kernel) \cup woken,
                     BlockedItems(kernel) \ woken, cur, priority)
          /\ \A x \in AllTasks :
               \/ priority[x] = kernel.uxPriority[x] /\ ~(q \in Mutexes /\ x = pxMutexHolder[q])
               \/ priority[x] = uxBasePriority(x)
    BY SendKernel
  <1>3. Return(t, ShouldYield(IF q \in Mutexes
                              THEN vTaskPriorityDisinherit(kernel, pxMutexHolder[q])
                              ELSE kernel, xTasksWaitingToReceive(q)))
    BY DEF Send
  <1>4. CallInv' /\ \E y \in {"run", "yield"} : at' = [at EXCEPT ![t] = y]
    BY <1>3, ReturnCall
  <1>5. ListsInv'
    <2>1. PICK y \in {"run", "yield"} : at' = [at EXCEPT ![t] = y]
      BY <1>4
    <2>2. y \in Places \ {"none"} /\ at[t] # "none"
      BY DEF Places
    <2>3. irq' = irq
      BY DEF Send
    <2>4. (ReadyItems(kernel) \cup woken) \cup (BlockedItems(kernel) \ woken)
            = ReadyItems(kernel) \cup BlockedItems(kernel)
      OBVIOUS
    <2>5. cur \in ReadyItems(kernel) \cup woken /\ Idle \in ReadyItems(kernel) \cup woken
      BY <1>1
    <2> QED BY <1>1, <1>2, <2>1, <2>2, <2>3, <2>4, <2>5, TaskLists
  <1>6. TokenInv'
    <2>1. /\ uxMessagesWaiting' = [uxMessagesWaiting EXCEPT ![q] = @ + 1]
          /\ pxMutexHolder' = IF q \in Mutexes THEN [pxMutexHolder EXCEPT ![q] = NULL]
                              ELSE pxMutexHolder
          /\ owns' = owns \ {<<t, q>>}
      BY DEF Send
    <2>2. TokenInv
      BY DEF IInv
    <2>3. /\ uxMessagesWaiting' \in [Queues -> Nat]
          /\ uxMessagesWaiting'[q] = uxMessagesWaiting[q] + 1
          /\ \A x \in Queues : x # q => uxMessagesWaiting'[x] = uxMessagesWaiting[x]
      BY <2>1, <2>2 DEF TokenInv
    <2>4. CountBounded'
      BY <2>2, <2>3, QueueAssumption DEF TokenInv, CountBounded, CanSend
    <2>5. /\ pxMutexHolder' \in [Queues -> Tasks \cup {NULL}]
          /\ q \in Mutexes => pxMutexHolder'[q] = NULL
          /\ \A x \in Queues : x # q => pxMutexHolder'[x] = pxMutexHolder[x]
      BY <2>1, <2>2 DEF TokenInv
    <2>6. \A m \in Mutexes : m \in Queues /\ uxLength[m] = 1
      BY QueueAssumption
    <2>7. \A m \in Mutexes : \/ uxMessagesWaiting'[m] = 1 /\ pxMutexHolder'[m] = NULL
                             \/ uxMessagesWaiting'[m] = 0 /\ pxMutexHolder'[m] \in Tasks
      BY <2>2, <2>3, <2>5, <2>6 DEF TokenInv, CanSend
    <2>8. ChecksResult => \A m \in Mutexes, x \in Tasks :
                            <<x, m>> \in owns' <=> x = pxMutexHolder'[m]
      <3> SUFFICES ASSUME ChecksResult, NEW m \in Mutexes, NEW x \in Tasks
                   PROVE  <<x, m>> \in owns' <=> x = pxMutexHolder'[m]
        OBVIOUS
      <3>1. \A z \in Mutexes, u \in Tasks : <<u, z>> \in owns <=> u = pxMutexHolder[z]
        BY <2>2 DEF TokenInv
      <3>2. NULL \notin Tasks
        BY SchedulerAssumption DEF AllTasks
      <3>3. CASE m = q
        BY <2>1, <2>5, <3>1, <3>2, <3>3
      <3>4. CASE m # q
        BY <2>1, <2>5, <2>6, <3>1, <3>4
      <3> QED BY <3>3, <3>4
    <2> QED BY <2>1, <2>2, <2>3, <2>4, <2>5, <2>7, <2>8 DEF TokenInv
  <1>7. BoostedHoldsMutex'
    <2> SUFFICES ASSUME NEW x \in AllTasks, priority[x] # uxBasePriority(x)
                 PROVE  /\ priority[x] > uxBasePriority(x)
                        /\ \E m \in Mutexes : pxMutexHolder'[m] = x
      BY <1>2 DEF BoostedHoldsMutex, Becomes
    <2>1. priority[x] = kernel.uxPriority[x] /\ ~(q \in Mutexes /\ x = pxMutexHolder[q])
      BY <1>2
    <2>2. PICK m \in Mutexes : pxMutexHolder[m] = x
      BY <2>1 DEF IInv, BoostedHoldsMutex
    <2>3. m # q
      BY <2>1, <2>2
    <2>4. pxMutexHolder'[m] = pxMutexHolder[m]
      BY <2>3, QueueAssumption DEF Send, IInv, TokenInv
    <2> QED BY <2>1, <2>2, <2>4 DEF IInv, BoostedHoldsMutex
  <1>8. SwitchStep
    BY <1>2 DEF SwitchStep, Becomes
  <1> QED BY <1>4, <1>5, <1>6, <1>7, <1>8 DEF IInv
\* What Receive preserves, from the first critical section or the third.
LEMMA ReceiveInv ==
  ASSUME IInv, NEW t \in Tasks, NEW q \in Queues, Running(t),
         at[t] \in {"run", "recheck"}, CanReceive(q), Receive(t, q)
  PROVE  IInv' /\ SwitchStep
  <1> DEFINE cur == kernel.pxCurrentTCB
  <1>1. /\ t \in AllTasks /\ cur = t /\ t # NULL
        /\ t \in ReadyItems(kernel) /\ Idle \in ReadyItems(kernel)
    BY TaskFacts
  <1>2. PICK woken \in SUBSET BlockedItems(kernel) :
          Becomes(kernel, kernel', ReadyItems(kernel) \cup woken,
                  BlockedItems(kernel) \ woken, cur, kernel.uxPriority)
    BY ReceiveKernel
  <1>3. Return(t, ShouldYield(kernel, xTasksWaitingToSend(q)))
    BY DEF Receive
  <1>4. CallInv' /\ \E y \in {"run", "yield"} : at' = [at EXCEPT ![t] = y]
    BY <1>3, ReturnCall
  <1>5. ListsInv'
    <2>1. PICK y \in {"run", "yield"} : at' = [at EXCEPT ![t] = y]
      BY <1>4
    <2>2. y \in Places \ {"none"} /\ at[t] # "none"
      BY DEF Places
    <2>3. irq' = irq
      BY DEF Receive
    <2>4. (ReadyItems(kernel) \cup woken) \cup (BlockedItems(kernel) \ woken)
            = ReadyItems(kernel) \cup BlockedItems(kernel)
      OBVIOUS
    <2>5. cur \in ReadyItems(kernel) \cup woken /\ Idle \in ReadyItems(kernel) \cup woken
      BY <1>1
    <2> QED BY <1>1, <1>2, <2>1, <2>2, <2>3, <2>4, <2>5, TaskLists
  <1>6. /\ uxMessagesWaiting' = [uxMessagesWaiting EXCEPT ![q] = @ - 1]
        /\ pxMutexHolder' = IF q \in Mutexes THEN [pxMutexHolder EXCEPT ![q] = t]
                            ELSE pxMutexHolder
        /\ owns' = IF q \in Mutexes THEN owns \cup {<<t, q>>} ELSE owns
    BY DEF Receive
  <1>7. TokenInv
    BY DEF IInv
  <1>8. \A m \in Mutexes : m \in Queues /\ uxLength[m] = 1
    BY QueueAssumption
  <1>9. /\ pxMutexHolder' \in [Queues -> Tasks \cup {NULL}]
        /\ q \in Mutexes => pxMutexHolder'[q] = t
        /\ \A x \in Queues : x # q => pxMutexHolder'[x] = pxMutexHolder[x]
    BY <1>6, <1>7 DEF TokenInv
  <1>10. q \in Mutexes => pxMutexHolder[q] = NULL
    BY <1>7 DEF TokenInv, CanReceive
  <1>11. TokenInv'
    <2>1. /\ uxMessagesWaiting' \in [Queues -> Nat]
          /\ uxMessagesWaiting'[q] = uxMessagesWaiting[q] - 1
          /\ \A x \in Queues : x # q => uxMessagesWaiting'[x] = uxMessagesWaiting[x]
      BY <1>6, <1>7 DEF TokenInv, CanReceive
    <2>2. CountBounded'
      BY <1>7, <2>1, QueueAssumption DEF TokenInv, CountBounded
    <2>3. \A m \in Mutexes : \/ uxMessagesWaiting'[m] = 1 /\ pxMutexHolder'[m] = NULL
                             \/ uxMessagesWaiting'[m] = 0 /\ pxMutexHolder'[m] \in Tasks
      BY <1>7, <1>8, <1>9, <2>1 DEF TokenInv, CanReceive
    <2>4. owns' \subseteq Tasks \X Mutexes
      BY <1>6, <1>7 DEF TokenInv
    <2>5. ChecksResult => \A m \in Mutexes, x \in Tasks :
                            <<x, m>> \in owns' <=> x = pxMutexHolder'[m]
      <3> SUFFICES ASSUME ChecksResult, NEW m \in Mutexes, NEW x \in Tasks
                   PROVE  <<x, m>> \in owns' <=> x = pxMutexHolder'[m]
        OBVIOUS
      <3>1. \A z \in Mutexes, u \in Tasks : <<u, z>> \in owns <=> u = pxMutexHolder[z]
        BY <1>7 DEF TokenInv
      <3>2. NULL \notin Tasks
        BY SchedulerAssumption DEF AllTasks
      <3>3. CASE m = q
        BY <1>6, <1>9, <1>10, <3>1, <3>2, <3>3
      <3>4. CASE m # q
        BY <1>6, <1>8, <1>9, <3>1, <3>4
      <3> QED BY <3>3, <3>4
    <2> QED BY <1>9, <2>1, <2>2, <2>3, <2>4, <2>5 DEF TokenInv
  <1>12. BoostedHoldsMutex'
    <2> SUFFICES ASSUME NEW x \in AllTasks, kernel.uxPriority[x] # uxBasePriority(x)
                 PROVE  /\ kernel.uxPriority[x] > uxBasePriority(x)
                        /\ \E m \in Mutexes : pxMutexHolder'[m] = x
      BY <1>2 DEF BoostedHoldsMutex, Becomes
    <2>1. PICK m \in Mutexes : pxMutexHolder[m] = x
      BY DEF IInv, BoostedHoldsMutex
    <2>2. m # q
      BY <1>10, <2>1, Constants
    <2>3. pxMutexHolder'[m] = x
      BY <1>8, <1>9, <2>1, <2>2
    <2> QED BY <2>3 DEF IInv, BoostedHoldsMutex
  <1>13. SwitchStep
    BY <1>2 DEF SwitchStep, Becomes
  <1> QED BY <1>4, <1>5, <1>11, <1>12, <1>13 DEF IInv

\* The kernel is not touched between the first and the second section.
LEMMA StartWaitingInv ==
  ASSUME IInv, NEW t \in Tasks, NEW q \in Queues, NEW n \in Waits,
         NEW op \in {"send", "receive"}, op = "send" => q \notin Mutexes,
         Running(t), at[t] = "run", StartWaiting(t, op, q, n)
  PROVE  IInv' /\ SwitchStep
  <1> DEFINE cur == kernel.pxCurrentTCB
             new == [op |-> op, q |-> q, ticks |-> n]
  <1>1. /\ KernelGood(kernel)
        /\ t \in AllTasks /\ cur = t
        /\ t \in ReadyItems(kernel) /\ Idle \in ReadyItems(kernel)
    BY TaskFacts
  <1>2. /\ at' = [at EXCEPT ![t] = "block"]
        /\ call' = [call EXCEPT ![t] = new]
        /\ kernel' = kernel /\ irq' = irq
        /\ uxMessagesWaiting' = uxMessagesWaiting
        /\ pxMutexHolder' = pxMutexHolder
        /\ owns' = owns
    BY DEF StartWaiting
  <1>3. Becomes(kernel, kernel', ReadyItems(kernel), BlockedItems(kernel), cur,
                kernel.uxPriority)
    BY <1>1, <1>2 DEF Becomes
  <1>4. ListsInv'
    BY <1>1, <1>2, <1>3, TaskLists DEF Places
  <1>5. /\ new \in Calls
        /\ new.op = "send" => new.q \notin Mutexes
    BY QueueAssumption DEF StartWaiting, Calls
  <1> HIDE DEF new
  <1>6. CallInv'
    <2>1. at \in [AllTasks -> Places] /\ CallInv
      BY DEF IInv, ListsInv
    <2>2. /\ call' \in [AllTasks -> Calls \cup {NoCall}]
          /\ call'[t] = new
          /\ \A x \in Tasks : x # t => at'[x] = at[x] /\ call'[x] = call[x]
      BY <1>1, <1>2, <1>5, <2>1 DEF CallInv, AllTasks
    <2> QED BY <1>5, <2>1, <2>2 DEF CallInv
  <1>7. TokenInv'
    BY <1>2 DEF IInv, TokenInv, CountBounded
  <1>8. BoostedHoldsMutex'
    BY <1>2, SameBoost DEF IInv
  <1>9. SwitchStep
    BY <1>2 DEF SwitchStep
  <1> QED BY <1>4, <1>6, <1>7, <1>8, <1>9 DEF IInv

\* The second critical section.
LEMMA BlockInv ==
  ASSUME IInv, NEW t \in Tasks, Block(t)
  PROVE  IInv' /\ SwitchStep
  <1> DEFINE cur == kernel.pxCurrentTCB
             q == call[t].q
             k == IF call[t].op = "receive" /\ q \in Mutexes
                  THEN vTaskPriorityInherit(kernel, pxMutexHolder[q]) ELSE kernel
             e == <<q, call[t].op>>
             n == call[t].ticks
  <1>0. Running(t) /\ at[t] = "block"
    BY DEF Block
  <1>1. /\ KernelGood(kernel)
        /\ t \in AllTasks /\ cur = t /\ t # Idle
        /\ t \in ReadyItems(kernel) /\ Idle \in ReadyItems(kernel)
        /\ kernel.uxPriority \in [AllTasks -> Priorities]
    BY <1>0, TaskFacts
  <1>2. call[t] \in Calls
    BY <1>0 DEF IInv, CallInv
  <1>3. q \in Queues /\ e \in EventLists /\ n \in Ticks
    BY <1>2 DEF Calls, EventLists
  <1>4. /\ kernel' = vTaskPlaceOnEventList(k, e, n)
        /\ at' = [at EXCEPT ![t] = "wait"]
        /\ irq' = irq
        /\ uxMessagesWaiting' = uxMessagesWaiting
        /\ pxMutexHolder' = pxMutexHolder
        /\ call' = call /\ owns' = owns
    BY DEF Block, queueVars
  <1>5. TokenInv /\ BoostedHoldsMutex /\ pxMutexHolder[q] \in AllTasks \cup {NULL}
    BY <1>3 DEF IInv, TokenInv, AllTasks
  <1>6. PICK priority \in [AllTasks -> Priorities] :
          /\ Becomes(kernel, k, ReadyItems(kernel), BlockedItems(kernel), cur, priority)
          /\ \A x \in AllTasks :
               \/ priority[x] = kernel.uxPriority[x]
               \/ /\ q \in Mutexes /\ x = pxMutexHolder[q]
                  /\ priority[x] >= kernel.uxPriority[x]
    <2>1. CASE call[t].op = "receive" /\ q \in Mutexes
      <3>1. k = vTaskPriorityInherit(kernel, pxMutexHolder[q])
        BY <2>1
      <3> QED BY <1>1, <1>5, <2>1, <3>1, InheritGood, SMTT(20)
    <2>2. CASE ~(call[t].op = "receive" /\ q \in Mutexes)
      <3>1. k = kernel
        BY <2>2
      <3> QED BY <1>1, <3>1 DEF Becomes
    <2> QED BY <2>1, <2>2
  <1> HIDE DEF k, q, e, n
  <1>7. /\ KernelGood(k)
        /\ ReadyItems(k) = ReadyItems(kernel)
        /\ BlockedItems(k) = BlockedItems(kernel)
        /\ k.pxCurrentTCB = cur
        /\ k.uxPriority = priority
        /\ k.xSchedulerRunning = kernel.xSchedulerRunning
    BY <1>6 DEF Becomes
  <1>8. Becomes(k, kernel', ReadyItems(k) \ {cur}, BlockedItems(k) \cup {cur}, cur, priority)
    BY <1>1, <1>3, <1>4, <1>7, PlaceGood
  <1>9. Becomes(kernel, kernel', ReadyItems(kernel) \ {cur}, BlockedItems(kernel) \cup {cur},
                cur, priority)
    BY <1>7, <1>8 DEF Becomes
  <1>10. ListsInv'
    <2>1. (ReadyItems(kernel) \ {cur}) \cup (BlockedItems(kernel) \cup {cur})
            = ReadyItems(kernel) \cup BlockedItems(kernel)
      BY <1>1
    <2>2. at'[cur] = "wait" /\ "wait" \in Places \ {"none"}
      BY <1>1, <1>4 DEF IInv, ListsInv, Places
    <2>3. Idle \in ReadyItems(kernel) \ {cur} /\ cur \in AllTasks
      BY <1>1
    <2> QED BY <1>0, <1>4, <1>9, <2>1, <2>2, <2>3, TaskLists
  <1>11. CallInv'
    <2>1. \A x \in Tasks : x # t => at'[x] = at[x]
      BY <1>4 DEF IInv, ListsInv, AllTasks
    <2> QED BY <1>0, <1>4, <2>1 DEF IInv, CallInv
  <1>12. TokenInv'
    BY <1>4, <1>5 DEF TokenInv, CountBounded
  <1>13. BoostedHoldsMutex'
    <2> SUFFICES ASSUME NEW x \in AllTasks, priority[x] # uxBasePriority(x)
                 PROVE  /\ priority[x] > uxBasePriority(x)
                        /\ \E m \in Mutexes : pxMutexHolder'[m] = x
      BY <1>9 DEF BoostedHoldsMutex, Becomes
    <2>1. CASE priority[x] = kernel.uxPriority[x]
      BY <1>4, <1>5, <2>1 DEF BoostedHoldsMutex
    <2>2. CASE /\ q \in Mutexes /\ x = pxMutexHolder[q]
               /\ priority[x] >= kernel.uxPriority[x]
      <3>1. /\ priority[x] \in Nat /\ kernel.uxPriority[x] \in Nat
            /\ uxBasePriority(x) \in Nat
        BY <1>1, BasePriority, Constants
      <3>2. kernel.uxPriority[x] >= uxBasePriority(x)
        BY <1>5, <3>1 DEF BoostedHoldsMutex
      <3>3. priority[x] > uxBasePriority(x)
        BY <2>2, <3>1, <3>2
      <3> QED BY <1>4, <2>2, <3>3
    <2> QED BY <1>6, <2>1, <2>2
  <1>14. SwitchStep
    BY <1>9 DEF SwitchStep, Becomes
  <1> QED BY <1>10, <1>11, <1>12, <1>13, <1>14 DEF IInv
\* The third critical section, successful or not.
LEMMA RecheckInv ==
  ASSUME IInv, NEW t \in Tasks, Recheck(t)
  PROVE  IInv' /\ SwitchStep
  <1> DEFINE q == call[t].q
  <1>1. Running(t) /\ at[t] = "recheck"
    BY DEF Recheck
  <1>2. call[t] \in Calls /\ (call[t].op = "send" => q \notin Mutexes)
    BY <1>1 DEF IInv, CallInv
  <1>3. q \in Queues
    BY <1>2 DEF Calls
  <1>4. CASE call[t].op = "send" /\ CanSend(q) /\ Send(t, q)
    BY <1>1, <1>2, <1>3, <1>4, SendInv
  <1>5. CASE call[t].op = "receive" /\ CanReceive(q) /\ Receive(t, q)
    BY <1>1, <1>3, <1>5, ReceiveInv
  <1>6. CASE /\ owns' = IF q \in Mutexes /\ ~ChecksResult
                        THEN owns \cup {<<t, q>>} ELSE owns
             /\ Return(t, FALSE)
             /\ UNCHANGED <<kernel, irq, uxMessagesWaiting, pxMutexHolder>>
    <2>1. /\ KernelGood(kernel)
          /\ t \in AllTasks /\ kernel.pxCurrentTCB = t
          /\ t \in ReadyItems(kernel) /\ Idle \in ReadyItems(kernel)
      BY <1>1, TaskFacts
    <2>2. CallInv' /\ \E y \in {"run", "yield"} : at' = [at EXCEPT ![t] = y]
      BY <1>6, ReturnCall
    <2>3. Becomes(kernel, kernel', ReadyItems(kernel), BlockedItems(kernel), t,
                  kernel.uxPriority)
      BY <1>6, <2>1 DEF Becomes
    <2>4. ListsInv'
      <3>1. PICK y \in {"run", "yield"} : at' = [at EXCEPT ![t] = y]
        BY <2>2
      <3>2. y \in Places \ {"none"} /\ at[t] # "none"
        BY <1>1 DEF Places
      <3> QED BY <1>1, <1>6, <2>1, <2>3, <3>1, <3>2, TaskLists
    <2>5. TokenInv'
      <3>1. owns' \subseteq Tasks \X Mutexes /\ (ChecksResult => owns' = owns)
        BY <1>6 DEF IInv, TokenInv
      <3> QED BY <1>6, <3>1 DEF IInv, TokenInv, CountBounded
    <2>6. BoostedHoldsMutex' /\ SwitchStep
      BY <1>6, SameBoost DEF IInv, SwitchStep
    <2> QED BY <2>2, <2>4, <2>5, <2>6 DEF IInv
  <1> QED BY <1>4, <1>5, <1>6 DEF Recheck

\* The first critical section of prvSend.
LEMMA QueueSendInv ==
  ASSUME IInv, NEW t \in Tasks, NEW q \in Queues, NEW n \in Waits, xQueueSend(t, q, n)
  PROVE  IInv' /\ SwitchStep
  <1>1. Running(t) /\ at[t] = "run" /\ (q \in Mutexes => n = 0 /\ <<t, q>> \in owns)
    BY DEF xQueueSend
  <1>2. CASE CanSend(q) /\ Send(t, q)
    BY <1>1, <1>2, SendInv
  <1>3. CASE StartWaiting(t, "send", q, n)
    <2>1. q \notin Mutexes
      BY <1>1, <1>3 DEF StartWaiting
    <2> QED BY <1>1, <1>3, <2>1, StartWaitingInv
  <1>4. CASE ~CanSend(q) /\ GiveUp(t, q)
    <2>1. /\ owns' = owns \ {<<t, q>>}
          /\ kernel' = kernel /\ irq' = irq /\ at' = at
          /\ uxMessagesWaiting' = uxMessagesWaiting
          /\ pxMutexHolder' = pxMutexHolder /\ call' = call
      BY <1>4 DEF GiveUp
    <2>2. ListsInv' /\ CallInv'
      BY <2>1 DEF IInv, ListsInv, CallInv
    <2>3. TokenInv'
      <3>1. \A m \in Mutexes : m \in Queues /\ uxLength[m] = 1
        BY QueueAssumption
      <3>2. q \in Mutexes => pxMutexHolder[q] = NULL
        BY <1>4, <3>1 DEF IInv, TokenInv, CanSend
      <3>3. NULL \notin Tasks
        BY SchedulerAssumption DEF AllTasks
      <3>4. ChecksResult => \A m \in Mutexes, x \in Tasks :
                              <<x, m>> \in owns' <=> x = pxMutexHolder'[m]
        BY <2>1, <3>2, <3>3 DEF IInv, TokenInv
      <3> QED BY <2>1, <3>4 DEF IInv, TokenInv, CountBounded
    <2>4. BoostedHoldsMutex' /\ SwitchStep
      BY <2>1, SameBoost DEF IInv, SwitchStep
    <2> QED BY <2>2, <2>3, <2>4 DEF IInv
  <1> QED BY <1>2, <1>3, <1>4 DEF xQueueSend

\* A step that changes nothing.
LEMMA StutterInv ==
  ASSUME IInv, UNCHANGED vars
  PROVE  IInv' /\ SwitchStep
  <1>1. /\ kernel' = kernel /\ irq' = irq /\ at' = at
        /\ uxMessagesWaiting' = uxMessagesWaiting
        /\ pxMutexHolder' = pxMutexHolder /\ call' = call /\ owns' = owns
    BY DEF vars
  <1>2. ListsInv' /\ CallInv' /\ TokenInv'
    BY <1>1 DEF IInv, ListsInv, CallInv, TokenInv, CountBounded
  <1>3. BoostedHoldsMutex' /\ SwitchStep
    BY <1>1, SameBoost DEF IInv, SwitchStep
  <1> QED BY <1>2, <1>3 DEF IInv

\* The first critical section of xQueueReceive.
LEMMA QueueReceiveInv ==
  ASSUME IInv, NEW t \in Tasks, NEW q \in Queues, NEW n \in Waits, xQueueReceive(t, q, n)
  PROVE  IInv' /\ SwitchStep
  <1>1. Running(t) /\ at[t] = "run"
    BY DEF xQueueReceive
  <1>2. CASE CanReceive(q) /\ Receive(t, q)
    BY <1>1, <1>2, ReceiveInv
  <1>3. CASE StartWaiting(t, "receive", q, n)
    BY <1>1, <1>3, StartWaitingInv
  <1>4. CASE UNCHANGED vars
    BY <1>4, StutterInv
  <1> QED BY <1>2, <1>3, <1>4 DEF xQueueReceive

\* The scheduler's steps leave the queues alone.
LEMMA SchedulerStep ==
  ASSUME IInv, UNCHANGED queueVars, ListsInv', SwitchStep,
         kernel'.uxPriority = kernel.uxPriority,
         \A x \in Tasks : at'[x] \in {"block", "wait", "recheck"}
                          => at[x] \in {"block", "wait", "recheck"}
  PROVE  IInv' /\ SwitchStep
  <1>1. /\ uxMessagesWaiting' = uxMessagesWaiting
        /\ pxMutexHolder' = pxMutexHolder /\ call' = call /\ owns' = owns
    BY DEF queueVars
  <1>2. CallInv' /\ TokenInv'
    BY <1>1 DEF IInv, CallInv, TokenInv, CountBounded
  <1>3. BoostedHoldsMutex'
    BY <1>1, SameBoost DEF IInv
  <1> QED BY <1>2, <1>3 DEF IInv

\* vTaskDelay.
LEMMA DelayInv ==
  ASSUME IInv, UNCHANGED queueVars, NEW t \in Tasks, NEW n \in Delays, vTaskDelay(t, n)
  PROVE  IInv' /\ SwitchStep
  <1>1. Running(t) /\ at[t] = "run" /\ irq' = irq /\ at' = [at EXCEPT ![t] = "yield"]
    BY DEF vTaskDelay
  <1>2. /\ KernelGood(kernel)
        /\ t \in AllTasks /\ kernel.pxCurrentTCB = t /\ t # Idle
        /\ t \in ReadyItems(kernel) /\ Idle \in ReadyItems(kernel)
    BY <1>1, TaskFacts
  <1>3. n \in Ticks
    BY SchedulerAssumption
  <1>4. Becomes(kernel, kernel', ReadyItems(kernel) \ {t}, BlockedItems(kernel) \cup {t},
                kernel.pxCurrentTCB, kernel.uxPriority)
    BY <1>2, <1>3, DelayGood DEF vTaskDelay
  <1>5. /\ at'[t] = "yield" /\ "yield" \in Places \ {"none"}
        /\ \A x \in Tasks : x # t => at'[x] = at[x]
    BY <1>1, <1>2 DEF IInv, ListsInv, Places, AllTasks
  <1>6. (ReadyItems(kernel) \ {t}) \cup (BlockedItems(kernel) \cup {t})
          = ReadyItems(kernel) \cup BlockedItems(kernel)
    BY <1>2
  <1>7. ListsInv'
    <2> DEFINE R == ReadyItems(kernel) \ {t}
               B == BlockedItems(kernel) \cup {t}
    <2>1. Becomes(kernel, kernel', R, B, t, kernel.uxPriority)
      BY <1>2, <1>4
    <2>2. Idle \in R /\ R \cup B = ReadyItems(kernel) \cup BlockedItems(kernel)
      BY <1>2, <1>6
    <2> HIDE DEF R, B
    <2> QED BY <1>1, <1>2, <1>5, <2>1, <2>2, TaskLists
  <1>8. SwitchStep /\ kernel'.uxPriority = kernel.uxPriority
    BY <1>4 DEF SwitchStep, Becomes
  <1> QED BY <1>5, <1>7, <1>8, SchedulerStep

\* taskYIELD.
LEMMA YieldInv ==
  ASSUME IInv, UNCHANGED queueVars, NEW t \in Tasks, taskYIELD(t)
  PROVE  IInv' /\ SwitchStep
  <1>1. /\ Running(t) /\ at[t] \in {"run", "yield", "wait"} /\ irq' = irq
        /\ at' = [at EXCEPT ![t] = IF at[t] = "wait" THEN "recheck" ELSE "run"]
        /\ kernel' = vTaskSwitchContext(kernel)
    BY DEF taskYIELD, IInv, ListsInv
  <1>2. /\ KernelGood(kernel)
        /\ t \in AllTasks /\ Idle \in ReadyItems(kernel)
    BY <1>1, TaskFacts
  <1>3. PICK c \in ReadyItems(kernel) :
          /\ Becomes(kernel, kernel', ReadyItems(kernel), BlockedItems(kernel), c,
                     kernel.uxPriority)
          /\ \A u \in ReadyItems(kernel) : kernel.uxPriority[u] <= kernel.uxPriority[c]
    BY <1>1, <1>2, SwitchGood
  <1>4. c \in AllTasks
    BY <1>2, GoodMembers
  <1>5. PICK y \in {"run", "recheck"} : /\ at' = [at EXCEPT ![t] = y]
                                        /\ y = "recheck" => at[t] = "wait"
    BY <1>1
  <1>6. /\ y \in Places \ {"none"} /\ at'[t] = y
        /\ \A x \in Tasks : x # t => at'[x] = at[x]
    BY <1>2, <1>5 DEF IInv, ListsInv, Places, AllTasks
  <1>7. ListsInv'
    BY <1>1, <1>2, <1>3, <1>4, <1>5, <1>6, TaskLists
  <1>8. SwitchStep /\ kernel'.uxPriority = kernel.uxPriority
    BY <1>3 DEF SwitchStep, Becomes
  <1> QED BY <1>5, <1>6, <1>7, <1>8, SchedulerStep

\* vTaskSetMutexInheritance.
LEMMA SetInheritanceInv ==
  ASSUME IInv, UNCHANGED queueVars, NEW t \in Tasks, NEW b \in InheritModes,
         vTaskSetMutexInheritance(t, b)
  PROVE  IInv' /\ SwitchStep
  <1>1. /\ Running(t) /\ irq' = irq /\ at' = at
        /\ kernel' = [kernel EXCEPT !.xInheritEnabled = b]
    BY DEF vTaskSetMutexInheritance
  <1>2. KernelGood(kernel) /\ kernel \in KernelType /\ b \in BOOLEAN
    BY <1>1, TaskFacts, SchedulerAssumption DEF KernelGood
  <1>3. /\ kernel' \in KernelType
        /\ kernel'.pxCurrentTCB = kernel.pxCurrentTCB
        /\ kernel'.xReadyTasksLists = kernel.xReadyTasksLists
        /\ kernel'.xDelayedTaskList = kernel.xDelayedTaskList
        /\ kernel'.xSuspendedTaskList = kernel.xSuspendedTaskList
        /\ kernel'.xEventLists = kernel.xEventLists
        /\ kernel'.uxTopReadyPriority = kernel.uxTopReadyPriority
        /\ kernel'.uxPriority = kernel.uxPriority
        /\ kernel'.xSchedulerRunning = kernel.xSchedulerRunning
    BY <1>1, <1>2 DEF KernelType
  <1>4. /\ KernelGood(kernel')
        /\ ReadyItems(kernel') = ReadyItems(kernel)
        /\ BlockedItems(kernel') = BlockedItems(kernel)
    BY <1>2, <1>3, SameGood
  <1>5. ListsInv'
    BY <1>1, <1>3, <1>4 DEF IInv, ListsInv
  <1>6. SwitchStep
    BY <1>3 DEF SwitchStep
  <1> QED BY <1>1, <1>3, <1>5, <1>6, SchedulerStep
\* xTaskCreate, from main or from a task.
LEMMA CreateInv ==
  ASSUME IInv, UNCHANGED queueVars, NEW t \in Tasks, xTaskCreate(t)
  PROVE  IInv' /\ SwitchStep
  <1> DEFINE c == IF kernel.pxCurrentTCB = NULL THEN t ELSE kernel.pxCurrentTCB
             R == ReadyItems(kernel) \cup {t}
             B == BlockedItems(kernel)
  <1>1. /\ at[t] = "none" /\ irq' = irq /\ at' = [at EXCEPT ![t] = "run"]
        /\ kernel' = AddNewTask(kernel, t)
    BY DEF xTaskCreate
  <1>2. ListsInv /\ KernelGood(kernel) /\ t \in AllTasks /\ t # Idle
    BY SchedulerAssumption DEF IInv, ListsInv, AllTasks
  <1>3. t \notin ReadyItems(kernel) /\ t \notin B
    BY <1>1, <1>2 DEF ListsInv
  <1>4. Becomes(kernel, kernel', R, B, c, kernel.uxPriority)
    BY <1>1, <1>2, <1>3, AddNewGood
  <1>5. c \in AllTasks /\ (kernel.pxCurrentTCB # NULL => c = kernel.pxCurrentTCB)
        /\ (kernel.pxCurrentTCB = NULL => c = t)
    BY <1>2, Fields DEF KernelGood
  <1> HIDE DEF c
  <1>6. /\ KernelGood(kernel')
        /\ ReadyItems(kernel') = R
        /\ BlockedItems(kernel') = B
        /\ kernel'.pxCurrentTCB = c
        /\ kernel'.uxPriority = kernel.uxPriority
        /\ kernel'.xSchedulerRunning = kernel.xSchedulerRunning
    BY <1>4 DEF Becomes
  <1>7. /\ at' \in [AllTasks -> Places] /\ at'[t] = "run"
        /\ \A x \in AllTasks : x # t => at'[x] = at[x]
    BY <1>1, <1>2 DEF ListsInv, Places
  <1>8. \A x \in AllTasks : at'[x] # "none" <=> x \in B \cup R
    BY <1>2, <1>7 DEF ListsInv
  <1>9. at'[c] \in {"run", "block", "recheck"} => c \in R
    BY <1>2, <1>5, <1>7 DEF ListsInv
  <1>10. Idle \in AllTasks
    BY DEF AllTasks
  <1>11. ListsInv'
    BY <1>1, <1>2, <1>5, <1>6, <1>7, <1>8, <1>9, <1>10 DEF ListsInv
  <1>12. kernel.xSchedulerRunning => c = kernel.pxCurrentTCB
    BY <1>2, <1>5, Constants DEF ListsInv
  <1>13. SwitchStep
    BY <1>6, <1>12 DEF SwitchStep
  <1>14. \A x \in Tasks : at'[x] \in {"block", "wait", "recheck"}
                          => at[x] \in {"block", "wait", "recheck"}
    BY <1>7 DEF AllTasks
  <1> QED BY <1>6, <1>11, <1>13, <1>14, SchedulerStep

\* vTaskStartScheduler.
LEMMA StartInv ==
  ASSUME IInv, UNCHANGED queueVars, vTaskStartScheduler
  PROVE  IInv' /\ SwitchStep
  <1> DEFINE c == IF kernel.pxCurrentTCB = NULL THEN Idle ELSE kernel.pxCurrentTCB
             R == ReadyItems(kernel) \cup {Idle}
             B == BlockedItems(kernel)
             k == AddNewTask(kernel, Idle)
  <1>1. /\ ~kernel.xSchedulerRunning
        /\ irq' = irq /\ at' = [at EXCEPT ![Idle] = "run"]
        /\ kernel' = [k EXCEPT !.xSchedulerRunning = TRUE, !.xTickCount = 0]
    BY DEF vTaskStartScheduler
  <1>2. ListsInv /\ KernelGood(kernel) /\ Idle \in AllTasks /\ at[Idle] = "none"
    BY <1>1 DEF IInv, ListsInv, AllTasks
  <1>3. Idle \notin ReadyItems(kernel) /\ Idle \notin B
    BY <1>2 DEF ListsInv
  <1>4. Becomes(kernel, k, R, B, c, kernel.uxPriority)
    BY <1>2, <1>3, AddNewGood
  <1>5. c \in AllTasks /\ (kernel.pxCurrentTCB # NULL => c = kernel.pxCurrentTCB)
        /\ (kernel.pxCurrentTCB = NULL => c = Idle)
    BY <1>2, Fields DEF KernelGood
  <1> HIDE DEF c, k
  <1>6. /\ KernelGood(k) /\ k \in KernelType
        /\ ReadyItems(k) = R
        /\ BlockedItems(k) = B
        /\ k.pxCurrentTCB = c
        /\ k.uxPriority = kernel.uxPriority
    BY <1>4 DEF Becomes, KernelGood
  <1>7. /\ kernel' \in KernelType
        /\ kernel'.pxCurrentTCB = k.pxCurrentTCB
        /\ kernel'.xReadyTasksLists = k.xReadyTasksLists
        /\ kernel'.xDelayedTaskList = k.xDelayedTaskList
        /\ kernel'.xSuspendedTaskList = k.xSuspendedTaskList
        /\ kernel'.xEventLists = k.xEventLists
        /\ kernel'.uxTopReadyPriority = k.uxTopReadyPriority
        /\ kernel'.uxPriority = k.uxPriority
        /\ kernel'.xSchedulerRunning = TRUE
    <2>1. 0 \in Ticks
      BY Constants DEF Ticks
    <2> QED BY <1>1, <1>6, <2>1 DEF KernelType
  <1>8. /\ KernelGood(kernel')
        /\ ReadyItems(kernel') = R
        /\ BlockedItems(kernel') = B
    BY <1>6, <1>7, SameGood
  <1>9. /\ at' \in [AllTasks -> Places] /\ at'[Idle] = "run"
        /\ \A x \in AllTasks : x # Idle => at'[x] = at[x]
    BY <1>1, <1>2 DEF ListsInv, Places
  <1>10. \A x \in AllTasks : at'[x] # "none" <=> x \in B \cup R
    BY <1>2, <1>9 DEF ListsInv
  <1>11. at'[c] \in {"run", "block", "recheck"} => c \in R
    BY <1>2, <1>5, <1>9 DEF ListsInv
  <1>12. ListsInv'
    BY <1>1, <1>2, <1>5, <1>6, <1>7, <1>8, <1>9, <1>10, <1>11 DEF ListsInv
  <1>13. SwitchStep
    BY <1>1 DEF SwitchStep
  <1>14. \A x \in Tasks : at'[x] = at[x]
    BY <1>9, SchedulerAssumption DEF AllTasks
  <1> QED BY <1>6, <1>7, <1>12, <1>13, <1>14, SchedulerStep

\* The tick interrupt: its entry, each iteration of the loop of
\* xTaskIncrementTick, and the switch.
LEMMA TickInv ==
  ASSUME IInv, UNCHANGED queueVars, Tick
  PROVE  IInv' /\ SwitchStep
  <1>1. /\ ListsInv /\ KernelGood(kernel) /\ kernel \in KernelType
        /\ kernel.xSchedulerRunning /\ at' = at
        /\ Idle \in ReadyItems(kernel) /\ kernel.pxCurrentTCB \in AllTasks
        /\ kernel.pxCurrentTCB # NULL
    BY Constants DEF IInv, ListsInv, KernelGood, Tick, TickEntry, TickWake, TickSwitch
  <1>2. ASSUME NEW R, NEW B, NEW c \in AllTasks,
               Becomes(kernel, kernel', R, B, c, kernel.uxPriority),
               R \cup B = ReadyItems(kernel) \cup BlockedItems(kernel),
               irq' \in {"none", "tick"}, Idle \in R,
               at[c] \in {"run", "block", "recheck"} => c \in R,
               SwitchStep
        PROVE  IInv' /\ SwitchStep
    <2>1. /\ KernelGood(kernel')
          /\ ReadyItems(kernel') = R
          /\ BlockedItems(kernel') = B
          /\ kernel'.pxCurrentTCB = c
          /\ kernel'.uxPriority = kernel.uxPriority
          /\ kernel'.xSchedulerRunning = kernel.xSchedulerRunning
      BY <1>2 DEF Becomes
    <2>2. \A x \in AllTasks : at'[x] # "none" <=> x \in B \cup R
      BY <1>1, <1>2 DEF ListsInv
    <2>3. ListsInv'
      BY <1>1, <1>2, <2>1, <2>2 DEF ListsInv
    <2> QED BY <1>1, <1>2, <2>1, <2>3, SchedulerStep
  <1>3. CASE TickEntry
    <2>1. /\ kernel' = [kernel EXCEPT !.xTickCount = TickPlus(kernel, 1)]
          /\ irq' = "tick"
      BY <1>3 DEF TickEntry
    <2>2. TickPlus(kernel, 1) \in Ticks
      BY <1>1, Fields, Constants DEF TickPlus, Ticks
    <2>3. /\ kernel' \in KernelType
          /\ kernel'.pxCurrentTCB = kernel.pxCurrentTCB
          /\ kernel'.xReadyTasksLists = kernel.xReadyTasksLists
          /\ kernel'.xDelayedTaskList = kernel.xDelayedTaskList
          /\ kernel'.xSuspendedTaskList = kernel.xSuspendedTaskList
          /\ kernel'.xEventLists = kernel.xEventLists
          /\ kernel'.uxTopReadyPriority = kernel.uxTopReadyPriority
          /\ kernel'.uxPriority = kernel.uxPriority
          /\ kernel'.xSchedulerRunning = kernel.xSchedulerRunning
      BY <1>1, <2>1, <2>2 DEF KernelType
    <2>4. Becomes(kernel, kernel', ReadyItems(kernel), BlockedItems(kernel),
                  kernel.pxCurrentTCB, kernel.uxPriority)
      BY <1>1, <2>3, SameGood DEF Becomes
    <2>5. SwitchStep
      BY <2>3 DEF SwitchStep
    <2>6. at[kernel.pxCurrentTCB] \in {"run", "block", "recheck"}
            => kernel.pxCurrentTCB \in ReadyItems(kernel)
      BY <1>1 DEF ListsInv
    <2> QED BY <1>1, <1>2, <2>1, <2>4, <2>5, <2>6
  <1>4. CASE TickWake
    <2> DEFINE t == kernel.xDelayedTaskList.items[1]
               R == ReadyItems(kernel) \cup {t}
               B == BlockedItems(kernel) \ {t}
    <2>1. ~listLIST_IS_EMPTY(kernel.xDelayedTaskList) /\ kernel' = MakeReady(kernel, t)
          /\ irq' = irq
      BY <1>4 DEF TickWake, HeadIsDue
    <2>2. kernel.xDelayedTaskList \in ListsOf(AllTasks)
      BY <1>1, Fields
    <2>3. t \in BlockedItems(kernel)
      BY <2>1, <2>2, EmptyItems DEF BlockedItems, DelayedItems
    <2> HIDE DEF t
    <2>4. Becomes(kernel, kernel', R, B, kernel.pxCurrentTCB, kernel.uxPriority)
      BY <1>1, <2>1, <2>3, MakeReadyGood
    <2>5. R \cup B = ReadyItems(kernel) \cup BlockedItems(kernel) /\ Idle \in R
      BY <1>1, <2>3
    <2>6. SwitchStep
      BY <2>4 DEF SwitchStep, Becomes
    <2>7. at[kernel.pxCurrentTCB] \in {"run", "block", "recheck"}
            => kernel.pxCurrentTCB \in R
      BY <1>1 DEF ListsInv
    <2>8. irq' \in {"none", "tick"}
      BY <1>1, <2>1 DEF ListsInv
    <2> HIDE DEF R, B
    <2> QED BY <1>1, <1>2, <2>4, <2>5, <2>6, <2>7, <2>8
  <1>5. CASE TickSwitch
    <2>1. kernel' = vTaskSwitchContext(kernel) /\ irq' = "none"
      BY <1>5 DEF TickSwitch
    <2>2. PICK c \in ReadyItems(kernel) :
            /\ Becomes(kernel, kernel', ReadyItems(kernel), BlockedItems(kernel), c,
                       kernel.uxPriority)
            /\ \A u \in ReadyItems(kernel) : kernel.uxPriority[u] <= kernel.uxPriority[c]
      BY <1>1, <2>1, SwitchGood
    <2>3. c \in AllTasks
      BY <1>1, GoodMembers
    <2>4. SwitchStep
      BY <2>2 DEF SwitchStep, Becomes
    <2> QED BY <1>1, <1>2, <2>1, <2>2, <2>3, <2>4
  <1> QED BY <1>3, <1>4, <1>5 DEF Tick

\* Every step preserves the invariant, and switches only as it should.
LEMMA NextInv == IInv /\ [Next]_vars => IInv' /\ SwitchStep
  <1> SUFFICES ASSUME IInv, [Next]_vars PROVE IInv' /\ SwitchStep
    OBVIOUS
  <1>1. CASE UNCHANGED vars
    BY <1>1, StutterInv
  <1>2. CASE vTaskStartScheduler /\ UNCHANGED queueVars
    BY <1>2, StartInv
  <1>3. CASE Tick /\ UNCHANGED queueVars
    BY <1>3, TickInv
  <1>4. ASSUME NEW t \in Tasks, xTaskCreate(t), UNCHANGED queueVars
        PROVE  IInv' /\ SwitchStep
    BY <1>4, CreateInv
  <1>5. ASSUME NEW t \in Tasks, TaskStep(t)
        PROVE  IInv' /\ SwitchStep
    <2>1. ASSUME NEW n \in Delays, vTaskDelay(t, n), UNCHANGED queueVars
          PROVE  IInv' /\ SwitchStep
      BY <2>1, DelayInv
    <2>2. ASSUME NEW b \in InheritModes, vTaskSetMutexInheritance(t, b), UNCHANGED queueVars
          PROVE  IInv' /\ SwitchStep
      BY <2>2, SetInheritanceInv
    <2>3. CASE taskYIELD(t) /\ UNCHANGED queueVars
      BY <2>3, YieldInv
    <2>4. ASSUME NEW q \in Queues, NEW n \in Waits,
                 xQueueSend(t, q, n) \/ xQueueReceive(t, q, n)
          PROVE  IInv' /\ SwitchStep
      BY <2>4, QueueSendInv, QueueReceiveInv
    <2>5. CASE Block(t)
      BY <2>5, BlockInv
    <2>6. CASE Recheck(t)
      BY <2>6, RecheckInv
    <2> QED BY <1>5, <2>1, <2>2, <2>3, <2>4, <2>5, <2>6 DEF TaskStep
  <1> QED BY <1>1, <1>2, <1>3, <1>4, <1>5 DEF Next

-----------------------------------------------------------------------------
\* What the invariant says of the properties of Queue and Scheduler.
LEMMA InvImplies ==
  ASSUME IInv
  PROVE  /\ TypeOK
         /\ OnOneStateList
         /\ EventItemOfBlocked
         /\ TopReadyBounds
         /\ IdleReady
         /\ RunnerIsReady
         /\ CountBounded
         /\ BoostedHoldsMutex
         /\ ChecksResult => MutexToken /\ MutualExclusion
  <1>1. ListsInv /\ CallInv /\ TokenInv /\ BoostedHoldsMutex /\ KernelGood(kernel)
    BY DEF IInv, ListsInv
  <1>2. TypeOK
    BY <1>1 DEF TypeOK, SchedTypeOK, ListsInv, CallInv, TokenInv, KernelGood
  <1>3. OnOneStateList
    <2>1. BlockedItems(kernel) \cup ReadyItems(kernel) \subseteq AllTasks
      BY <1>1, GoodMembers
    <2> QED BY <1>1, <2>1, GoodLists DEF OnOneStateList, Created, ListsInv
  <1>4. EventItemOfBlocked /\ TopReadyBounds
    BY <1>1, GoodLists DEF EventItemOfBlocked, TopReadyBounds
  <1>5. IdleReady
    <2> SUFFICES ASSUME kernel.xSchedulerRunning
                 PROVE  /\ Idle \in Items(kernel.xReadyTasksLists[0])
                        /\ kernel.pxCurrentTCB # NULL
      BY DEF IdleReady
    <2>1. \A m \in Mutexes : pxMutexHolder[m] # Idle
      BY <1>1, SchedulerAssumption, QueueAssumption DEF TokenInv, AllTasks
    <2>2. Idle \in AllTasks /\ uxBasePriority(Idle) = 0
      BY DEF uxBasePriority, AllTasks
    <2>3. kernel.uxPriority[Idle] = 0
      BY <1>1, <2>1, <2>2 DEF BoostedHoldsMutex
    <2>4. Idle \in Items(kernel.xReadyTasksLists[kernel.uxPriority[Idle]])
      BY <1>1, GoodMembers DEF ListsInv
    <2> QED BY <1>1, <2>3, <2>4, Constants DEF ListsInv
  <1>6. RunnerIsReady
    BY <1>1, Constants DEF RunnerIsReady, ListsInv
  <1>7. ChecksResult => MutexToken /\ MutualExclusion
    <2>1. NULL \notin Tasks
      BY SchedulerAssumption DEF AllTasks
    <2>2. ChecksResult => MutexToken
      BY <1>1, <2>1 DEF TokenInv, MutexToken
    <2>3. ChecksResult => MutualExclusion
      BY <1>1 DEF TokenInv, MutualExclusion
    <2> QED BY <2>2, <2>3
  <1> QED BY <1>1, <1>2, <1>3, <1>4, <1>5, <1>6, <1>7 DEF TokenInv

\* The inductive invariant holds in every reachable state.
THEOREM Invariance == Spec => []IInv
  BY InitInv, NextInv, PTL DEF Spec

\* The state of tasks.c and queue.c stays well typed: every list is a list of
\* distinct tasks with its cursor on one of them, and the counts are natural.
THEOREM TypeCorrect == Spec => []TypeOK
  BY Invariance, InvImplies, PTL

\* Every created task is on exactly one state list, and a ready task on the
\* list of its current priority.
THEOREM TasksOnOneList == Spec => []OnOneStateList
  BY Invariance, InvImplies, PTL

\* An event item is on at most one event list and only while its task is
\* blocked, and a task that waits for ever can still be woken.
THEOREM EventItems == Spec => []EventItemOfBlocked
  BY Invariance, InvImplies, PTL

\* The search of vTaskSwitchContext starts high enough: no ready task is above
\* uxTopReadyPriority.
THEOREM SearchStartsHigh == Spec => []TopReadyBounds
  BY Invariance, InvImplies, PTL

\* The search ends on a task: once the scheduler runs, the idle task is on the
\* ready list of priority 0, whatever blocks, inherits or times out.
THEOREM IdleStaysReady == Spec => []IdleReady
  BY Invariance, InvImplies, PTL

\* The task that enters a kernel call is on a ready list.
THEOREM RunnersAreReady == Spec => []RunnerIsReady
  BY Invariance, InvImplies, PTL

\* No queue holds more than its storage.
THEOREM QueuesBounded == Spec => []CountBounded
  BY Invariance, InvImplies, PTL

\* A raised priority is always that of a mutex holder.
THEOREM BoostsJustified == Spec => []BoostedHoldsMutex
  BY Invariance, InvImplies, PTL

\* A mutex is one token with one owner, provided that its callers look at the
\* result of xSemaphoreTake.
THEOREM OneToken ==
  ASSUME ChecksResult
  PROVE  Spec => [](MutexToken /\ MutualExclusion)
  BY Invariance, InvImplies, PTL

\* Every context switch goes to a task of the highest ready priority.
THEOREM HighestRuns == Spec => SwitchesToHighest
  BY Invariance, NextInv, PTL DEF Spec, SwitchesToHighest
==============================================================================
