-------------------------------- MODULE Queue --------------------------------
(***************************************************************************)
(* kernel/queue.c and include/FlintRTOS/semphr.h on top of the scheduler:  *)
(* queues, counting semaphores and mutexes shared by preemptible tasks.    *)
(*                                                                         *)
(* A message is abstracted to one unit of uxMessagesWaiting.  Each of the  *)
(* up to three critical sections of prvSend and xQueueReceive is a step;   *)
(* between them the tick may switch to another task.  The variable owns    *)
(* is what the callers of xSemaphoreTake believe: the mutexes they took    *)
(* and did not give back.                                                  *)
(***************************************************************************)
EXTENDS Scheduler

CONSTANTS Mutexes,       \* queues made by xQueueCreateMutex
          uxLength,      \* capacity of each queue
          InitialCount,  \* messages or tokens of each queue at the start
          Waits,         \* values of xTicksToWait
          ChecksResult   \* callers of xSemaphoreTake look at its result;
                         \* sys_mutex_lock of the lwIP port does not

ASSUME QueueAssumption ==
  /\ Mutexes \subseteq Queues
  /\ uxLength \in [Queues -> Nat \ {0}]
  /\ InitialCount \in [Queues -> Nat]
  /\ \A q \in Queues : InitialCount[q] <= uxLength[q]
  /\ \A m \in Mutexes : uxLength[m] = 1 /\ InitialCount[m] = 1
  /\ Waits \subseteq Ticks
  /\ ChecksResult \in BOOLEAN

VARIABLES uxMessagesWaiting, pxMutexHolder,
          call,   \* the blocking call each task is inside of
          owns    \* pairs <<task, mutex>>: the task may use what it guards

queueVars == <<uxMessagesWaiting, pxMutexHolder, call, owns>>
vars == <<kernel, irq, at, uxMessagesWaiting, pxMutexHolder, call, owns>>

NoCall == [op |-> "none"]
Calls  == [op : {"send", "receive"}, q : Queues, ticks : Ticks \ {0}]

xTasksWaitingToSend(q)    == <<q, "send">>
xTasksWaitingToReceive(q) == <<q, "receive">>

-----------------------------------------------------------------------------
\* A kernel call ends: a taskYIELD comes first if a task woken should preempt.
Return(t, yield) ==
  /\ at' = [at EXCEPT ![t] = IF yield THEN "yield" ELSE "run"]
  /\ call' = [call EXCEPT ![t] = NoCall]

\* Mutant: one message too many.
CanSendOneMore(q) == uxMessagesWaiting[q] <= uxLength[q]

CanSend(q)    == uxMessagesWaiting[q] < uxLength[q]
CanReceive(q) == uxMessagesWaiting[q] > 0

\* Mutant: the mutex keeps its holder field.
SendKeepsHolder(t, q) ==
  LET k == IF q \in Mutexes
           THEN vTaskPriorityDisinherit(kernel, pxMutexHolder[q]) ELSE kernel
  IN  /\ kernel' = xTaskRemoveFromEventList(k, xTasksWaitingToReceive(q))
      /\ uxMessagesWaiting' = [uxMessagesWaiting EXCEPT ![q] = @ + 1]
      /\ owns' = owns \ {<<t, q>>}
      /\ Return(t, ShouldYield(k, xTasksWaitingToReceive(q)))
      /\ UNCHANGED <<irq, pxMutexHolder>>

\* The successful critical section of prvSend.
Send(t, q) ==
  LET k == IF q \in Mutexes
           THEN vTaskPriorityDisinherit(kernel, pxMutexHolder[q]) ELSE kernel
  IN  /\ kernel' = xTaskRemoveFromEventList(k, xTasksWaitingToReceive(q))
      /\ uxMessagesWaiting' = [uxMessagesWaiting EXCEPT ![q] = @ + 1]
      /\ pxMutexHolder' = IF q \in Mutexes
                          THEN [pxMutexHolder EXCEPT ![q] = NULL]
                          ELSE pxMutexHolder
      /\ owns' = owns \ {<<t, q>>}
      /\ Return(t, ShouldYield(k, xTasksWaitingToReceive(q)))
      /\ UNCHANGED irq

\* The successful critical section of xQueueReceive.
Receive(t, q) ==
  /\ kernel' = xTaskRemoveFromEventList(kernel, xTasksWaitingToSend(q))
  /\ uxMessagesWaiting' = [uxMessagesWaiting EXCEPT ![q] = @ - 1]
  /\ pxMutexHolder' = IF q \in Mutexes
                      THEN [pxMutexHolder EXCEPT ![q] = t] ELSE pxMutexHolder
  /\ owns' = IF q \in Mutexes THEN owns \cup {<<t, q>>} ELSE owns
  /\ Return(t, ShouldYield(kernel, xTasksWaitingToSend(q)))
  /\ UNCHANGED irq

\* The first critical section found no room, or nothing, and the caller waits.
StartWaiting(t, op, q, n) ==
  /\ n # 0
  /\ at' = [at EXCEPT ![t] = "block"]
  /\ call' = [call EXCEPT ![t] = [op |-> op, q |-> q, ticks |-> n]]
  /\ UNCHANGED <<kernel, irq, uxMessagesWaiting, pxMutexHolder, owns>>

\* errQUEUE_FULL without waiting; a caller of xSemaphoreGive takes the mutex
\* for released.
GiveUp(t, q) ==
  /\ owns' = owns \ {<<t, q>>}
  /\ UNCHANGED <<kernel, irq, at, uxMessagesWaiting, pxMutexHolder, call>>

-----------------------------------------------------------------------------
\* First critical section of prvSend.  A mutex is sent to by xSemaphoreGive
\* only, which does not wait, and by a task that took it.
xQueueSend(t, q, n) ==
  /\ Running(t) /\ at[t] = "run"
  /\ q \in Mutexes => n = 0 /\ <<t, q>> \in owns
  /\ \/ CanSend(q) /\ Send(t, q)
     \/ ~CanSend(q) /\ StartWaiting(t, "send", q, n)
     \/ ~CanSend(q) /\ n = 0 /\ GiveUp(t, q)

\* First critical section of xQueueReceive.
xQueueReceive(t, q, n) ==
  /\ Running(t) /\ at[t] = "run"
  /\ \/ CanReceive(q) /\ Receive(t, q)
     \/ ~CanReceive(q) /\ StartWaiting(t, "receive", q, n)
     \/ ~CanReceive(q) /\ n = 0 /\ UNCHANGED vars

\* Mutant: no taskYIELD after the second critical section.
BlockWithoutYield(t) ==
  LET q == call[t].q
  IN  /\ Running(t) /\ at[t] = "block"
      /\ kernel' = vTaskPlaceOnEventList(kernel, <<q, call[t].op>>, call[t].ticks)
      /\ at' = [at EXCEPT ![t] = "recheck"]
      /\ UNCHANGED <<irq, queueVars>>

\* Second critical section: onto the event list, the holder of a mutex being
\* raised first.
Block(t) ==
  LET q == call[t].q
      k == IF call[t].op = "receive" /\ q \in Mutexes
           THEN vTaskPriorityInherit(kernel, pxMutexHolder[q]) ELSE kernel
  IN  /\ Running(t) /\ at[t] = "block"
      /\ kernel' = vTaskPlaceOnEventList(k, <<q, call[t].op>>, call[t].ticks)
      /\ at' = [at EXCEPT ![t] = "wait"]
      /\ UNCHANGED <<irq, queueVars>>

\* Third critical section: the one re-check after the wake-up.
Recheck(t) ==
  LET q == call[t].q
  IN  /\ Running(t) /\ at[t] = "recheck"
      /\ \/ call[t].op = "send" /\ CanSend(q) /\ Send(t, q)
         \/ call[t].op = "receive" /\ CanReceive(q) /\ Receive(t, q)
         \/ /\ IF call[t].op = "send" THEN ~CanSend(q) ELSE ~CanReceive(q)
            /\ owns' = IF q \in Mutexes /\ ~ChecksResult
                       THEN owns \cup {<<t, q>>} ELSE owns
            /\ Return(t, FALSE)
            /\ UNCHANGED <<kernel, irq, uxMessagesWaiting, pxMutexHolder>>

-----------------------------------------------------------------------------
Init ==
  /\ SchedInit
  /\ uxMessagesWaiting = InitialCount
  /\ pxMutexHolder = [q \in Queues |-> NULL]
  /\ call = [t \in AllTasks |-> NoCall]
  /\ owns = {}

\* The steps of task t; the idle task only waits for interrupts.
TaskStep(t) ==
  \/ /\ \/ \E n \in Delays : vTaskDelay(t, n)
        \/ \E b \in InheritModes : vTaskSetMutexInheritance(t, b)
        \/ taskYIELD(t)
     /\ UNCHANGED queueVars
  \/ \E q \in Queues, n \in Waits : xQueueSend(t, q, n) \/ xQueueReceive(t, q, n)
  \/ Block(t)
  \/ Recheck(t)

Next ==
  \/ (vTaskStartScheduler \/ Tick) /\ UNCHANGED queueVars
  \/ \E t \in Tasks : xTaskCreate(t) /\ UNCHANGED queueVars
  \/ \E t \in Tasks : TaskStep(t)

Spec == Init /\ [][Next]_vars
-----------------------------------------------------------------------------
\* The types of the state of tasks.c and queue.c.
TypeOK ==
  /\ SchedTypeOK
  /\ uxMessagesWaiting \in [Queues -> Nat]
  /\ pxMutexHolder \in [Queues -> Tasks \cup {NULL}]
  /\ call \in [AllTasks -> Calls \cup {NoCall}]
  /\ owns \subseteq Tasks \X Mutexes

\* No queue holds more than its storage: the re-check after a wake-up guards
\* prvCopyIn as the first check does.
CountBounded == \A q \in Queues : uxMessagesWaiting[q] <= uxLength[q]

\* A mutex is one token: it is in the queue, or with the one task that took
\* it and that pxMutexHolder names.
MutexToken ==
  \A m \in Mutexes :
    \/ /\ uxMessagesWaiting[m] = 1
       /\ pxMutexHolder[m] = NULL
       /\ \A t \in Tasks : <<t, m>> \notin owns
    \/ /\ uxMessagesWaiting[m] = 0
       /\ pxMutexHolder[m] \in Tasks
       /\ \A t \in Tasks : <<t, m>> \in owns <=> t = pxMutexHolder[m]

\* "it provides mutual exclusion via a binary token" (semphr.h): at most one
\* task is past xSemaphoreTake and not yet past xSemaphoreGive.
MutualExclusion ==
  \A m \in Mutexes, t, u \in Tasks :
    <<t, m>> \in owns /\ <<u, m>> \in owns => t = u

\* A task is on an event list only inside the call that put it there.
WaitsInCall ==
  \A e \in EventLists : \A t \in Items(kernel.xEventLists[e]) :
    at[t] \in {"wait", "recheck"} /\ e = <<call[t].q, call[t].op>>

\* Priority inheritance leaves no residue: a task above its base priority
\* holds a mutex, and no task is ever below its base priority.
BoostedHoldsMutex ==
  \A t \in AllTasks :
    kernel.uxPriority[t] # uxBasePriority(t) =>
      /\ kernel.uxPriority[t] > uxBasePriority(t)
      /\ \E m \in Mutexes : pxMutexHolder[m] = t

\* The running task changes only to one of the highest ready priority.
SwitchStep ==
  /\ kernel.xSchedulerRunning
  /\ kernel'.pxCurrentTCB # kernel.pxCurrentTCB
  => \A u \in ReadyItems(kernel') :
       kernel'.uxPriority[u] <= kernel'.uxPriority[kernel'.pxCurrentTCB]

\* A context switch, by the tick or by taskYIELD, goes to a task than which no
\* ready task has a higher current priority, whatever happened to
\* uxTopReadyPriority and to the ready lists since the last one.
SwitchesToHighest == [][SwitchStep]_vars

\* "raise it to the blocker's priority so it can release the mutex promptly
\* (avoids unbounded priority inversion)" (tasks.c): whoever holds a mutex
\* runs at the priority of those blocked on it, or above.
NoInversion ==
  \A m \in Mutexes : \A t \in Items(kernel.xEventLists[xTasksWaitingToReceive(m)]) :
    /\ pxMutexHolder[m] # NULL
    /\ kernel.xInheritEnabled
    => kernel.uxPriority[pxMutexHolder[m]] >= kernel.uxPriority[t]

\* "a blocked caller ... wakes on the event" (queue.c): a queue is not at the
\* same time empty for one task and full for another, so a receiver and a
\* sender never both wait for ever on one queue.
NoMutualWait ==
  \A q \in Queues :
    \/ Items(kernel.xEventLists[xTasksWaitingToSend(q)]) \cap SuspendedItems(kernel) = {}
    \/ Items(kernel.xEventLists[xTasksWaitingToReceive(q)]) \cap SuspendedItems(kernel) = {}

\* "Wake the highest-priority task waiting on an event list" (tasks.c): the
\* head of an event list, the task the next event wakes, has the highest
\* current priority on it.
HeadIsHighest ==
  \A e \in EventLists : \A t \in Items(kernel.xEventLists[e]) :
    kernel.uxPriority[kernel.xEventLists[e].items[1]] >= kernel.uxPriority[t]
-----------------------------------------------------------------------------
\* The timer is programmed for the next period before the handler returns and
\* no critical section lasts for ever: ticks go on.  Nothing is assumed of
\* the tasks.
FairSpec == Spec /\ WF_vars(Tick /\ UNCHANGED queueVars)

\* A delay or a finite xTicksToWait ends, whatever the other tasks do and
\* where the tick counter wraps: the task becomes ready.
DelayEnds == \A t \in Tasks : (t \in DelayedItems(kernel)) ~> (t \in ReadyItems(kernel))

\* Time slicing is fair: a task that stays ready at the highest ready
\* priority runs again and again, although tasks of its priority leave and
\* enter the list, moving the cursor pxIndex.
RoundRobin ==
  \A t \in AllTasks :
    <>[](/\ kernel.xSchedulerRunning
         /\ t \in ReadyItems(kernel)
         /\ \A u \in ReadyItems(kernel) : kernel.uxPriority[u] <= kernel.uxPriority[t])
      => []<>(kernel.pxCurrentTCB = t)
==============================================================================
