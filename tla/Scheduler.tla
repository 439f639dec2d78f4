------------------------------ MODULE Scheduler ------------------------------
(***************************************************************************)
(* kernel/tasks.c: the fixed-priority preemptive scheduler.                *)
(*                                                                         *)
(* The static variables of tasks.c and the TCB fields the scheduler reads  *)
(* are the fields of one record, the variable kernel; the functions of     *)
(* tasks.c are operators from such a record to the next one, so that       *)
(* queue.c can call several of them inside one critical section.  A        *)
(* critical section masks the only interrupt that reschedules, the tick,   *)
(* and is one step.  The tick interrupt is a sequence of steps during      *)
(* which no task runs (irq = "tick").                                      *)
(***************************************************************************)
EXTENDS FlintList, FiniteSets

CONSTANTS Tasks,              \* tasks the application may create
          Idle,               \* the task vTaskStartScheduler creates
          NULL,
          MaxPriorities,      \* configMAX_PRIORITIES
          RequestedPriority,  \* the uxPriority argument of xTaskCreate
          Queues,             \* each queue has two event lists
          Delays,             \* arguments of vTaskDelay
          InheritModes        \* arguments of vTaskSetMutexInheritance

AllTasks   == Tasks \cup {Idle}
Priorities == 0..MaxPriorities - 1
Ticks      == 0..portMAX_DELAY
EventLists == Queues \X {"send", "receive"}

ASSUME SchedulerAssumption ==
  /\ Idle \notin Tasks
  /\ NULL \notin AllTasks
  /\ xListEnd \notin AllTasks
  /\ MaxPriorities \in Nat \ {0}
  /\ MaxPriorities < portMAX_DELAY
  /\ RequestedPriority \in [Tasks -> Nat]
  /\ Delays \subseteq Ticks \ {0}
  /\ InheritModes \subseteq BOOLEAN

VARIABLES kernel,   \* the state of tasks.c
          irq,      \* "tick" inside the tick interrupt, else "none"
          at        \* where each task is in its own code

schedVars == <<kernel, irq, at>>

\* "none": not created.  "run": in application code.  "yield": about to
\* execute the taskYIELD that ends a kernel call.  "block": inside a queue
\* call, between its first and second critical section.  "wait": on the event
\* list, about to taskYIELD.  "recheck": before the third critical section.
Places == {"none", "run", "yield", "block", "wait", "recheck"}

-----------------------------------------------------------------------------
\* uxBasePriority: xTaskCreate clamps the priority it is given.
uxBasePriority(t) ==
  IF t = Idle THEN 0
  ELSE IF RequestedPriority[t] >= MaxPriorities THEN MaxPriorities - 1
  ELSE RequestedPriority[t]

\* xItemValue of the event list items, set once, by xTaskCreate.
xEventItemValue == [t \in AllTasks |-> MaxPriorities - uxBasePriority(t)]

\* The kernel before the first xTaskCreate; uxPriority and xItemValue of a
\* task mean nothing until it is created.
prvInitialiseTaskLists ==
  [pxCurrentTCB       |-> NULL,
   xReadyTasksLists   |-> [p \in Priorities |-> EmptyList],
   xDelayedTaskList   |-> EmptyList,
   xSuspendedTaskList |-> EmptyList,
   xEventLists        |-> [e \in EventLists |-> EmptyList],
   uxTopReadyPriority |-> 0,
   xTickCount         |-> 0,
   xSchedulerRunning  |-> FALSE,
   xInheritEnabled    |-> TRUE,
   uxPriority         |-> [t \in AllTasks |-> uxBasePriority(t)],
   xItemValue         |-> [t \in AllTasks |-> 0]]

ReadyItems(k) == UNION {Items(k.xReadyTasksLists[p]) : p \in Priorities}

\* uxListRemove of the state item, whichever list contains it.
RemoveStateItem(k, t) ==
  [k EXCEPT !.xReadyTasksLists   = [p \in Priorities |-> Unlink(@[p], t)],
            !.xDelayedTaskList   = Unlink(@, t),
            !.xSuspendedTaskList = Unlink(@, t)]

\* uxListRemove of the event item if an event list contains it.
RemoveEventItem(k, t) ==
  [k EXCEPT !.xEventLists = [e \in EventLists |-> Unlink(@[e], t)]]

\* Mutant: uxTopReadyPriority is not raised.
AddWithoutTop(k, t) ==
  LET p == k.uxPriority[t]
  IN  [k EXCEPT !.xItemValue[t] = p,
                !.xReadyTasksLists[p] = vListInsertEnd(@, t)]

prvAddTaskToReadyList(k, t) ==
  LET p == k.uxPriority[t]
  IN  [k EXCEPT !.uxTopReadyPriority = IF p > @ THEN p ELSE @,
                !.xItemValue[t] = p,
                !.xReadyTasksLists[p] = vListInsertEnd(@, t)]

\* Mutant: the new priority is recorded, the ready list is not changed.
RecordPriorityOnly(k, t, p) == [k EXCEPT !.uxPriority[t] = p]

prvReprioritise(k, t, p) ==
  IF t \in Items(k.xReadyTasksLists[k.uxPriority[t]])
  THEN prvAddTaskToReadyList(
         [RemoveStateItem(k, t) EXCEPT !.uxPriority[t] = p], t)
  ELSE [k EXCEPT !.uxPriority[t] = p]

vTaskPriorityInherit(k, holder) ==
  IF /\ holder # NULL
     /\ k.xInheritEnabled
     /\ k.uxPriority[holder] < k.uxPriority[k.pxCurrentTCB]
  THEN prvReprioritise(k, holder, k.uxPriority[k.pxCurrentTCB])
  ELSE k

\* Mutant: the boost outlives the mutex.
KeepBoost(k, holder) == k

vTaskPriorityDisinherit(k, holder) ==
  IF holder # NULL /\ k.uxPriority[holder] # uxBasePriority(holder)
  THEN prvReprioritise(k, holder, uxBasePriority(holder))
  ELSE k

\* The highest non-empty ready list at or below uxTopReadyPriority, or 0.
HighestReady(k) ==
  LET nonempty == {p \in 0..k.uxTopReadyPriority :
                     ~listLIST_IS_EMPTY(k.xReadyTasksLists[p])}
  IN  IF nonempty = {} THEN 0
      ELSE CHOOSE p \in nonempty : \A r \in nonempty : r <= p

\* Mutant: the head of the list runs, the cursor does not move.
SwitchToHead(k) ==
  LET p == HighestReady(k)
  IN  [k EXCEPT !.uxTopReadyPriority = p,
                !.pxCurrentTCB = Head(k.xReadyTasksLists[p].items)]

\* The sentinel has no owner: on empty lists the outcome would be garbage,
\* here NULL (IdleReady shows that it does not happen).
vTaskSwitchContext(k) ==
  LET p == HighestReady(k)
      list == listGET_OWNER_OF_NEXT_ENTRY(k.xReadyTasksLists[p])
  IN  [k EXCEPT !.uxTopReadyPriority = p,
                !.xReadyTasksLists[p] = list,
                !.pxCurrentTCB = IF list.index = xListEnd THEN NULL
                                                          ELSE list.index]

\* xTickCount + n in the width of TickType_t.
TickPlus(k, n) == (k.xTickCount + n) % (portMAX_DELAY + 1)

\* Insertion of the state item in the delayed list, due n ticks from now.
AddToDelayedList(k, t, n) ==
  LET value == [k.xItemValue EXCEPT ![t] = TickPlus(k, n)]
  IN  [k EXCEPT !.xItemValue = value,
                !.xDelayedTaskList = vListInsert(@, value, t)]

vTaskPlaceOnEventList(k, e, n) ==
  LET t == k.pxCurrentTCB
      k1 == [RemoveStateItem(k, t)
               EXCEPT !.xEventLists[e] = vListInsert(@, xEventItemValue, t)]
  IN  IF n = portMAX_DELAY
      THEN [k1 EXCEPT !.xSuspendedTaskList = vListInsertEnd(@, t)]
      ELSE AddToDelayedList(k1, t, n)

\* Off the event list if on one, off the delayed or suspended list, ready.
MakeReady(k, t) ==
  prvAddTaskToReadyList(RemoveStateItem(RemoveEventItem(k, t), t), t)

\* Mutant: the state item stays on the delayed or suspended list.
WakeEventItemOnly(k, e) ==
  IF listLIST_IS_EMPTY(k.xEventLists[e]) THEN k
  ELSE prvAddTaskToReadyList(RemoveEventItem(k, k.xEventLists[e].items[1]),
                             k.xEventLists[e].items[1])

xTaskRemoveFromEventList(k, e) ==
  IF listLIST_IS_EMPTY(k.xEventLists[e]) THEN k
  ELSE MakeReady(k, k.xEventLists[e].items[1])

\* The result of xTaskRemoveFromEventList: the task it wakes should preempt.
ShouldYield(k, e) ==
  /\ ~listLIST_IS_EMPTY(k.xEventLists[e])
  /\ k.uxPriority[k.xEventLists[e].items[1]] > k.uxPriority[k.pxCurrentTCB]

\* The critical section of xTaskCreate.
AddNewTask(k, t) ==
  prvAddTaskToReadyList(
    [k EXCEPT !.pxCurrentTCB = IF @ = NULL THEN t ELSE @], t)

-----------------------------------------------------------------------------
\* Task t executes its own code.
Running(t) ==
  /\ kernel.xSchedulerRunning
  /\ irq = "none"
  /\ kernel.pxCurrentTCB = t

\* Before vTaskStartScheduler main runs, afterwards a task may create others.
xTaskCreate(t) ==
  /\ at[t] = "none"
  /\ \/ ~kernel.xSchedulerRunning
     \/ \E u \in Tasks : Running(u) /\ at[u] = "run"
  /\ kernel' = AddNewTask(kernel, t)
  /\ at' = [at EXCEPT ![t] = "run"]
  /\ UNCHANGED irq

\* Mutant: the idle task could not be created.
StartWithoutIdle ==
  /\ ~kernel.xSchedulerRunning
  /\ kernel' = [kernel EXCEPT !.xSchedulerRunning = TRUE, !.xTickCount = 0]
  /\ UNCHANGED <<irq, at>>

\* The heap has room for the idle task.
vTaskStartScheduler ==
  /\ ~kernel.xSchedulerRunning
  /\ kernel' = [AddNewTask(kernel, Idle) EXCEPT !.xSchedulerRunning = TRUE,
                                                !.xTickCount = 0]
  /\ at' = [at EXCEPT ![Idle] = "run"]
  /\ UNCHANGED irq

vTaskSetMutexInheritance(t, enable) ==
  /\ Running(t) /\ at[t] = "run"
  /\ kernel' = [kernel EXCEPT !.xInheritEnabled = enable]
  /\ UNCHANGED <<irq, at>>

\* The critical section of vTaskDelay; the taskYIELD follows.
vTaskDelay(t, n) ==
  /\ Running(t) /\ at[t] = "run"
  /\ kernel' = AddToDelayedList(RemoveStateItem(kernel, t), t, n)
  /\ at' = [at EXCEPT ![t] = "yield"]
  /\ UNCHANGED irq

\* taskYIELD: a supervisor call whose handler switches context.
taskYIELD(t) ==
  /\ Running(t) /\ at[t] \in {"run", "yield", "wait"}
  /\ kernel' = vTaskSwitchContext(kernel)
  /\ at' = [at EXCEPT ![t] = IF @ = "wait" THEN "recheck" ELSE "run"]
  /\ UNCHANGED irq

-----------------------------------------------------------------------------
\* The tick interrupt: vPortIrqHandlerC calls xTaskIncrementTick, whose loop
\* takes one TickWake step per iteration, and then vTaskSwitchContext.
TickEntry ==
  /\ kernel.xSchedulerRunning
  /\ irq = "none"
  /\ kernel' = [kernel EXCEPT !.xTickCount = TickPlus(kernel, 1)]
  /\ irq' = "tick"
  /\ UNCHANGED at

\* Mutant: a task is due one tick late.
HeadIsOverdue ==
  /\ ~listLIST_IS_EMPTY(kernel.xDelayedTaskList)
  /\ kernel.xItemValue[kernel.xDelayedTaskList.items[1]] < kernel.xTickCount

\* The loop of xTaskIncrementTick goes on: the head of the list is due.
HeadIsDue ==
  /\ ~listLIST_IS_EMPTY(kernel.xDelayedTaskList)
  /\ kernel.xItemValue[kernel.xDelayedTaskList.items[1]] <= kernel.xTickCount

\* Mutant: a task that times out stays on its event list.
WakeStateItemOnly ==
  /\ irq = "tick"
  /\ HeadIsDue
  /\ LET t == kernel.xDelayedTaskList.items[1]
     IN  kernel' = prvAddTaskToReadyList(RemoveStateItem(kernel, t), t)
  /\ UNCHANGED <<irq, at>>

TickWake ==
  /\ irq = "tick"
  /\ HeadIsDue
  /\ kernel' = MakeReady(kernel, kernel.xDelayedTaskList.items[1])
  /\ UNCHANGED <<irq, at>>

TickSwitch ==
  /\ irq = "tick"
  /\ ~HeadIsDue
  /\ kernel' = vTaskSwitchContext(kernel)
  /\ irq' = "none"
  /\ UNCHANGED at

-----------------------------------------------------------------------------
SchedInit ==
  /\ kernel = prvInitialiseTaskLists
  /\ irq = "none"
  /\ at = [t \in AllTasks |-> "none"]

Tick == TickEntry \/ TickWake \/ TickSwitch
-----------------------------------------------------------------------------
\* The types of the scheduler's state.
KernelType ==
  [pxCurrentTCB       : AllTasks \cup {NULL},
   xReadyTasksLists   : [Priorities -> ListsOf(AllTasks)],
   xDelayedTaskList   : ListsOf(AllTasks),
   xSuspendedTaskList : ListsOf(AllTasks),
   xEventLists        : [EventLists -> ListsOf(AllTasks)],
   uxTopReadyPriority : Priorities,
   xTickCount         : Ticks,
   xSchedulerRunning  : BOOLEAN,
   xInheritEnabled    : BOOLEAN,
   uxPriority         : [AllTasks -> Priorities],
   xItemValue         : [AllTasks -> Ticks]]

SchedTypeOK ==
  /\ kernel \in KernelType
  /\ irq \in {"none", "tick"}
  /\ at \in [AllTasks -> Places]

Created(t)        == at[t] # "none"
DelayedItems(k)   == Items(k.xDelayedTaskList)
SuspendedItems(k) == Items(k.xSuspendedTaskList)
BlockedItems(k)   == DelayedItems(k) \cup SuspendedItems(k)

StateListsOK(k) ==
  /\ \A p \in Priorities : \A t \in Items(k.xReadyTasksLists[p]) : k.uxPriority[t] = p
  /\ DelayedItems(k) \cap SuspendedItems(k) = {}
  /\ BlockedItems(k) \cap ReadyItems(k) = {}

\* The state item of every created task is on exactly one list, and a ready
\* task is on the list of its current priority: what every uxListRemove of
\* tasks.c relies on, also after inheritance moved the task.
OnOneStateList ==
  /\ StateListsOK(kernel)
  /\ BlockedItems(kernel) \cup ReadyItems(kernel) = {t \in AllTasks : Created(t)}

EventListsOK(k) ==
  /\ \A e, f \in EventLists :
       e # f => Items(k.xEventLists[e]) \cap Items(k.xEventLists[f]) = {}
  /\ \A e \in EventLists : Items(k.xEventLists[e]) \subseteq BlockedItems(k)
  /\ \A t \in SuspendedItems(k) : \E e \in EventLists : t \in Items(k.xEventLists[e])

\* An event item is on at most one event list, and only while its task is
\* blocked; a task blocked for ever can be woken by its event.  The tick
\* (timeout) and a sender or receiver (event) race to take both items off.
EventItemOfBlocked == EventListsOK(kernel)

TopOK(k) ==
  \A p \in Priorities :
    ~listLIST_IS_EMPTY(k.xReadyTasksLists[p]) => p <= k.uxTopReadyPriority

\* vTaskSwitchContext searches downwards from uxTopReadyPriority: no ready
\* task is above it.
TopReadyBounds == TopOK(kernel)

\* Once the scheduler runs there is a task to switch to: the idle task never
\* leaves the list of priority 0, so that the search of vTaskSwitchContext
\* never ends on a sentinel, which has no owner.
IdleReady ==
  kernel.xSchedulerRunning =>
    /\ Idle \in Items(kernel.xReadyTasksLists[0])
    /\ kernel.pxCurrentTCB # NULL

\* A task that executes application code or the code between two critical
\* sections is ready: the uxListRemove with which vTaskDelay and
\* vTaskPlaceOnEventList begin takes it off a ready list.
RunnerIsReady ==
  kernel.xSchedulerRunning /\ at[kernel.pxCurrentTCB] \in {"run", "block", "recheck"}
    => kernel.pxCurrentTCB \in ReadyItems(kernel)

\* The delayed list is in ascending order of wake-up time, which lets
\* xTaskIncrementTick stop at the first task that is not due.
DelayedSorted ==
  LET s == kernel.xDelayedTaskList.items
  IN  \A i, j \in 1..Len(s) : i < j => kernel.xItemValue[s[i]] <= kernel.xItemValue[s[j]]
==============================================================================
