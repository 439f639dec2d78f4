----------------------------- MODULE WaitProofs ------------------------------
(***************************************************************************)
(* The order of the delayed list and the contents of the event lists, for  *)
(* any number of tasks, priorities, queues and mutexes and any tick width. *)
(* Both rest on the inductive invariant of QueueProofs: a task that leaves *)
(* its call is ready, hence on no event list; and a task whose item value  *)
(* changes is first taken off the delayed list.                            *)
(***************************************************************************)
EXTENDS QueueProofs

\* A list in ascending order of the values of its items.
Ascending(list, value) ==
  \A i, j \in 1..Len(list.items) :
    i < j => value[list.items[i]] <= value[list.items[j]]

-----------------------------------------------------------------------------
\* Unlinking an item keeps a list in order.
LEMMA UnlinkAscending ==
  ASSUME NEW S, NEW list \in ListsOf(S), NEW value, NEW x, Ascending(list, value)
  PROVE  Ascending(Unlink(list, x), value)
  <1> DEFINE s == list.items
             n == Len(s)
             i == Position(list, x)
             r == RemoveAt(s, i)
  <1>1. CASE x \notin Items(list)
    BY <1>1 DEF Unlink
  <1>2. CASE x \in Items(list)
    <2>1. s \in Seq(S) /\ n \in Nat /\ i \in 1..n
      BY <1>2, ListFacts, PositionProps
    <2>2. \A j, k \in 1..n : j < k => value[s[j]] <= value[s[k]]
      BY DEF Ascending
    <2>3. Unlink(list, x).items = r
      BY <1>2 DEF Unlink, uxListRemove
    <2> HIDE DEF s, i
    <2>4. /\ Len(r) = n - 1
          /\ \A j \in 1..n - 1 : r[j] = IF j < i THEN s[j] ELSE s[j + 1]
      BY <2>1, RemoveAtProps
    <2> HIDE DEF r, n
    <2>5. ASSUME NEW j \in 1..n - 1, NEW k \in 1..n - 1, j < k
          PROVE  value[r[j]] <= value[r[k]]
      <3> DEFINE a == IF j < i THEN j ELSE j + 1
                 b == IF k < i THEN k ELSE k + 1
      <3>1. a \in 1..n /\ b \in 1..n /\ a < b
        BY <2>1, <2>5
      <3>2. r[j] = s[a] /\ r[k] = s[b]
        BY <2>4
      <3> HIDE DEF a, b
      <3> QED BY <2>2, <3>1, <3>2
    <2> QED BY <2>3, <2>4, <2>5 DEF Ascending
  <1> QED BY <1>1, <1>2

\* vListInsert puts an item behind those that are not greater: the order
\* holds, also where the value is portMAX_DELAY and the walk is skipped.
LEMMA InsertAscending ==
  ASSUME NEW S, NEW list \in ListsOf(S), NEW value \in [S -> Ticks], NEW x \in S,
         Ascending(list, value)
  PROVE  Ascending(vListInsert(list, value, x), value)
  <1> DEFINE s == list.items
             n == Len(s)
             v == value[x]
             i == InsertPosition(list, value, v)
             r == InsertAt(s, i, x)
  <1>1. /\ s \in Seq(S) /\ n \in Nat
        /\ \A j \in 1..n : s[j] \in S
        /\ list = [items |-> list.items, index |-> list.index]
    BY ListFacts
  <1>2. value \in [S -> Nat] /\ v \in Ticks /\ v \in Nat
    BY Constants
  <1>3. \A j, k \in 1..n : j < k => value[s[j]] <= value[s[k]]
    BY DEF Ascending
  <1>4. i \in 1..n + 1
    BY <1>2, InsertPositionProps
  <1>5. \A j \in 1..n : value[s[j]] \in Nat /\ value[s[j]] <= portMAX_DELAY
    BY <1>1, <1>2, Constants DEF Ticks
  <1>6. /\ \A j \in 1..i - 1 : value[s[j]] <= v
        /\ i <= n => v <= value[s[i]]
    <2>1. CASE v = portMAX_DELAY
      <3>1. i = n + 1
        BY <2>1 DEF InsertPosition
      <3> HIDE DEF i, s, n, v
      <3> QED BY <1>1, <1>5, <2>1, <3>1
    <2>2. CASE v # portMAX_DELAY
      <3>1. /\ \A j \in 1..i - 1 : value[s[j]] <= v
            /\ i <= n => value[s[i]] > v
        BY <1>2, <2>2, InsertPositionProps
      <3> HIDE DEF i, s, n, v
      <3> QED BY <1>2, <1>4, <1>5, <1>1, <3>1
    <2> QED BY <2>1, <2>2
  <1>7. vListInsert(list, value, x).items = r
    BY <1>1 DEF vListInsert
  <1> HIDE DEF s, i
  <1>8. /\ Len(r) = n + 1
        /\ \A j \in 1..i - 1 : r[j] = s[j]
        /\ r[i] = x
        /\ \A j \in i + 1..n + 1 : r[j] = s[j - 1]
    BY <1>1, <1>4, InsertAtProps
  <1> HIDE DEF r, n
  <1>9. ASSUME NEW j \in 1..n + 1, NEW k \in 1..n + 1, j < k
        PROVE  value[r[j]] <= value[r[k]]
    <2>1. CASE k < i
      BY <1>1, <1>3, <1>4, <1>8, <1>9, <2>1
    <2>2. CASE k = i
      BY <1>1, <1>4, <1>6, <1>8, <1>9, <2>2
    <2>3. CASE j = i
      <3>1. r[k] = s[k - 1] /\ k - 1 \in 1..n /\ i \in 1..n /\ i <= k - 1
        BY <1>1, <1>4, <1>8, <1>9, <2>3
      <3>2. value[s[i]] <= value[s[k - 1]]
        <4>1. CASE i = k - 1
          BY <1>5, <3>1, <4>1
        <4>2. CASE i < k - 1
          BY <1>3, <3>1, <4>2
        <4> QED BY <1>4, <3>1, <4>1, <4>2
      <3>3. v <= value[s[i]] /\ value[s[i]] \in Nat /\ value[s[k - 1]] \in Nat
        BY <1>1, <1>5, <1>6, <3>1
      <3> QED BY <1>2, <1>8, <2>3, <3>1, <3>2, <3>3
    <2>4. CASE j < i /\ i < k
      <3>1. /\ r[k] = s[k - 1] /\ k - 1 \in 1..n /\ r[j] = s[j] /\ j \in 1..n
            /\ j <= k - 1
        BY <1>1, <1>4, <1>8, <1>9, <2>4
      <3> QED BY <1>1, <1>3, <1>5, <3>1
    <2>5. CASE i < j
      <3>1. /\ r[k] = s[k - 1] /\ k - 1 \in 1..n /\ r[j] = s[j - 1] /\ j - 1 \in 1..n
            /\ j - 1 < k - 1
        BY <1>1, <1>4, <1>8, <1>9, <2>5
      <3> QED BY <1>3, <3>1
    <2> QED BY <1>1, <1>4, <1>9, <2>1, <2>2, <2>3, <2>4, <2>5
  <1> QED BY <1>7, <1>8, <1>9 DEF Ascending

\* The order depends on the values of the linked items only.
LEMMA SameAscending ==
  ASSUME NEW list, NEW value, NEW new, Ascending(list, value),
         \A y \in Items(list) : new[y] = value[y]
  PROVE  Ascending(list, new)
  <1>1. \A i \in 1..Len(list.items) : new[list.items[i]] = value[list.items[i]]
    BY DEF Items
  <1> QED BY <1>1 DEF Ascending

-----------------------------------------------------------------------------
\* From k to j no task entered an event list, and the delayed list stayed in
\* order.
Keeps(k, j) ==
  /\ j \in KernelType
  /\ \A e \in EventLists : Items(j.xEventLists[e]) \subseteq Items(k.xEventLists[e])
  /\ Ascending(k.xDelayedTaskList, k.xItemValue)
       => Ascending(j.xDelayedTaskList, j.xItemValue)

\* A function that leaves these fields alone.
LEMMA SameKeeps ==
  ASSUME NEW k, NEW j \in KernelType,
         j.xEventLists = k.xEventLists,
         j.xDelayedTaskList = k.xDelayedTaskList,
         j.xItemValue = k.xItemValue
  PROVE  Keeps(k, j)
  BY DEF Keeps

\* One function after another.
LEMMA KeepsTrans ==
  ASSUME NEW k, NEW j, NEW l, Keeps(k, j), Keeps(j, l)
  PROVE  Keeps(k, l)
  BY DEF Keeps

\* Removal of a state item.
LEMMA RemoveStateKeeps ==
  ASSUME NEW k \in KernelType, NEW t
  PROVE  LET j == RemoveStateItem(k, t)
         IN  /\ Keeps(k, j)
             /\ j.xEventLists = k.xEventLists
             /\ t \notin DelayedItems(j)
             /\ t \notin SuspendedItems(j)
             /\ \A p \in Priorities : t \notin Items(j.xReadyTasksLists[p])
  <1> DEFINE j == RemoveStateItem(k, t)
  <1>1. /\ j \in KernelType
        /\ SameButStateLists(k, j)
        /\ DelayedItems(j) = DelayedItems(k) \ {t}
        /\ SuspendedItems(j) = SuspendedItems(k) \ {t}
        /\ \A p \in Priorities :
             Items(j.xReadyTasksLists[p]) = Items(k.xReadyTasksLists[p]) \ {t}
    BY RemoveStateProps
  <1>2. j.xDelayedTaskList = Unlink(k.xDelayedTaskList, t)
    BY DEF RemoveStateItem, KernelType
  <1> HIDE DEF j
  <1>3. k.xDelayedTaskList \in ListsOf(AllTasks)
    BY Fields
  <1>4. Ascending(k.xDelayedTaskList, k.xItemValue)
          => Ascending(j.xDelayedTaskList, k.xItemValue)
    BY <1>2, <1>3, UnlinkAscending
  <1>5. Keeps(k, j)
    BY <1>1, <1>4 DEF Keeps, SameButStateLists
  <1> QED BY <1>1, <1>5 DEF j, SameButStateLists

\* prvAddTaskToReadyList overwrites the item value of a task that is not on
\* the delayed list.
LEMMA AddReadyKeeps ==
  ASSUME NEW k \in KernelType, NEW t \in AllTasks, t \notin DelayedItems(k),
         t \notin Items(k.xReadyTasksLists[k.uxPriority[t]])
  PROVE  /\ Keeps(k, prvAddTaskToReadyList(k, t))
         /\ prvAddTaskToReadyList(k, t).xEventLists = k.xEventLists
  <1> DEFINE j == prvAddTaskToReadyList(k, t)
  <1>1. AddedReady(k, j, t)
    BY AddReadyProps
  <1>2. k.xItemValue \in [AllTasks -> Ticks]
    BY Fields
  <1>3. j.xItemValue = [k.xItemValue EXCEPT ![t] = k.uxPriority[t]]
    BY DEF prvAddTaskToReadyList, KernelType
  <1> HIDE DEF j
  <1>4. k.xDelayedTaskList \in ListsOf(AllTasks)
    BY Fields
  <1>5. \A y \in DelayedItems(k) : y \in AllTasks /\ y # t
    BY <1>4, ListFacts DEF DelayedItems
  <1>6. \A y \in Items(k.xDelayedTaskList) : j.xItemValue[y] = k.xItemValue[y]
    BY <1>2, <1>3, <1>5 DEF DelayedItems
  <1>7. Ascending(k.xDelayedTaskList, k.xItemValue)
          => Ascending(k.xDelayedTaskList, j.xItemValue)
    BY <1>6, SameAscending
  <1> QED BY <1>1, <1>7 DEF Keeps, AddedReady, j

\* AddToDelayedList inserts in order, at the new value.
LEMMA AddDelayedKeeps ==
  ASSUME NEW k \in KernelType, NEW t \in AllTasks, NEW n \in Ticks,
         t \notin DelayedItems(k)
  PROVE  /\ Keeps(k, AddToDelayedList(k, t, n))
         /\ AddToDelayedList(k, t, n).xEventLists = k.xEventLists
  <1> DEFINE j == AddToDelayedList(k, t, n)
             value == [k.xItemValue EXCEPT ![t] = TickPlus(k, n)]
  <1>1. j \in KernelType
    BY AddDelayedProps
  <1>2. /\ j.xEventLists = k.xEventLists
        /\ j.xItemValue = value
        /\ j.xDelayedTaskList = vListInsert(k.xDelayedTaskList, value, t)
    BY DEF AddToDelayedList, KernelType
  <1>3. /\ k.xDelayedTaskList \in ListsOf(AllTasks)
        /\ k.xItemValue \in [AllTasks -> Ticks]
        /\ j.xItemValue \in [AllTasks -> Ticks]
    BY <1>1, Fields
  <1>4. \A y \in Items(k.xDelayedTaskList) : y \in AllTasks /\ y # t
    BY <1>3, ListFacts DEF DelayedItems
  <1>5. \A y \in Items(k.xDelayedTaskList) : value[y] = k.xItemValue[y]
    BY <1>3, <1>4
  <1> HIDE DEF j, value
  <1>6. Ascending(k.xDelayedTaskList, k.xItemValue)
          => Ascending(k.xDelayedTaskList, value)
    BY <1>5, SameAscending
  <1>7. Ascending(k.xDelayedTaskList, value)
          => Ascending(j.xDelayedTaskList, j.xItemValue)
    BY <1>2, <1>3, InsertAscending
  <1> QED BY <1>1, <1>2, <1>6, <1>7 DEF Keeps, j

\* The wake-up of a task, by an event or by the tick.
LEMMA MakeReadyKeeps ==
  ASSUME NEW k \in KernelType, NEW t \in AllTasks
  PROVE  Keeps(k, MakeReady(k, t))
  <1> DEFINE k1 == RemoveEventItem(k, t)
             k2 == RemoveStateItem(k1, t)
  <1>1. /\ k1 \in KernelType
        /\ \A e \in EventLists : Items(k1.xEventLists[e]) = Items(k.xEventLists[e]) \ {t}
    BY RemoveEventProps
  <1>2. k1.xDelayedTaskList = k.xDelayedTaskList /\ k1.xItemValue = k.xItemValue
    BY DEF RemoveEventItem, KernelType
  <1> HIDE DEF k1
  <1>3. Keeps(k, k1)
    BY <1>1, <1>2 DEF Keeps
  <1>4. /\ Keeps(k1, k2)
        /\ t \notin DelayedItems(k2)
        /\ \A p \in Priorities : t \notin Items(k2.xReadyTasksLists[p])
    BY <1>1, RemoveStateKeeps
  <1> HIDE DEF k2
  <1>5. k2 \in KernelType /\ k2.uxPriority[t] \in Priorities
    BY <1>4, Fields DEF Keeps
  <1>6. Keeps(k2, prvAddTaskToReadyList(k2, t))
    BY <1>4, <1>5, AddReadyKeeps
  <1>7. MakeReady(k, t) = prvAddTaskToReadyList(k2, t)
    BY DEF MakeReady, k1, k2
  <1>8. Keeps(k, k2)
    BY <1>3, <1>4, KeepsTrans
  <1> QED BY <1>6, <1>7, <1>8, KeepsTrans

\* xTaskRemoveFromEventList wakes the head of an event list, if there is one.
LEMMA WakeKeeps ==
  ASSUME NEW k \in KernelType, NEW e \in EventLists
  PROVE  Keeps(k, xTaskRemoveFromEventList(k, e))
  <1>1. CASE listLIST_IS_EMPTY(k.xEventLists[e])
    BY <1>1, SameKeeps DEF xTaskRemoveFromEventList
  <1>2. CASE ~listLIST_IS_EMPTY(k.xEventLists[e])
    <2>1. k.xEventLists[e] \in ListsOf(AllTasks)
      BY Fields
    <2>2. k.xEventLists[e].items[1] \in AllTasks
      BY <1>2, <2>1, EmptyItems, ListFacts
    <2> QED BY <1>2, <2>2, MakeReadyKeeps DEF xTaskRemoveFromEventList
  <1> QED BY <1>1, <1>2

\* A change of priority re-queues a ready task and nothing else.
LEMMA ReprioritiseKeeps ==
  ASSUME NEW k \in KernelType, NEW t \in AllTasks, NEW p \in Priorities
  PROVE  /\ Keeps(k, prvReprioritise(k, t, p))
         /\ prvReprioritise(k, t, p).xEventLists = k.xEventLists
         /\ prvReprioritise(k, t, p).pxCurrentTCB = k.pxCurrentTCB
  <1> DEFINE k1 == RemoveStateItem(k, t)
             k2 == [k1 EXCEPT !.uxPriority[t] = p]
             j  == prvAddTaskToReadyList(k2, t)
             k3 == [k EXCEPT !.uxPriority[t] = p]
  <1>1. k.uxPriority \in [AllTasks -> Priorities]
    BY Fields
  <1>2. CASE t \in Items(k.xReadyTasksLists[k.uxPriority[t]])
    <2>1. /\ Keeps(k, k1)
          /\ k1.xEventLists = k.xEventLists
          /\ t \notin DelayedItems(k1)
          /\ \A r \in Priorities : t \notin Items(k1.xReadyTasksLists[r])
      BY RemoveStateKeeps
    <2>2. k1.pxCurrentTCB = k.pxCurrentTCB
      BY RemoveStateProps DEF SameButStateLists
    <2> HIDE DEF k1
    <2>3. k1 \in KernelType /\ k1.uxPriority \in [AllTasks -> Priorities]
      BY <2>1, Fields DEF Keeps
    <2>4. [k1.uxPriority EXCEPT ![t] = p] \in [AllTasks -> Priorities]
          /\ [k1.uxPriority EXCEPT ![t] = p][t] = p
      BY <2>3
    <2>5. /\ k2 \in KernelType
          /\ k2.uxPriority[t] = p
          /\ k2.xReadyTasksLists = k1.xReadyTasksLists
          /\ k2.xEventLists = k1.xEventLists
          /\ k2.xDelayedTaskList = k1.xDelayedTaskList
          /\ k2.xItemValue = k1.xItemValue
          /\ k2.pxCurrentTCB = k1.pxCurrentTCB
      BY <2>3, <2>4 DEF KernelType
    <2> HIDE DEF k2
    <2>6. Keeps(k1, k2)
      BY <2>5, SameKeeps
    <2>7. /\ t \notin DelayedItems(k2)
          /\ t \notin Items(k2.xReadyTasksLists[k2.uxPriority[t]])
      BY <2>1, <2>5 DEF DelayedItems
    <2>8. Keeps(k2, j) /\ j.xEventLists = k2.xEventLists
      BY <2>5, <2>7, AddReadyKeeps
    <2>9. j.pxCurrentTCB = k2.pxCurrentTCB
      BY <2>5, <2>7, AddReadyProps DEF AddedReady
    <2> HIDE DEF j
    <2>10. prvReprioritise(k, t, p) = j
      BY <1>2 DEF prvReprioritise, j, k2, k1
    <2>11. Keeps(k, k2)
      BY <2>1, <2>6, KeepsTrans
    <2>12. Keeps(k, j)
      BY <2>8, <2>11, KeepsTrans
    <2> QED BY <2>1, <2>2, <2>5, <2>8, <2>9, <2>10, <2>12
  <1>3. CASE t \notin Items(k.xReadyTasksLists[k.uxPriority[t]])
    <2>1. [k.uxPriority EXCEPT ![t] = p] \in [AllTasks -> Priorities]
      BY <1>1
    <2>2. /\ k3 \in KernelType
          /\ k3.xEventLists = k.xEventLists
          /\ k3.xDelayedTaskList = k.xDelayedTaskList
          /\ k3.xItemValue = k.xItemValue
          /\ k3.pxCurrentTCB = k.pxCurrentTCB
      BY <2>1 DEF KernelType
    <2>3. prvReprioritise(k, t, p) = k3
      BY <1>3 DEF prvReprioritise
    <2> HIDE DEF k3
    <2> QED BY <2>2, <2>3, SameKeeps
  <1> QED BY <1>2, <1>3

\* Priority inheritance and its end.
LEMMA InheritKeeps ==
  ASSUME NEW k \in KernelType, NEW holder \in AllTasks \cup {NULL},
         k.pxCurrentTCB \in AllTasks
  PROVE  /\ Keeps(k, vTaskPriorityInherit(k, holder))
         /\ vTaskPriorityInherit(k, holder).xEventLists = k.xEventLists
         /\ vTaskPriorityInherit(k, holder).pxCurrentTCB = k.pxCurrentTCB
  <1>1. k.uxPriority[k.pxCurrentTCB] \in Priorities
    BY Fields
  <1>2. CASE vTaskPriorityInherit(k, holder) = k
    BY <1>2, SameKeeps
  <1>3. CASE /\ holder # NULL
             /\ vTaskPriorityInherit(k, holder)
                  = prvReprioritise(k, holder, k.uxPriority[k.pxCurrentTCB])
    BY <1>1, <1>3, ReprioritiseKeeps
  <1> QED BY <1>2, <1>3 DEF vTaskPriorityInherit

LEMMA DisinheritKeeps ==
  ASSUME NEW k \in KernelType, NEW holder \in AllTasks \cup {NULL}
  PROVE  Keeps(k, vTaskPriorityDisinherit(k, holder))
  <1>1. CASE vTaskPriorityDisinherit(k, holder) = k
    BY <1>1, SameKeeps
  <1>2. CASE /\ holder # NULL
             /\ vTaskPriorityDisinherit(k, holder)
                  = prvReprioritise(k, holder, uxBasePriority(holder))
    BY <1>2, BasePriority, ReprioritiseKeeps
  <1> QED BY <1>1, <1>2 DEF vTaskPriorityDisinherit

\* xTaskCreate links a new task in a ready list.
LEMMA AddNewKeeps ==
  ASSUME NEW k, KernelGood(k), NEW t \in AllTasks,
         t \notin ReadyItems(k), t \notin BlockedItems(k)
  PROVE  Keeps(k, AddNewTask(k, t))
  <1> DEFINE c == IF k.pxCurrentTCB = NULL THEN t ELSE k.pxCurrentTCB
             k1 == [k EXCEPT !.pxCurrentTCB = c]
  <1>1. k \in KernelType
    BY DEF KernelGood
  <1>2. c \in AllTasks \cup {NULL} /\ k.uxPriority[t] \in Priorities
    BY <1>1, Fields
  <1> HIDE DEF c
  <1>3. /\ k1 \in KernelType
        /\ k1.xEventLists = k.xEventLists
        /\ k1.xDelayedTaskList = k.xDelayedTaskList
        /\ k1.xItemValue = k.xItemValue
        /\ k1.xReadyTasksLists = k.xReadyTasksLists
        /\ k1.uxPriority = k.uxPriority
    BY <1>1, <1>2 DEF KernelType
  <1> HIDE DEF k1
  <1>4. Keeps(k, k1)
    BY <1>3, SameKeeps
  <1>5. /\ t \notin DelayedItems(k1)
        /\ t \notin Items(k1.xReadyTasksLists[k1.uxPriority[t]])
    BY <1>2, <1>3 DEF BlockedItems, DelayedItems, ReadyItems
  <1>6. Keeps(k1, prvAddTaskToReadyList(k1, t))
    BY <1>3, <1>5, AddReadyKeeps
  <1>7. AddNewTask(k, t) = prvAddTaskToReadyList(k1, t)
    BY DEF AddNewTask, k1, c
  <1> QED BY <1>4, <1>6, <1>7, KeepsTrans

\* vTaskSwitchContext moves a cursor.
LEMMA SwitchKeeps ==
  ASSUME NEW k, KernelGood(k), ReadyItems(k) # {}
  PROVE  Keeps(k, vTaskSwitchContext(k))
  <1> DEFINE j == vTaskSwitchContext(k)
  <1>1. j \in KernelType /\ k \in KernelType
    BY SwitchGood DEF Becomes, KernelGood
  <1>2. /\ j.xEventLists = k.xEventLists
        /\ j.xDelayedTaskList = k.xDelayedTaskList
        /\ j.xItemValue = k.xItemValue
    BY <1>1 DEF vTaskSwitchContext, KernelType
  <1> QED BY <1>1, <1>2, SameKeeps

\* vTaskPlaceOnEventList links the event item of the running task in the one
\* event list, and keeps the delayed list in order.
LEMMA PlaceKeeps ==
  ASSUME NEW k \in KernelType, NEW e \in EventLists, NEW n \in Ticks,
         k.pxCurrentTCB \in AllTasks, k.pxCurrentTCB \notin Items(k.xEventLists[e])
  PROVE  LET j == vTaskPlaceOnEventList(k, e, n)
         IN  /\ j \in KernelType
             /\ \A f \in EventLists : \A x \in Items(j.xEventLists[f]) :
                  x \in Items(k.xEventLists[f]) \/ (f = e /\ x = k.pxCurrentTCB)
             /\ Ascending(k.xDelayedTaskList, k.xItemValue)
                  => Ascending(j.xDelayedTaskList, j.xItemValue)
  <1> DEFINE t == k.pxCurrentTCB
             k0 == RemoveStateItem(k, t)
             list == vListInsert(k0.xEventLists[e], xEventItemValue, t)
             event == [k0.xEventLists EXCEPT ![e] = list]
             k1 == [k0 EXCEPT !.xEventLists = event]
             susp == vListInsertEnd(k1.xSuspendedTaskList, t)
             j == vTaskPlaceOnEventList(k, e, n)
  <1>1. /\ Keeps(k, k0)
        /\ k0.xEventLists = k.xEventLists
        /\ t \notin DelayedItems(k0)
        /\ t \notin SuspendedItems(k0)
    BY RemoveStateKeeps
  <1>2. k0 \in KernelType
    BY <1>1 DEF Keeps
  <1>3. j = IF n = portMAX_DELAY THEN [k1 EXCEPT !.xSuspendedTaskList = susp]
                                 ELSE AddToDelayedList(k1, t, n)
    <2>1. k1 = [k0 EXCEPT !.xEventLists[e] = vListInsert(@, xEventItemValue, t)]
      BY <1>2 DEF KernelType
    <2> QED BY <2>1 DEF vTaskPlaceOnEventList
  <1> HIDE DEF k0, j
  <1>4. k0.xEventLists \in [EventLists -> ListsOf(AllTasks)]
    BY <1>2, Fields
  <1>5. list \in ListsOf(AllTasks) /\ Items(list) = Items(k.xEventLists[e]) \cup {t}
    BY <1>1, <1>4, EventItemValue, InsertProps
  <1> HIDE DEF list, t
  <1>6. /\ event \in [EventLists -> ListsOf(AllTasks)]
        /\ \A f \in EventLists : event[f] = IF f = e THEN list ELSE k.xEventLists[f]
    BY <1>1, <1>4, <1>5
  <1> HIDE DEF event
  <1>7. /\ k1 \in KernelType
        /\ k1.xEventLists = event
        /\ k1.xDelayedTaskList = k0.xDelayedTaskList
        /\ k1.xSuspendedTaskList = k0.xSuspendedTaskList
        /\ k1.xItemValue = k0.xItemValue
    BY <1>2, <1>6 DEF KernelType
  <1> HIDE DEF k1
  <1>8. /\ j \in KernelType
        /\ j.xEventLists = k1.xEventLists
        /\ Ascending(k1.xDelayedTaskList, k1.xItemValue)
             => Ascending(j.xDelayedTaskList, j.xItemValue)
    <2>0. t \in AllTasks
      BY DEF t
    <2>1. CASE n = portMAX_DELAY
      <3>1. k1.xSuspendedTaskList \in ListsOf(AllTasks) /\ t \notin Items(k1.xSuspendedTaskList)
        BY <1>1, <1>7, Fields DEF SuspendedItems
      <3>2. susp \in ListsOf(AllTasks)
        BY <2>0, <3>1, InsertEndProps
      <3> HIDE DEF susp
      <3>3. j = [k1 EXCEPT !.xSuspendedTaskList = susp]
        BY <1>3, <2>1
      <3> QED BY <1>7, <3>2, <3>3 DEF KernelType
    <2>2. CASE n # portMAX_DELAY
      <3>1. j = AddToDelayedList(k1, t, n)
        BY <1>3, <2>2
      <3>2. t \notin DelayedItems(k1)
        BY <1>1, <1>7 DEF DelayedItems
      <3> QED BY <1>7, <2>0, <3>1, <3>2, AddDelayedKeeps DEF Keeps
    <2> QED BY <2>1, <2>2
  <1>9. Ascending(k.xDelayedTaskList, k.xItemValue)
          => Ascending(k1.xDelayedTaskList, k1.xItemValue)
    BY <1>1, <1>7 DEF Keeps
  <1>10. ASSUME NEW f \in EventLists, NEW x \in Items(j.xEventLists[f])
         PROVE  x \in Items(k.xEventLists[f]) \/ (f = e /\ x = t)
    BY <1>5, <1>6, <1>7, <1>8, <1>10
  <1> QED BY <1>8, <1>9, <1>10 DEF j, t

-----------------------------------------------------------------------------
\* The invariant that joins IInv.
WaitInv == WaitsInCall /\ DelayedSorted

\* The order of the delayed list in terms of Ascending.
LEMMA SortedIsAscending ==
  /\ DelayedSorted <=> Ascending(kernel.xDelayedTaskList, kernel.xItemValue)
  /\ DelayedSorted' <=> Ascending(kernel'.xDelayedTaskList, kernel'.xItemValue)
  BY DEF DelayedSorted, Ascending

\* Tasks that are ready or not created are on no event list.
LEMMA NotWaiting ==
  ASSUME IInv, WaitsInCall, NEW x \in AllTasks,
         x \in ReadyItems(kernel) \/ at[x] \notin {"wait", "recheck"}
  PROVE  \A e \in EventLists : x \notin Items(kernel.xEventLists[e])
  <1>1. KernelGood(kernel)
    BY DEF IInv, ListsInv
  <1>2. CASE x \in ReadyItems(kernel)
    BY <1>1, <1>2, GoodMembers DEF KernelGood
  <1>3. CASE at[x] \notin {"wait", "recheck"}
    BY <1>3 DEF WaitsInCall
  <1> QED BY <1>2, <1>3

\* A step that puts no task on an event list, and moves only tasks that are on
\* none, or from the taskYIELD to the third critical section.
LEMMA KeptStep ==
  ASSUME IInv, WaitInv, Keeps(kernel, kernel'),
         \A x \in AllTasks :
           \/ at'[x] = at[x] /\ call'[x] = call[x]
           \/ at'[x] = "recheck" /\ call'[x] = call[x]
           \/ \A e \in EventLists : x \notin Items(kernel.xEventLists[e])
  PROVE  WaitInv'
  <1>1. KernelGood(kernel)
    BY DEF IInv, ListsInv
  <1>2. ASSUME NEW e \in EventLists, NEW x \in Items(kernel'.xEventLists[e])
        PROVE  at'[x] \in {"wait", "recheck"} /\ e = <<call'[x].q, call'[x].op>>
    <2>1. x \in Items(kernel.xEventLists[e]) /\ x \in AllTasks
      BY <1>1, <1>2, GoodMembers DEF Keeps
    <2>2. at[x] \in {"wait", "recheck"} /\ e = <<call[x].q, call[x].op>>
      BY <2>1 DEF WaitInv, WaitsInCall
    <2> QED BY <2>1, <2>2
  <1>3. WaitsInCall'
    BY <1>2 DEF WaitsInCall
  <1>4. DelayedSorted'
    BY SortedIsAscending DEF WaitInv, Keeps
  <1> QED BY <1>3, <1>4 DEF WaitInv

\* The same of a step of the running task in a place where it is ready.
LEMMA RunnerStep ==
  ASSUME IInv, WaitInv, NEW t \in Tasks, Running(t),
         at[t] \in {"run", "block", "recheck"},
         Keeps(kernel, kernel'),
         \A x \in AllTasks : x # t => at'[x] = at[x] /\ call'[x] = call[x]
  PROVE  WaitInv'
  <1>1. t \in ReadyItems(kernel) /\ t \in AllTasks
    BY TaskFacts
  <1>2. \A e \in EventLists : t \notin Items(kernel.xEventLists[e])
    BY <1>1, NotWaiting DEF WaitInv
  <1>3. \A x \in AllTasks :
           \/ at'[x] = at[x] /\ call'[x] = call[x]
           \/ at'[x] = "recheck" /\ call'[x] = call[x]
           \/ \A e \in EventLists : x \notin Items(kernel.xEventLists[e])
    BY <1>2
  <1> QED BY <1>3, KeptStep

\* The functions of at and call after an assignment to one place.
LEMMA Elsewhere ==
  ASSUME IInv, NEW t, NEW y, NEW z
  PROVE  \A x \in AllTasks : x # t => /\ [at EXCEPT ![t] = y][x] = at[x]
                                      /\ [call EXCEPT ![t] = z][x] = call[x]
  BY DEF IInv, ListsInv, CallInv

\* The critical sections of prvSend and xQueueReceive that succeed.
LEMMA SendKeeps ==
  ASSUME IInv, NEW t \in Tasks, NEW q \in Queues, Send(t, q)
  PROVE  /\ Keeps(kernel, kernel')
         /\ \A x \in AllTasks : x # t => at'[x] = at[x] /\ call'[x] = call[x]
  <1> DEFINE k == IF q \in Mutexes
                  THEN vTaskPriorityDisinherit(kernel, pxMutexHolder[q]) ELSE kernel
             e == xTasksWaitingToReceive(q)
  <1>1. /\ kernel \in KernelType
        /\ pxMutexHolder[q] \in AllTasks \cup {NULL}
    BY DEF IInv, ListsInv, TokenInv, AllTasks, KernelGood
  <1>2. Keeps(kernel, k)
    <2>1. CASE q \in Mutexes
      BY <1>1, <2>1, DisinheritKeeps
    <2>2. CASE q \notin Mutexes
      BY <1>1, <2>2, SameKeeps
    <2> QED BY <2>1, <2>2
  <1>3. kernel' = xTaskRemoveFromEventList(k, e)
    BY DEF Send
  <1>4. /\ at' = [at EXCEPT ![t] = IF ShouldYield(k, e) THEN "yield" ELSE "run"]
        /\ call' = [call EXCEPT ![t] = NoCall]
    BY DEF Send, Return
  <1> HIDE DEF k
  <1>5. e \in EventLists
    BY DEF xTasksWaitingToReceive, EventLists
  <1>6. Keeps(k, kernel')
    BY <1>2, <1>3, <1>5, WakeKeeps DEF Keeps
  <1>7. Keeps(kernel, kernel')
    BY <1>2, <1>6, KeepsTrans
  <1> QED BY <1>4, <1>7, Elsewhere

LEMMA ReceiveKeeps ==
  ASSUME IInv, NEW t \in Tasks, NEW q \in Queues, Receive(t, q)
  PROVE  /\ Keeps(kernel, kernel')
         /\ \A x \in AllTasks : x # t => at'[x] = at[x] /\ call'[x] = call[x]
  <1> DEFINE e == xTasksWaitingToSend(q)
  <1>1. kernel \in KernelType
    BY DEF IInv, ListsInv, KernelGood
  <1>2. e \in EventLists
    BY DEF xTasksWaitingToSend, EventLists
  <1>3. /\ kernel' = xTaskRemoveFromEventList(kernel, e)
        /\ at' = [at EXCEPT ![t] = IF ShouldYield(kernel, e) THEN "yield" ELSE "run"]
        /\ call' = [call EXCEPT ![t] = NoCall]
    BY DEF Receive, Return
  <1>4. Keeps(kernel, kernel')
    BY <1>1, <1>2, <1>3, WakeKeeps
  <1> QED BY <1>3, <1>4, Elsewhere

\* The first critical section of either call.
LEMMA QueueCallStep ==
  ASSUME IInv, WaitInv, NEW t \in Tasks, NEW q \in Queues, NEW n \in Waits,
         xQueueSend(t, q, n) \/ xQueueReceive(t, q, n)
  PROVE  WaitInv'
  <1>1. Running(t) /\ at[t] = "run" /\ kernel \in KernelType
    BY DEF xQueueSend, xQueueReceive, IInv, ListsInv, KernelGood
  <1>2. CASE Send(t, q)
    BY <1>1, <1>2, SendKeeps, RunnerStep
  <1>3. CASE Receive(t, q)
    BY <1>1, <1>3, ReceiveKeeps, RunnerStep
  <1>4. ASSUME NEW op, StartWaiting(t, op, q, n)
        PROVE  WaitInv'
    <2>1. Keeps(kernel, kernel')
      BY <1>1, <1>4, SameKeeps DEF StartWaiting
    <2>2. \A x \in AllTasks : x # t => at'[x] = at[x] /\ call'[x] = call[x]
      BY <1>4, Elsewhere DEF StartWaiting
    <2> QED BY <1>1, <2>1, <2>2, RunnerStep
  <1>5. CASE UNCHANGED <<kernel, at, call>>
    BY <1>1, <1>5, SameKeeps, RunnerStep
  <1>6. CASE xQueueSend(t, q, n)
    BY <1>2, <1>4, <1>5, <1>6 DEF xQueueSend, GiveUp
  <1>7. CASE xQueueReceive(t, q, n)
    BY <1>3, <1>4, <1>5, <1>7 DEF xQueueReceive, vars
  <1> QED BY <1>6, <1>7

\* The third critical section.
LEMMA RecheckStep ==
  ASSUME IInv, WaitInv, NEW t \in Tasks, Recheck(t)
  PROVE  WaitInv'
  <1>1. Running(t) /\ at[t] = "recheck" /\ kernel \in KernelType
    BY DEF Recheck, IInv, ListsInv, KernelGood
  <1>2. call[t].q \in Queues
    BY <1>1 DEF IInv, CallInv, Calls
  <1>3. CASE Send(t, call[t].q)
    BY <1>1, <1>2, <1>3, SendKeeps, RunnerStep
  <1>4. CASE Receive(t, call[t].q)
    BY <1>1, <1>2, <1>4, ReceiveKeeps, RunnerStep
  <1>5. CASE Return(t, FALSE) /\ UNCHANGED kernel
    <2>1. Keeps(kernel, kernel')
      BY <1>1, <1>5, SameKeeps
    <2>2. \A x \in AllTasks : x # t => at'[x] = at[x] /\ call'[x] = call[x]
      BY <1>5, Elsewhere DEF Return
    <2> QED BY <1>1, <2>1, <2>2, RunnerStep
  <1> QED BY <1>3, <1>4, <1>5 DEF Recheck

\* The second critical section: the running task, on no event list before,
\* enters the list of its call.
LEMMA BlockStep ==
  ASSUME IInv, WaitInv, NEW t \in Tasks, Block(t)
  PROVE  WaitInv'
  <1> DEFINE q == call[t].q
             e == <<q, call[t].op>>
             k == IF call[t].op = "receive" /\ q \in Mutexes
                  THEN vTaskPriorityInherit(kernel, pxMutexHolder[q]) ELSE kernel
  <1>1. /\ Running(t) /\ at[t] = "block"
        /\ kernel' = vTaskPlaceOnEventList(k, e, call[t].ticks)
        /\ at' = [at EXCEPT ![t] = "wait"]
        /\ call' = call
    BY DEF Block, queueVars
  <1>2. /\ q \in Queues /\ e \in EventLists /\ call[t].ticks \in Ticks
        /\ at \in [AllTasks -> Places]
    BY <1>1 DEF IInv, CallInv, Calls, EventLists, ListsInv
  <1>3. /\ KernelGood(kernel) /\ kernel \in KernelType
        /\ t \in ReadyItems(kernel) /\ t \in AllTasks /\ kernel.pxCurrentTCB = t
    BY <1>1, TaskFacts DEF KernelGood
  <1>4. \A f \in EventLists : t \notin Items(kernel.xEventLists[f])
    BY <1>3, NotWaiting DEF WaitInv
  <1>5. pxMutexHolder[q] \in AllTasks \cup {NULL}
    BY <1>2 DEF IInv, TokenInv, AllTasks
  <1> HIDE DEF e, q
  <1>6. /\ Keeps(kernel, k)
        /\ k.xEventLists = kernel.xEventLists
        /\ k.pxCurrentTCB = t
    <2>1. CASE k = kernel
      BY <1>3, <2>1, SameKeeps
    <2>2. CASE k = vTaskPriorityInherit(kernel, pxMutexHolder[q])
      BY <1>3, <1>5, <2>2, InheritKeeps
    <2> QED BY <2>1, <2>2
  <1> HIDE DEF k
  <1>7. k \in KernelType
    BY <1>6 DEF Keeps
  <1>8. /\ \A f \in EventLists : \A x \in Items(kernel'.xEventLists[f]) :
             x \in Items(k.xEventLists[f]) \/ (f = e /\ x = t)
        /\ Ascending(k.xDelayedTaskList, k.xItemValue)
             => Ascending(kernel'.xDelayedTaskList, kernel'.xItemValue)
    <2> DEFINE n == call[t].ticks
               j == vTaskPlaceOnEventList(k, e, n)
    <2>1. /\ k \in KernelType /\ e \in EventLists /\ n \in Ticks
          /\ k.pxCurrentTCB \in AllTasks /\ k.pxCurrentTCB \notin Items(k.xEventLists[e])
      BY <1>2, <1>3, <1>4, <1>6, <1>7
    <2> HIDE DEF n
    <2>2. /\ \A f \in EventLists : \A x \in Items(j.xEventLists[f]) :
               x \in Items(k.xEventLists[f]) \/ (f = e /\ x = k.pxCurrentTCB)
          /\ Ascending(k.xDelayedTaskList, k.xItemValue)
               => Ascending(j.xDelayedTaskList, j.xItemValue)
      BY ONLY <2>1, PlaceKeeps
    <2>3. kernel' = j
      BY <1>1 DEF n
    <2> HIDE DEF j
    <2> QED BY <1>6, <2>2, <2>3
  <1>9. ASSUME NEW f \in EventLists, NEW x \in Items(kernel'.xEventLists[f])
        PROVE  at'[x] \in {"wait", "recheck"} /\ f = <<call'[x].q, call'[x].op>>
    <2>1. CASE x \in Items(kernel.xEventLists[f])
      <3>1. x # t /\ x \in AllTasks
        BY <1>3, <1>4, <2>1, GoodMembers
      <3>2. at[x] \in {"wait", "recheck"} /\ f = <<call[x].q, call[x].op>>
        BY <2>1 DEF WaitInv, WaitsInCall
      <3>3. at'[x] = at[x]
        BY <1>1, <1>2, <3>1
      <3> QED BY <1>1, <3>2, <3>3
    <2>2. CASE f = e /\ x = t
      <3>1. at'[t] = "wait"
        BY <1>1, <1>2, <1>3
      <3> QED BY <1>1, <2>2, <3>1 DEF e, q
    <2> QED BY <1>6, <1>8, <2>1, <2>2
  <1>10. WaitsInCall'
    BY <1>9 DEF WaitsInCall
  <1>11. DelayedSorted'
    BY <1>6, <1>8, SortedIsAscending DEF WaitInv, Keeps
  <1> QED BY <1>10, <1>11 DEF WaitInv

\* The steps that change tasks.c alone.
LEMMA SchedulerKeeps ==
  ASSUME IInv, WaitInv, UNCHANGED queueVars,
         \/ vTaskStartScheduler
         \/ Tick
         \/ \E t \in Tasks : xTaskCreate(t)
         \/ \E t \in Tasks, n \in Delays : vTaskDelay(t, n)
         \/ \E t \in Tasks, b \in InheritModes : vTaskSetMutexInheritance(t, b)
         \/ \E t \in Tasks : taskYIELD(t)
  PROVE  WaitInv'
  <1>1. /\ KernelGood(kernel) /\ kernel \in KernelType
        /\ at \in [AllTasks -> Places]
        /\ kernel.xSchedulerRunning => ReadyItems(kernel) # {}
        /\ call' = call
    BY DEF IInv, ListsInv, KernelGood, queueVars
  <1>2. ASSUME NEW t \in AllTasks, at[t] = "none", Keeps(kernel, AddNewTask(kernel, t))
                 => Keeps(kernel, kernel'), at' = [at EXCEPT ![t] = "run"]
        PROVE  WaitInv'
    <2>1. t \notin ReadyItems(kernel) /\ t \notin BlockedItems(kernel)
      BY <1>2 DEF IInv, ListsInv
    <2>2. Keeps(kernel, kernel')
      BY <1>1, <1>2, <2>1, AddNewKeeps
    <2>3. \A e \in EventLists : t \notin Items(kernel.xEventLists[e])
      BY <1>2, NotWaiting DEF WaitInv
    <2>4. \A x \in AllTasks :
            \/ at'[x] = at[x] /\ call'[x] = call[x]
            \/ at'[x] = "recheck" /\ call'[x] = call[x]
            \/ \A e \in EventLists : x \notin Items(kernel.xEventLists[e])
      BY <1>1, <1>2, <2>3
    <2> QED BY <2>2, <2>4, KeptStep
  <1>3. CASE vTaskStartScheduler
    <2> DEFINE k == AddNewTask(kernel, Idle)
    <2>1. /\ ~kernel.xSchedulerRunning
          /\ kernel' = [k EXCEPT !.xSchedulerRunning = TRUE, !.xTickCount = 0]
          /\ at' = [at EXCEPT ![Idle] = "run"]
      BY <1>3 DEF vTaskStartScheduler
    <2>2. Idle \in AllTasks /\ at[Idle] = "none" /\ 0 \in Ticks
      BY <2>1, Constants DEF IInv, ListsInv, AllTasks, Ticks
    <2> HIDE DEF k
    <2>3. ASSUME Keeps(kernel, k)
          PROVE  Keeps(kernel, kernel')
      <3>1. k \in KernelType
        BY <2>3 DEF Keeps
      <3>2. /\ kernel' \in KernelType
            /\ kernel'.xEventLists = k.xEventLists
            /\ kernel'.xDelayedTaskList = k.xDelayedTaskList
            /\ kernel'.xItemValue = k.xItemValue
        BY <2>1, <2>2, <3>1 DEF KernelType
      <3>3. Keeps(k, kernel')
        BY <3>2, SameKeeps
      <3> QED BY <2>3, <3>3, KeepsTrans
    <2>4. Keeps(kernel, AddNewTask(kernel, Idle)) => Keeps(kernel, kernel')
      BY <2>3 DEF k
    <2> QED BY <1>2, <2>1, <2>2, <2>4
  <1>4. ASSUME NEW t \in Tasks, xTaskCreate(t)
        PROVE  WaitInv'
    <2>1. /\ at[t] = "none" /\ t \in AllTasks
          /\ kernel' = AddNewTask(kernel, t)
          /\ at' = [at EXCEPT ![t] = "run"]
      BY <1>4 DEF xTaskCreate, AllTasks
    <2> QED BY <1>2, <2>1
  <1>5. CASE Tick
    <2>1. at' = at
      BY <1>5 DEF Tick, TickEntry, TickWake, TickSwitch
    <2>2. CASE TickEntry
      <3>1. TickPlus(kernel, 1) \in Ticks
        BY <1>1, Fields, Constants DEF TickPlus, Ticks
      <3>2. /\ kernel' \in KernelType
            /\ kernel'.xEventLists = kernel.xEventLists
            /\ kernel'.xDelayedTaskList = kernel.xDelayedTaskList
            /\ kernel'.xItemValue = kernel.xItemValue
        BY <1>1, <2>2, <3>1 DEF TickEntry, KernelType
      <3>3. Keeps(kernel, kernel')
        BY <3>2, SameKeeps
      <3> QED BY <1>1, <2>1, <3>3, KeptStep
    <2>3. CASE TickWake
      <3> DEFINE t == kernel.xDelayedTaskList.items[1]
      <3>1. ~listLIST_IS_EMPTY(kernel.xDelayedTaskList) /\ kernel' = MakeReady(kernel, t)
        BY <2>3 DEF TickWake, HeadIsDue
      <3>2. kernel.xDelayedTaskList \in ListsOf(AllTasks)
        BY <1>1, Fields
      <3>3. t \in AllTasks
        BY <3>1, <3>2, EmptyItems, ListFacts
      <3> HIDE DEF t
      <3>4. Keeps(kernel, kernel')
        BY <1>1, <3>1, <3>3, MakeReadyKeeps
      <3> QED BY <1>1, <2>1, <3>4, KeptStep
    <2>4. CASE TickSwitch
      <3>1. kernel' = vTaskSwitchContext(kernel) /\ kernel.xSchedulerRunning
        BY <2>4 DEF TickSwitch, IInv, ListsInv
      <3>2. Keeps(kernel, kernel')
        BY <1>1, <3>1, SwitchKeeps
      <3> QED BY <1>1, <2>1, <3>2, KeptStep
    <2> QED BY <1>5, <2>2, <2>3, <2>4 DEF Tick
  <1>6. ASSUME NEW t \in Tasks, NEW n \in Delays, vTaskDelay(t, n)
        PROVE  WaitInv'
    <2> DEFINE k == RemoveStateItem(kernel, t)
    <2>1. /\ Running(t) /\ at[t] = "run" /\ t \in AllTasks /\ n \in Ticks
          /\ kernel' = AddToDelayedList(k, t, n)
          /\ at' = [at EXCEPT ![t] = "yield"]
      BY <1>6, SchedulerAssumption DEF vTaskDelay, AllTasks
    <2>2. Keeps(kernel, k) /\ t \notin DelayedItems(k)
      BY <1>1, RemoveStateKeeps
    <2> HIDE DEF k
    <2>3. Keeps(k, kernel')
      BY <2>1, <2>2, AddDelayedKeeps DEF Keeps
    <2>4. Keeps(kernel, kernel')
      BY <2>2, <2>3, KeepsTrans
    <2> QED BY <1>1, <2>1, <2>4, RunnerStep
  <1>7. ASSUME NEW t \in Tasks, NEW b \in InheritModes, vTaskSetMutexInheritance(t, b)
        PROVE  WaitInv'
    <2>1. /\ kernel' = [kernel EXCEPT !.xInheritEnabled = b]
          /\ at' = at /\ b \in BOOLEAN
      BY <1>7, SchedulerAssumption DEF vTaskSetMutexInheritance
    <2>2. /\ kernel' \in KernelType
          /\ kernel'.xEventLists = kernel.xEventLists
          /\ kernel'.xDelayedTaskList = kernel.xDelayedTaskList
          /\ kernel'.xItemValue = kernel.xItemValue
      BY <1>1, <2>1 DEF KernelType
    <2>3. Keeps(kernel, kernel')
      BY <2>2, SameKeeps
    <2> QED BY <1>1, <2>1, <2>3, KeptStep
  <1>8. ASSUME NEW t \in Tasks, taskYIELD(t)
        PROVE  WaitInv'
    <2>1. /\ Running(t) /\ kernel.xSchedulerRunning /\ t \in AllTasks
          /\ kernel' = vTaskSwitchContext(kernel)
          /\ at' = [at EXCEPT ![t] = IF @ = "wait" THEN "recheck" ELSE "run"]
          /\ at[t] \in {"run", "yield", "wait"}
      BY <1>8 DEF taskYIELD, Running, AllTasks
    <2>2. Keeps(kernel, kernel')
      BY <1>1, <2>1, SwitchKeeps
    <2>3. \/ at'[t] = "recheck"
          \/ \A e \in EventLists : t \notin Items(kernel.xEventLists[e])
      <3>1. CASE at[t] = "wait"
        BY <1>1, <2>1, <3>1
      <3>2. CASE at[t] # "wait"
        BY <2>1, <3>2, NotWaiting DEF WaitInv
      <3> QED BY <3>1, <3>2
    <2>4. \A x \in AllTasks :
            \/ at'[x] = at[x] /\ call'[x] = call[x]
            \/ at'[x] = "recheck" /\ call'[x] = call[x]
            \/ \A e \in EventLists : x \notin Items(kernel.xEventLists[e])
      BY <1>1, <2>1, <2>3
    <2> QED BY <2>2, <2>4, KeptStep
  <1> QED BY <1>3, <1>4, <1>5, <1>6, <1>7, <1>8

\* Every step preserves the invariant.
LEMMA WaitNext == IInv /\ WaitInv /\ [Next]_vars => WaitInv'
  <1> SUFFICES ASSUME IInv, WaitInv, [Next]_vars PROVE WaitInv'
    OBVIOUS
  <1>1. CASE UNCHANGED vars
    BY <1>1 DEF vars, WaitInv, WaitsInCall, DelayedSorted
  <1>2. CASE (vTaskStartScheduler \/ Tick) /\ UNCHANGED queueVars
    BY <1>2, SchedulerKeeps
  <1>3. ASSUME NEW t \in Tasks, xTaskCreate(t), UNCHANGED queueVars
        PROVE  WaitInv'
    BY <1>3, SchedulerKeeps
  <1>4. ASSUME NEW t \in Tasks, TaskStep(t)
        PROVE  WaitInv'
    <2>1. CASE /\ \/ \E n \in Delays : vTaskDelay(t, n)
                  \/ \E b \in InheritModes : vTaskSetMutexInheritance(t, b)
                  \/ taskYIELD(t)
               /\ UNCHANGED queueVars
      BY <2>1, SchedulerKeeps
    <2>2. ASSUME NEW q \in Queues, NEW n \in Waits,
                 xQueueSend(t, q, n) \/ xQueueReceive(t, q, n)
          PROVE  WaitInv'
      BY <2>2, QueueCallStep
    <2>3. CASE Block(t)
      BY <2>3, BlockStep
    <2>4. CASE Recheck(t)
      BY <2>4, RecheckStep
    <2> QED BY <1>4, <2>1, <2>2, <2>3, <2>4 DEF TaskStep
  <1> QED BY <1>1, <1>2, <1>3, <1>4 DEF Next

\* It holds when the first function of the kernel is called.
LEMMA WaitInit == Init => WaitInv
  <1> SUFFICES ASSUME Init PROVE WaitInv
    OBVIOUS
  <1>1. /\ kernel.xEventLists = [e \in EventLists |-> EmptyList]
        /\ kernel.xDelayedTaskList = EmptyList
    BY DEF Init, SchedInit, prvInitialiseTaskLists
  <1>2. \A e \in EventLists : Items(kernel.xEventLists[e]) = {}
    BY <1>1, EmptyListProps
  <1>3. WaitsInCall
    BY <1>2 DEF WaitsInCall
  <1>4. Len(kernel.xDelayedTaskList.items) = 0
    BY <1>1 DEF EmptyList
  <1>5. DelayedSorted
    BY <1>4 DEF DelayedSorted
  <1> QED BY <1>3, <1>5 DEF WaitInv

LEMMA WaitInvariance == Spec => []WaitInv
  BY Invariance, WaitInit, WaitNext, PTL DEF Spec

\* A task is on an event list only inside the queue call that put it there:
\* neither a timeout nor a wake-up leaves an event item behind.
THEOREM EventsOfCalls == Spec => []WaitsInCall
  <1>1. WaitInv => WaitsInCall
    BY DEF WaitInv
  <1> QED BY <1>1, WaitInvariance, PTL

\* The delayed list is always in ascending order of wake-up value, where the
\* tick counter wraps too: the loop of xTaskIncrementTick misses no value that
\* is not above the count.
THEOREM DelaysInOrder == Spec => []DelayedSorted
  <1>1. WaitInv => DelayedSorted
    BY DEF WaitInv
  <1> QED BY <1>1, WaitInvariance, PTL
==============================================================================
