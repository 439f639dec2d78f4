------------------------------ MODULE FlintList ------------------------------
(***************************************************************************)
(* kernel/list.c and include/FlintRTOS/list.h: the circular doubly linked  *)
(* lists of the kernel, at the level of order.  A list is the sequence of  *)
(* the items between the sentinel's pxNext and its pxPrevious, together    *)
(* with the walk cursor pxIndex, which is an item of the list or the       *)
(* sentinel xListEnd.  An item stands for its owner (every item the kernel *)
(* links is embedded in the TCB that owns it).                             *)
(***************************************************************************)
EXTENDS Integers, SequencesExt

CONSTANTS xListEnd,        \* the sentinel of a list
          portMAX_DELAY    \* largest TickType_t, the sentinel's item value

ASSUME MaxDelayAssumption == portMAX_DELAY \in Nat

-----------------------------------------------------------------------------
\* Items linked in a list: the items whose pxContainer is this list.
Items(list) == {list.items[i] : i \in 1..Len(list.items)}

\* Position of item x between the sentinel and the sentinel.
Position(list, x) == CHOOSE i \in 1..Len(list.items) : list.items[i] = x

\* Lists over the items of S: an item is linked once, the cursor is linked.
ListsOf(S) ==
  {list \in [items : Seq(S), index : S \cup {xListEnd}] :
     /\ \A i, j \in 1..Len(list.items) : list.items[i] = list.items[j] => i = j
     /\ list.index \in Items(list) \cup {xListEnd}}

-----------------------------------------------------------------------------
EmptyList == [items |-> <<>>, index |-> xListEnd]

listLIST_IS_EMPTY(list) == list.items = <<>>

\* Insertion before the cursor; before the sentinel is at the end.
vListInsertEnd(list, x) ==
  [list EXCEPT !.items = IF list.index = xListEnd
                         THEN Append(@, x)
                         ELSE InsertAt(@, Position(list, list.index), x)]

\* Where the ascending walk stops: behind every leading item whose value is
\* not greater; an item valued portMAX_DELAY skips the walk.
InsertPosition(list, value, v) ==
  IF v = portMAX_DELAY
  THEN Len(list.items) + 1
  ELSE CHOOSE i \in 1..Len(list.items) + 1 :
         /\ \A j \in 1..i - 1 : value[list.items[j]] <= v
         /\ i <= Len(list.items) => value[list.items[i]] > v

\* Mutant: the new item goes to the end.
InsertUnordered(list, value, x) == [list EXCEPT !.items = Append(@, x)]

\* Ordered insertion of x; value[y] is the xItemValue of item y.
vListInsert(list, value, x) ==
  [list EXCEPT !.items = InsertAt(@, InsertPosition(list, value, value[x]), x)]

\* The item before x, the sentinel before the first one.
pxPrevious(list, x) ==
  LET i == Position(list, x)
  IN  IF i = 1 THEN xListEnd ELSE list.items[i - 1]

\* Unlink x; a cursor that pointed at x steps back.
uxListRemove(list, x) ==
  [items |-> RemoveAt(list.items, Position(list, x)),
   index |-> IF list.index = x THEN pxPrevious(list, x) ELSE list.index]

\* uxListRemove of an item whose container may be another list.
Unlink(list, x) == IF x \in Items(list) THEN uxListRemove(list, x) ELSE list

\* The cursor after listGET_OWNER_OF_NEXT_ENTRY: the next item, passing over
\* the sentinel; it stays on the sentinel of an empty list.
NextIndex(list) ==
  CASE listLIST_IS_EMPTY(list)                        -> xListEnd
    [] ~listLIST_IS_EMPTY(list) /\ list.index = xListEnd -> list.items[1]
    [] OTHER -> LET i == Position(list, list.index)
                IN  IF i = Len(list.items) THEN list.items[1]
                                           ELSE list.items[i + 1]

listGET_OWNER_OF_NEXT_ENTRY(list) == [list EXCEPT !.index = NextIndex(list)]
==============================================================================
