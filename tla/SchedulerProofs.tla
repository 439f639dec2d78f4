--------------------------- MODULE SchedulerProofs ---------------------------
(***************************************************************************)
(* What each function of kernel/list.c and kernel/tasks.c does, for every  *)
(* list, kernel state, number of tasks, queues and priorities.  Of the     *)
(* list operations: the set of the linked items after each, that no item   *)
(* is linked twice, and that the cursor never leaves the list.  Of the     *)
(* scheduler's functions: one lemma each on what it does to the lists.     *)
(***************************************************************************)
EXTENDS Scheduler, Arithmetic, SequenceTheorems

-----------------------------------------------------------------------------
(* kernel/list.c                                                           *)

\* RemoveAt drops one element and closes the gap.
LEMMA RemoveAtProps ==
  ASSUME NEW S, NEW s \in Seq(S), NEW i \in 1..Len(s)
  PROVE  /\ RemoveAt(s, i) \in Seq(S)
         /\ Len(RemoveAt(s, i)) = Len(s) - 1
         /\ \A j \in 1..Len(s) - 1 :
              RemoveAt(s, i)[j] = IF j < i THEN s[j] ELSE s[j + 1]
  <1> DEFINE a == SubSeq(s, 1, i - 1)
             b == SubSeq(s, i + 1, Len(s))
  <1>0. Len(s) \in Nat /\ \A j \in 1..Len(s) : s[j] \in S
    BY LenProperties, ElementOfSeq
  <1>1. /\ a \in Seq(S) /\ Len(a) = i - 1
        /\ \A j \in 1..i - 1 : a[j] = s[j]
    <2>1. \A j \in 1..i - 1 : s[j] \in S
      BY <1>0
    <2> QED BY <1>0, <2>1, SubSeqProperties
  <1>2. /\ b \in Seq(S) /\ Len(b) = Len(s) - i
        /\ \A j \in 1..Len(s) - i : b[j] = s[i + j]
    <2>1. \A j \in i + 1..Len(s) : s[j] \in S
      BY <1>0
    <2>2. i + 1 \in Int /\ Len(s) \in Int
      BY <1>0
    <2> QED BY <1>0, <2>1, <2>2, SubSeqProperties
  <1>3. RemoveAt(s, i) = a \o b
    BY DEF RemoveAt
  <1>4. /\ a \o b \in Seq(S) /\ Len(a \o b) = Len(a) + Len(b)
        /\ \A j \in 1..Len(a) + Len(b) :
             (a \o b)[j] = IF j <= Len(a) THEN a[j] ELSE b[j - Len(a)]
    BY <1>1, <1>2, ConcatProperties
  <1> HIDE DEF a, b
  <1>5. Len(RemoveAt(s, i)) = Len(s) - 1 /\ Len(a) + Len(b) = Len(s) - 1
    BY <1>0, <1>1, <1>2, <1>3, <1>4
  <1>6. ASSUME NEW j \in 1..Len(s) - 1
        PROVE  RemoveAt(s, i)[j] = IF j < i THEN s[j] ELSE s[j + 1]
    <2>1. (a \o b)[j] = IF j <= Len(a) THEN a[j] ELSE b[j - Len(a)]
      BY <1>4, <1>5
    <2>2. CASE j < i
      BY <1>0, <1>1, <1>3, <2>1, <2>2
    <2>3. CASE j >= i
      <3>1. j - Len(a) \in 1..Len(s) - i /\ i + (j - Len(a)) = j + 1 /\ ~(j <= Len(a))
        BY <1>0, <1>1, <2>3
      <3>2. b[j - Len(a)] = s[i + (j - Len(a))]
        BY <1>2, <3>1
      <3>3. ~(j < i) /\ (a \o b)[j] = s[j + 1]
        BY <2>1, <2>3, <3>1, <3>2
      <3> QED BY <1>3, <3>3
    <2> QED BY <1>0, <2>2, <2>3
  <1> QED BY <1>3, <1>4, <1>5, <1>6

\* InsertAt opens a gap at i for the new element.
LEMMA InsertAtProps ==
  ASSUME NEW S, NEW s \in Seq(S), NEW i \in 1..Len(s) + 1, NEW e \in S
  PROVE  /\ InsertAt(s, i, e) \in Seq(S)
         /\ Len(InsertAt(s, i, e)) = Len(s) + 1
         /\ \A j \in 1..i - 1 : InsertAt(s, i, e)[j] = s[j]
         /\ InsertAt(s, i, e)[i] = e
         /\ \A j \in i + 1..Len(s) + 1 : InsertAt(s, i, e)[j] = s[j - 1]
  <1> DEFINE a == SubSeq(s, 1, i - 1)
             b == SubSeq(s, i, Len(s))
             c == a \o <<e>>
  <1>0. Len(s) \in Nat /\ \A j \in 1..Len(s) : s[j] \in S
    BY LenProperties, ElementOfSeq
  <1>1. /\ a \in Seq(S) /\ Len(a) = i - 1
        /\ \A j \in 1..i - 1 : a[j] = s[j]
    <2>1. \A j \in 1..i - 1 : s[j] \in S
      BY <1>0
    <2> QED BY <1>0, <2>1, SubSeqProperties
  <1>2. /\ b \in Seq(S) /\ Len(b) = Len(s) - i + 1
        /\ \A j \in 1..Len(s) - i + 1 : b[j] = s[i + j - 1]
    <2>1. \A j \in i..Len(s) : s[j] \in S
      BY <1>0
    <2>2. i \in Int /\ Len(s) \in Int
      BY <1>0
    <2> QED BY <1>0, <2>1, <2>2, SubSeqProperties
  <1>3. InsertAt(s, i, e) = c \o b
    BY DEF InsertAt
  <1>4. <<e>> \in Seq(S) /\ Len(<<e>>) = 1 /\ <<e>>[1] = e
    OBVIOUS
  <1> HIDE DEF a, b
  <1>5. /\ c \in Seq(S) /\ Len(c) = Len(a) + 1
        /\ \A j \in 1..Len(a) + 1 : c[j] = IF j <= Len(a) THEN a[j] ELSE e
    <2>1. /\ c \in Seq(S) /\ Len(c) = Len(a) + Len(<<e>>)
          /\ \A j \in 1..Len(a) + Len(<<e>>) :
               c[j] = IF j <= Len(a) THEN a[j] ELSE <<e>>[j - Len(a)]
      BY <1>1, <1>4, ConcatProperties
    <2>2. Len(a) \in Nat
      BY <1>1, LenProperties
    <2> HIDE DEF c
    <2>3. ASSUME NEW j \in 1..Len(a) + 1
          PROVE  c[j] = IF j <= Len(a) THEN a[j] ELSE e
      <3>1. j <= Len(a) \/ j - Len(a) = 1
        BY <2>2
      <3> QED BY <1>4, <2>1, <2>2, <3>1
    <2> QED BY <1>4, <2>1, <2>3
  <1> HIDE DEF c
  <1>6. /\ c \o b \in Seq(S) /\ Len(c \o b) = Len(c) + Len(b)
        /\ \A j \in 1..Len(c) + Len(b) :
             (c \o b)[j] = IF j <= Len(c) THEN c[j] ELSE b[j - Len(c)]
    BY <1>2, <1>5, ConcatProperties
  <1>7. Len(c) = i /\ Len(c) + Len(b) = Len(s) + 1
    BY <1>0, <1>1, <1>2, <1>5
  <1>8. ASSUME NEW j \in 1..i - 1 PROVE (c \o b)[j] = s[j]
    <2>1. /\ j \in 1..Len(c) + Len(b) /\ j <= Len(c)
          /\ j \in 1..Len(a) + 1 /\ j <= Len(a)
      BY <1>0, <1>1, <1>7
    <2>2. (c \o b)[j] = c[j]
      BY <1>6, <2>1
    <2>3. c[j] = a[j]
      BY <1>5, <2>1
    <2> QED BY <1>1, <2>2, <2>3
  <1>9. (c \o b)[i] = e
    BY <1>0, <1>1, <1>5, <1>6, <1>7
  <1>10. ASSUME NEW j \in i + 1..Len(s) + 1 PROVE (c \o b)[j] = s[j - 1]
    <2>1. /\ j \in 1..Len(c) + Len(b) /\ ~(j <= Len(c))
          /\ j - i \in 1..Len(s) - i + 1 /\ i + (j - i) - 1 = j - 1
      BY <1>0, <1>7
    <2>2. (c \o b)[j] = b[j - i]
      BY <1>6, <1>7, <2>1
    <2>3. b[j - i] = s[i + (j - i) - 1]
      BY <1>2, <2>1
    <2> QED BY <2>1, <2>2, <2>3
  <1> QED BY <1>3, <1>6, <1>7, <1>8, <1>9, <1>10

-----------------------------------------------------------------------------
\* The parts of a list.
LEMMA ListFacts ==
  ASSUME NEW S, NEW list \in ListsOf(S)
  PROVE  /\ list = [items |-> list.items, index |-> list.index]
         /\ list.items \in Seq(S)
         /\ list.index \in S \cup {xListEnd}
         /\ Len(list.items) \in Nat
         /\ \A i \in 1..Len(list.items) : list.items[i] \in S
         /\ \A i \in 1..Len(list.items) : list.items[i] \in Items(list)
         /\ Items(list) \subseteq S
         /\ \A i, j \in 1..Len(list.items) :
              list.items[i] = list.items[j] => i = j
         /\ list.index \in Items(list) \cup {xListEnd}
  <1>1. /\ list \in [items : Seq(S), index : S \cup {xListEnd}]
        /\ \A i, j \in 1..Len(list.items) :
             list.items[i] = list.items[j] => i = j
        /\ list.index \in Items(list) \cup {xListEnd}
    BY DEF ListsOf
  <1>2. list.items \in Seq(S)
    BY <1>1
  <1>3. /\ Len(list.items) \in Nat
        /\ \A i \in 1..Len(list.items) : list.items[i] \in S
    BY <1>2, LenProperties, ElementOfSeq
  <1> QED BY <1>1, <1>2, <1>3 DEF Items

\* The empty list that vListInitialise makes.
LEMMA EmptyListProps ==
  ASSUME NEW S
  PROVE  EmptyList \in ListsOf(S) /\ Items(EmptyList) = {}
  <1>1. <<>> \in Seq(S) /\ Len(<<>>) = 0
    BY EmptySeq
  <1>2. EmptyList.items = <<>> /\ EmptyList.index = xListEnd
    BY DEF EmptyList
  <1>3. 1..Len(EmptyList.items) = {}
    BY <1>1, <1>2
  <1>4. Items(EmptyList) = {}
    BY <1>3 DEF Items
  <1>5. EmptyList \in [items : Seq(S), index : S \cup {xListEnd}]
    BY <1>1 DEF EmptyList
  <1> QED BY <1>2, <1>3, <1>4, <1>5 DEF ListsOf

\* A list is empty exactly when nothing is linked in it.
LEMMA EmptyItems ==
  ASSUME NEW S, NEW list \in ListsOf(S)
  PROVE  /\ listLIST_IS_EMPTY(list) <=> Items(list) = {}
         /\ ~listLIST_IS_EMPTY(list) => /\ 1 \in 1..Len(list.items)
                                       /\ list.items[1] \in Items(list)
  <1>1. list.items \in Seq(S) /\ Len(list.items) \in Nat
    BY ListFacts
  <1>2. CASE listLIST_IS_EMPTY(list)
    <2>1. list.items = <<>> /\ Len(list.items) = 0
      BY <1>2, EmptySeq DEF listLIST_IS_EMPTY
    <2>2. 1..Len(list.items) = {}
      BY <2>1
    <2> QED BY <1>2, <2>2 DEF Items
  <1>3. CASE ~listLIST_IS_EMPTY(list)
    <2>1. Len(list.items) \in Nat \ {0}
      BY <1>1, <1>3, EmptySeq DEF listLIST_IS_EMPTY
    <2>2. 1 \in 1..Len(list.items)
      BY <2>1
    <2> QED BY <1>3, <2>2 DEF Items
  <1> QED BY <1>2, <1>3

\* Position finds a linked item.
LEMMA PositionProps ==
  ASSUME NEW list, NEW x \in Items(list)
  PROVE  /\ Position(list, x) \in 1..Len(list.items)
         /\ list.items[Position(list, x)] = x
  <1>1. \E i \in 1..Len(list.items) : list.items[i] = x
    BY DEF Items
  <1> QED BY <1>1 DEF Position

\* With a gap opened for a new element, no element occurs twice.
LEMMA GapDistinct ==
  ASSUME NEW S, NEW n \in Nat, NEW i \in 1..n + 1,
         NEW s \in [1..n -> S], NEW r \in [1..n + 1 -> S],
         \A j \in 1..i - 1 : r[j] = s[j],
         \A j \in i + 1..n + 1 : r[j] = s[j - 1],
         \A j, k \in 1..n : s[j] = s[k] => j = k,
         \A j \in 1..n : s[j] # r[i],
         NEW j \in 1..n + 1, NEW k \in 1..n + 1, r[j] = r[k]
  PROVE  j = k
  <1> DEFINE back(m) == IF m < i THEN m ELSE m - 1
  <1>1. ASSUME NEW m \in 1..n + 1, m # i
        PROVE  back(m) \in 1..n /\ r[m] = s[back(m)]
    <2>1. CASE m < i
      BY <2>1
    <2>2. CASE m > i
      BY <2>2
    <2> QED BY <1>1, <2>1, <2>2
  <1>2. CASE j = i \/ k = i
    <2>1. \A m \in 1..n + 1 : m # i => r[m] # r[i]
      BY <1>1
    <2> QED BY <1>2, <2>1
  <1>3. CASE j # i /\ k # i
    <2>1. back(j) = back(k)
      BY <1>1, <1>3
    <2> QED BY <1>3, <2>1
  <1> QED BY <1>2, <1>3

\* Insertion of a new item at any place links that item and no other.
LEMMA InsertItems ==
  ASSUME NEW S, NEW list \in ListsOf(S), NEW x \in S, x \notin Items(list),
         NEW i \in 1..Len(list.items) + 1
  PROVE  LET new == [list EXCEPT !.items = InsertAt(@, i, x)]
         IN  new \in ListsOf(S) /\ Items(new) = Items(list) \cup {x}
  <1> DEFINE s == list.items
             r == InsertAt(s, i, x)
             new == [list EXCEPT !.items = InsertAt(@, i, x)]
  <1>0. i \in 1..Len(s) + 1
    OBVIOUS
  <1>1. /\ list = [items |-> s, index |-> list.index]
        /\ s \in Seq(S) /\ Len(s) \in Nat
        /\ list.index \in S \cup {xListEnd}
        /\ list.index \in Items(list) \cup {xListEnd}
    BY ListFacts
  <1>2. /\ \A j \in 1..Len(s) : s[j] \in Items(list)
        /\ \A j, k \in 1..Len(s) : s[j] = s[k] => j = k
    BY ListFacts
  <1>3. /\ r \in Seq(S) /\ Len(r) = Len(s) + 1
        /\ \A j \in 1..i - 1 : r[j] = s[j]
        /\ r[i] = x
        /\ \A j \in i + 1..Len(s) + 1 : r[j] = s[j - 1]
    <2>1. s \in Seq(S) /\ x \in S
      BY <1>1
    <2> HIDE DEF s
    <2>2. /\ InsertAt(s, i, x) \in Seq(S)
          /\ Len(InsertAt(s, i, x)) = Len(s) + 1
          /\ \A j \in 1..i - 1 : InsertAt(s, i, x)[j] = s[j]
          /\ InsertAt(s, i, x)[i] = x
          /\ \A j \in i + 1..Len(s) + 1 : InsertAt(s, i, x)[j] = s[j - 1]
      BY ONLY <1>0, <2>1, InsertAtProps, SMT
    <2> QED BY <2>2
  <1>4. new = [items |-> r, index |-> list.index]
    BY <1>1
  <1>5. new.items = r /\ new.index = list.index
    BY <1>4
  <1> HIDE DEF s, r, new
  <1>6. Items(new) = Items(list) \cup {x}
    <2>1. Items(new) = {r[j] : j \in 1..Len(s) + 1}
      BY <1>3, <1>5 DEF Items
    <2>2. Items(list) = {s[j] : j \in 1..Len(s)}
      BY DEF Items, s
    <2>3. ASSUME NEW j \in 1..Len(s) + 1 PROVE r[j] \in Items(list) \cup {x}
      <3>1. CASE j < i
        BY <1>0, <1>1, <1>2, <1>3, <3>1
      <3>2. CASE j = i
        BY <1>3, <3>2
      <3>3. CASE j > i
        <4>1. j \in i + 1..Len(s) + 1 /\ j - 1 \in 1..Len(s)
          BY <1>0, <1>1, <3>3
        <4> QED BY <1>2, <1>3, <4>1
      <3> QED BY <1>0, <1>1, <3>1, <3>2, <3>3
    <2>4. ASSUME NEW j \in 1..Len(s) PROVE s[j] \in Items(new)
      <3>1. CASE j < i
        <4>1. j \in 1..i - 1 /\ j \in 1..Len(s) + 1
          BY <1>0, <1>1, <3>1
        <4>2. r[j] = s[j]
          BY <1>3, <4>1
        <4> QED BY <2>1, <4>1, <4>2
      <3>2. CASE j >= i
        <4>1. /\ j + 1 \in i + 1..Len(s) + 1 /\ j + 1 \in 1..Len(s) + 1
              /\ (j + 1) - 1 = j
          BY <1>0, <1>1, <3>2
        <4>2. r[j + 1] = s[j]
          BY <1>3, <4>1
        <4> QED BY <2>1, <4>1, <4>2
      <3> QED BY <1>0, <1>1, <3>1, <3>2
    <2>5. x \in Items(new)
      <3>1. i \in 1..Len(s) + 1 /\ r[i] = x
        BY <1>0, <1>3
      <3> QED BY <2>1, <3>1
    <2> QED BY <2>1, <2>2, <2>3, <2>4, <2>5
  <1>7. ASSUME NEW j \in 1..Len(s) + 1, NEW k \in 1..Len(s) + 1, r[j] = r[k]
        PROVE  j = k
    <2>1. \A n \in 1..Len(s) : s[n] # r[i]
      BY <1>2, <1>3
    <2>2. s \in [1..Len(s) -> S]
      BY <1>1, LenProperties
    <2>3. r \in [1..Len(s) + 1 -> S]
      BY <1>3, LenProperties
    <2> DEFINE n == Len(s)
    <2>4. n \in Nat /\ i \in 1..n + 1 /\ j \in 1..n + 1 /\ k \in 1..n + 1
      BY <1>0, <1>1
    <2>5. /\ s \in [1..n -> S] /\ r \in [1..n + 1 -> S]
          /\ \A m \in 1..i - 1 : r[m] = s[m]
          /\ \A m \in i + 1..n + 1 : r[m] = s[m - 1]
          /\ \A m, l \in 1..n : s[m] = s[l] => m = l
          /\ \A m \in 1..n : s[m] # r[i]
      BY <1>2, <1>3, <2>1, <2>2, <2>3
    <2> HIDE DEF n
    <2> QED BY ONLY <1>7, <2>4, <2>5, GapDistinct
  <1>8. new \in [items : Seq(S), index : S \cup {xListEnd}]
    BY <1>1, <1>3, <1>4
  <1>9. new \in ListsOf(S)
    BY <1>1, <1>3, <1>5, <1>6, <1>7, <1>8 DEF ListsOf
  <1> QED BY <1>6, <1>9 DEF new
\* Append is insertion behind the last element.
LEMMA AppendIsInsertAt ==
  ASSUME NEW S, NEW s \in Seq(S), NEW x \in S
  PROVE  Append(s, x) = InsertAt(s, Len(s) + 1, x)
  <1> DEFINE a == Append(s, x)
             b == InsertAt(s, Len(s) + 1, x)
  <1>1. Len(s) \in Nat
    BY LenProperties
  <1>2. /\ a \in Seq(S) /\ Len(a) = Len(s) + 1
        /\ \A i \in 1..Len(s) : a[i] = s[i]
        /\ a[Len(s) + 1] = x
    BY AppendProperties
  <1>3. Len(s) + 1 \in 1..Len(s) + 1
    BY <1>1
  <1>4. /\ b \in Seq(S) /\ Len(b) = Len(s) + 1
        /\ \A j \in 1..(Len(s) + 1) - 1 : b[j] = s[j]
        /\ b[Len(s) + 1] = x
    <2>1. PICK n : n = Len(s) + 1
      OBVIOUS
    <2>2. n \in 1..Len(s) + 1
      BY <1>3, <2>1
    <2>3. /\ InsertAt(s, n, x) \in Seq(S) /\ Len(InsertAt(s, n, x)) = Len(s) + 1
          /\ \A j \in 1..n - 1 : InsertAt(s, n, x)[j] = s[j]
          /\ InsertAt(s, n, x)[n] = x
      BY ONLY s \in Seq(S), x \in S, <2>2, InsertAtProps, SMT
    <2> QED BY <2>1, <2>3
  <1> HIDE DEF a, b
  <1>5. \A i \in 1..Len(a) : a[i] = b[i]
    <2>1. \A i \in 1..Len(s) : b[i] = s[i]
      BY <1>1, <1>4
    <2>2. b[Len(s) + 1] = x
      BY <1>1, <1>4
    <2>3. \A i \in 1..Len(a) : i \in 1..Len(s) \/ i = Len(s) + 1
      BY <1>1, <1>2
    <2> QED BY <1>2, <2>1, <2>2, <2>3
  <1>6. a = b
    BY <1>2, <1>4, <1>5, SeqEqual
  <1> QED BY <1>6 DEF a, b

\* vListInsertEnd links the new item.
LEMMA InsertEndProps ==
  ASSUME NEW S, NEW list \in ListsOf(S), NEW x \in S, x \notin Items(list)
  PROVE  /\ vListInsertEnd(list, x) \in ListsOf(S)
         /\ Items(vListInsertEnd(list, x)) = Items(list) \cup {x}
  <1>1. list.items \in Seq(S) /\ Len(list.items) \in Nat
    BY ListFacts
  <1>2. CASE list.index = xListEnd
    <2>1. Len(list.items) + 1 \in 1..Len(list.items) + 1
      BY <1>1
    <2>2. vListInsertEnd(list, x)
            = [list EXCEPT !.items = InsertAt(@, Len(list.items) + 1, x)]
      BY <1>1, <1>2, AppendIsInsertAt DEF vListInsertEnd
    <2> DEFINE n == Len(list.items) + 1
               new == [list EXCEPT !.items = InsertAt(@, n, x)]
    <2>3. n \in 1..Len(list.items) + 1
      BY <2>1
    <2> HIDE DEF n
    <2>4. new \in ListsOf(S) /\ Items(new) = Items(list) \cup {x}
      BY <2>3, InsertItems
    <2>5. vListInsertEnd(list, x) = new
      BY <2>2 DEF n
    <2> HIDE DEF new
    <2> QED BY <2>4, <2>5
  <1>3. CASE list.index # xListEnd
    <2>1. list.index \in Items(list)
      BY <1>3, ListFacts
    <2>2. Position(list, list.index) \in 1..Len(list.items)
      BY <2>1, PositionProps
    <2>3. Position(list, list.index) \in 1..Len(list.items) + 1
      BY <1>1, <2>2
    <2>4. vListInsertEnd(list, x)
            = [list EXCEPT !.items = InsertAt(@, Position(list, list.index), x)]
      BY <1>3 DEF vListInsertEnd
    <2> QED BY <2>3, <2>4, InsertItems
  <1> QED BY <1>2, <1>3

\* The walk of vListInsert ends, at a place of the list.
LEMMA InsertPositionProps ==
  ASSUME NEW S, NEW list \in ListsOf(S), NEW value \in [S -> Nat], NEW v \in Nat
  PROVE  LET i == InsertPosition(list, value, v)
         IN  /\ i \in 1..Len(list.items) + 1
             /\ v # portMAX_DELAY =>
                  /\ \A j \in 1..i - 1 : value[list.items[j]] <= v
                  /\ i <= Len(list.items) => value[list.items[i]] > v
  <1> DEFINE s == list.items
             n == Len(s)
             T == {i \in 1..n + 1 : i <= n => value[s[i]] > v}
             P(i) == /\ \A j \in 1..i - 1 : value[s[j]] <= v
                     /\ i <= n => value[s[i]] > v
  <1>1. n \in Nat /\ \A i \in 1..n : s[i] \in S
    BY ListFacts
  <1>2. \A i \in 1..n : value[s[i]] \in Nat
    BY <1>1
  <1> HIDE DEF s, n
  <1>3. n + 1 \in T /\ T \in SUBSET Nat
    BY <1>1
  <1>4. PICK i \in T : \A j \in T : i <= j
    <2>1. T # {}
      BY <1>3
    <2> HIDE DEF T
    <2> QED BY <1>3, <2>1, LeastNat
  <1>5. i \in 1..n + 1 /\ P(i)
    <2>1. i \in 1..n + 1 /\ (i <= n => value[s[i]] > v)
      BY <1>4
    <2>2. ASSUME NEW j \in 1..i - 1 PROVE value[s[j]] <= v
      <3>1. j \in 1..n + 1 /\ j \in 1..n /\ j < i
        BY <1>1, <2>1
      <3>2. j \notin T
        BY <1>1, <1>4, <2>1, <3>1
      <3>3. ~(value[s[j]] > v)
        BY <3>1, <3>2
      <3> QED BY <1>2, <3>1, <3>3
    <2> QED BY <2>1, <2>2
  <1>6. CASE v = portMAX_DELAY
    <2>1. InsertPosition(list, value, v) = n + 1
      BY <1>6 DEF InsertPosition, n, s
    <2>2. n + 1 \in 1..n + 1
      BY <1>1
    <2> QED BY <1>6, <2>1, <2>2 DEF n, s
  <1>7. CASE v # portMAX_DELAY
    <2>1. InsertPosition(list, value, v) = CHOOSE k \in 1..n + 1 : P(k)
      BY <1>7 DEF InsertPosition, n, s
    <2>2. \E k \in 1..n + 1 : P(k)
      BY <1>5
    <2> HIDE DEF P
    <2>3. /\ InsertPosition(list, value, v) \in 1..n + 1
          /\ P(InsertPosition(list, value, v))
      BY <2>1, <2>2
    <2> QED BY <2>3 DEF P, n, s
  <1> QED BY <1>6, <1>7

\* vListInsert links the new item.
LEMMA InsertProps ==
  ASSUME NEW S, NEW list \in ListsOf(S), NEW value \in [S -> Nat],
         NEW x \in S, x \notin Items(list)
  PROVE  /\ vListInsert(list, value, x) \in ListsOf(S)
         /\ Items(vListInsert(list, value, x)) = Items(list) \cup {x}
  <1>1. value[x] \in Nat
    OBVIOUS
  <1>2. InsertPosition(list, value, value[x]) \in 1..Len(list.items) + 1
    BY <1>1, InsertPositionProps
  <1> QED BY <1>2, InsertItems DEF vListInsert
-----------------------------------------------------------------------------
\* With one element dropped, every element comes from another one.
LEMMA DropSource ==
  ASSUME NEW S, NEW n \in Nat, NEW i \in 1..n,
         NEW s \in [1..n -> S], NEW r \in [1..n - 1 -> S],
         \A j \in 1..i - 1 : r[j] = s[j],
         \A j \in i..n - 1 : r[j] = s[j + 1],
         \A j, k \in 1..n : s[j] = s[k] => j = k,
         NEW m \in 1..n - 1
  PROVE  \E k \in 1..n : /\ k = IF m < i THEN m ELSE m + 1
                         /\ k # i
                         /\ r[m] = s[k]
                         /\ r[m] # s[i]
  <1>1. CASE m < i
    <2>1. m \in 1..n /\ m # i /\ r[m] = s[m]
      BY <1>1
    <2> QED BY <1>1, <2>1
  <1>2. CASE m >= i
    <2>1. m + 1 \in 1..n /\ m + 1 # i /\ r[m] = s[m + 1] /\ ~(m < i)
      BY <1>2
    <2> QED BY <2>1
  <1> QED BY <1>1, <1>2

\* With one element dropped, no element occurs twice.
LEMMA DropDistinct ==
  ASSUME NEW S, NEW n \in Nat, NEW i \in 1..n,
         NEW s \in [1..n -> S], NEW r \in [1..n - 1 -> S],
         \A j \in 1..i - 1 : r[j] = s[j],
         \A j \in i..n - 1 : r[j] = s[j + 1],
         \A j, k \in 1..n : s[j] = s[k] => j = k,
         NEW j \in 1..n - 1, NEW k \in 1..n - 1, r[j] = r[k]
  PROVE  j = k
  <1>1. PICK a \in 1..n : a = (IF j < i THEN j ELSE j + 1) /\ r[j] = s[a]
    BY DropSource
  <1>2. PICK b \in 1..n : b = (IF k < i THEN k ELSE k + 1) /\ r[k] = s[b]
    BY DropSource
  <1>3. a = b
    BY <1>1, <1>2
  <1> QED BY <1>1, <1>2, <1>3

\* uxListRemove unlinks its item and no other, and keeps the cursor linked.
LEMMA RemoveProps ==
  ASSUME NEW S, NEW list \in ListsOf(S), NEW x \in Items(list), xListEnd \notin S
  PROVE  /\ uxListRemove(list, x) \in ListsOf(S)
         /\ Items(uxListRemove(list, x)) = Items(list) \ {x}
  <1> DEFINE s == list.items
             n == Len(s)
             i == Position(list, x)
             r == RemoveAt(s, i)
             p == pxPrevious(list, x)
             c == IF list.index = x THEN p ELSE list.index
             new == uxListRemove(list, x)
  <1>1. /\ s \in Seq(S) /\ n \in Nat
        /\ \A j, k \in 1..n : s[j] = s[k] => j = k
        /\ list.index \in S \cup {xListEnd}
        /\ list.index \in Items(list) \cup {xListEnd}
    BY ListFacts
  <1>2. i \in 1..n /\ s[i] = x
    BY PositionProps
  <1>3. new = [items |-> r, index |-> c]
    BY DEF uxListRemove
  <1>4. p = IF i = 1 THEN xListEnd ELSE s[i - 1]
    BY DEF pxPrevious
  <1>5. Items(list) = {s[j] : j \in 1..n}
    BY DEF Items
  <1>6. Items(new) = {r[j] : j \in 1..Len(r)}
    BY <1>3 DEF Items
  <1>7. new.items = r /\ new.index = c
    BY <1>3
  <1> HIDE DEF s, i, r, p, new
  <1>8. /\ r \in Seq(S) /\ Len(r) = n - 1
        /\ \A j \in 1..n - 1 : r[j] = IF j < i THEN s[j] ELSE s[j + 1]
    BY ONLY <1>1, <1>2, RemoveAtProps, SMT DEF r, n
  <1>9. /\ s \in [1..n -> S] /\ r \in [1..n - 1 -> S]
        /\ \A j \in 1..i - 1 : r[j] = s[j]
        /\ \A j \in i..n - 1 : r[j] = s[j + 1]
    BY <1>1, <1>2, <1>8, LenProperties
  <1> HIDE DEF n
  <1>10. ASSUME NEW j \in 1..n - 1, NEW k \in 1..n - 1, r[j] = r[k]
         PROVE  j = k
    BY <1>1, <1>2, <1>9, <1>10, DropDistinct
  <1>11. Items(new) = Items(list) \ {x}
    <2>1. Items(new) = {r[j] : j \in 1..n - 1}
      BY <1>6, <1>8
    <2>2. ASSUME NEW j \in 1..n - 1
          PROVE  r[j] # s[i] /\ \E k \in 1..n : r[j] = s[k]
      BY <1>1, <1>2, <1>9, DropSource
    <2>3. ASSUME NEW k \in 1..n, s[k] # s[i]
          PROVE  \E j \in 1..n - 1 : r[j] = s[k]
      <3>1. CASE k < i
        <4>1. k \in 1..i - 1 /\ k \in 1..n - 1
          BY <1>1, <1>2, <3>1
        <4> QED BY <1>9, <4>1
      <3>2. CASE k > i
        <4>1. k - 1 \in i..n - 1 /\ k - 1 \in 1..n - 1 /\ (k - 1) + 1 = k
          BY <1>1, <1>2, <3>2
        <4>2. r[k - 1] = s[k]
          BY <1>9, <4>1
        <4> QED BY <4>1, <4>2
      <3> QED BY <1>1, <1>2, <2>3, <3>1, <3>2
    <2> QED BY <1>2, <1>5, <2>1, <2>2, <2>3
  <1>12. p \in (Items(list) \ {x}) \cup {xListEnd}
    <2>1. CASE i = 1
      BY <1>4, <2>1
    <2>2. CASE i # 1
      <3>1. i - 1 \in 1..n /\ i - 1 # i
        BY <1>1, <1>2, <2>2
      <3>2. s[i - 1] # s[i]
        BY <1>1, <1>2, <3>1
      <3> QED BY <1>2, <1>4, <1>5, <2>2, <3>1, <3>2
    <2> QED BY <2>1, <2>2
  <1>13. c \in (Items(list) \ {x}) \cup {xListEnd}
    BY <1>1, <1>12
  <1>14. c \in S \cup {xListEnd}
    BY <1>13, ListFacts
  <1> HIDE DEF c
  <1>15. new \in [items : Seq(S), index : S \cup {xListEnd}]
    BY <1>3, <1>8, <1>14
  <1>16. new \in ListsOf(S)
    BY <1>7, <1>8, <1>10, <1>11, <1>13, <1>15 DEF ListsOf
  <1> QED BY <1>11, <1>16 DEF new

\* The same of an item that may be linked elsewhere.
LEMMA UnlinkProps ==
  ASSUME NEW S, NEW list \in ListsOf(S), NEW x, xListEnd \notin S
  PROVE  /\ Unlink(list, x) \in ListsOf(S)
         /\ Items(Unlink(list, x)) = Items(list) \ {x}
  <1>1. CASE x \in Items(list)
    BY <1>1, RemoveProps DEF Unlink
  <1>2. CASE x \notin Items(list)
    BY <1>2 DEF Unlink
  <1> QED BY <1>1, <1>2

\* listGET_OWNER_OF_NEXT_ENTRY moves the cursor to a linked item; on a list
\* that is not empty it never rests on the sentinel.
LEMMA NextEntryProps ==
  ASSUME NEW S, NEW list \in ListsOf(S), xListEnd \notin S
  PROVE  LET new == listGET_OWNER_OF_NEXT_ENTRY(list)
         IN  /\ new \in ListsOf(S)
             /\ Items(new) = Items(list)
             /\ Items(list) # {} => new.index \in Items(list)
             /\ Items(list) = {} => new.index = xListEnd
  <1> DEFINE s == list.items
             n == Len(s)
             c == NextIndex(list)
             new == listGET_OWNER_OF_NEXT_ENTRY(list)
  <1>1. /\ list = [items |-> s, index |-> list.index]
        /\ s \in Seq(S) /\ n \in Nat
        /\ \A j, k \in 1..n : s[j] = s[k] => j = k
        /\ \A j \in 1..n : s[j] \in Items(list)
        /\ Items(list) \subseteq S
        /\ list.index \in Items(list) \cup {xListEnd}
    BY ListFacts
  <1>2. new = [items |-> s, index |-> c]
    BY <1>1 DEF listGET_OWNER_OF_NEXT_ENTRY
  <1>3. new.items = s /\ new.index = c
    BY <1>2
  <1>4. Items(new) = Items(list)
    BY <1>3 DEF Items
  <1>5. CASE listLIST_IS_EMPTY(list)
    <2>1. Items(list) = {} /\ c = xListEnd
      BY <1>5, EmptyItems DEF NextIndex
    <2> QED BY <1>1, <1>2, <1>3, <1>4, <2>1 DEF ListsOf
  <1>6. CASE ~listLIST_IS_EMPTY(list)
    <2>1. Items(list) # {} /\ s[1] \in Items(list)
      BY <1>6, EmptyItems
    <2>2. c \in Items(list)
      <3>1. CASE list.index = xListEnd
        BY <1>6, <2>1, <3>1 DEF NextIndex
      <3>2. CASE list.index # xListEnd
        <4> DEFINE i == Position(list, list.index)
        <4>1. list.index \in Items(list)
          BY <1>1, <3>2
        <4>2. i \in 1..n
          BY <4>1, PositionProps
        <4>3. c = IF i = n THEN s[1] ELSE s[i + 1]
          BY <1>6, <3>2 DEF NextIndex
        <4>4. i # n => i + 1 \in 1..n
          BY <1>1, <4>2
        <4> HIDE DEF i, c, s, n
        <4> QED BY <1>1, <2>1, <4>3, <4>4
      <3> QED BY <3>1, <3>2
    <2> HIDE DEF c, s, n, new
    <2>3. new \in [items : Seq(S), index : S \cup {xListEnd}]
      BY <1>1, <1>2, <2>2
    <2>4. new \in ListsOf(S)
      BY <1>1, <1>3, <1>4, <2>2, <2>3 DEF ListsOf, n
    <2> QED BY <1>3, <1>4, <2>1, <2>2, <2>4 DEF new
  <1> QED BY <1>5, <1>6

-----------------------------------------------------------------------------
(* kernel/tasks.c                                                          *)

\* Facts about the constants.
LEMMA Constants ==
  /\ xListEnd \notin AllTasks
  /\ NULL \notin AllTasks
  /\ MaxPriorities \in Nat /\ MaxPriorities > 0
  /\ 0 \in Priorities
  /\ Priorities \subseteq Nat
  /\ portMAX_DELAY \in Nat
  /\ Ticks \subseteq Nat
  /\ Priorities \subseteq Ticks
  BY SchedulerAssumption, MaxDelayAssumption DEF Priorities, Ticks

\* A base priority is a priority, however large the one requested.
LEMMA BasePriority ==
  ASSUME NEW t \in AllTasks
  PROVE  uxBasePriority(t) \in Priorities
  BY SchedulerAssumption DEF uxBasePriority, Priorities, AllTasks

\* The event item values are times that the sentinel's value exceeds.
LEMMA EventItemValue == xEventItemValue \in [AllTasks -> Nat]
  <1>1. \A t \in AllTasks : MaxPriorities - uxBasePriority(t) \in Nat
    BY BasePriority, Constants DEF Priorities
  <1> QED BY <1>1 DEF xEventItemValue

\* The fields of a kernel state.
LEMMA Fields ==
  ASSUME NEW k \in KernelType
  PROVE  /\ k.pxCurrentTCB \in AllTasks \cup {NULL}
         /\ k.xReadyTasksLists \in [Priorities -> ListsOf(AllTasks)]
         /\ k.xDelayedTaskList \in ListsOf(AllTasks)
         /\ k.xSuspendedTaskList \in ListsOf(AllTasks)
         /\ k.xEventLists \in [EventLists -> ListsOf(AllTasks)]
         /\ k.uxTopReadyPriority \in Priorities
         /\ k.xTickCount \in Ticks
         /\ k.xSchedulerRunning \in BOOLEAN
         /\ k.xInheritEnabled \in BOOLEAN
         /\ k.uxPriority \in [AllTasks -> Priorities]
         /\ k.xItemValue \in [AllTasks -> Ticks]
  BY DEF KernelType

\* Everything but the state lists is the same.
SameButStateLists(k, j) ==
  /\ j.pxCurrentTCB = k.pxCurrentTCB
  /\ j.xEventLists = k.xEventLists
  /\ j.uxTopReadyPriority = k.uxTopReadyPriority
  /\ j.xTickCount = k.xTickCount
  /\ j.xSchedulerRunning = k.xSchedulerRunning
  /\ j.xInheritEnabled = k.xInheritEnabled
  /\ j.uxPriority = k.uxPriority
  /\ j.xItemValue = k.xItemValue

\* Removal of a state item takes it off whichever state list it is on.
LEMMA RemoveStateProps ==
  ASSUME NEW k \in KernelType, NEW t
  PROVE  LET j == RemoveStateItem(k, t)
         IN  /\ j \in KernelType
             /\ SameButStateLists(k, j)
             /\ \A p \in Priorities :
                  Items(j.xReadyTasksLists[p]) = Items(k.xReadyTasksLists[p]) \ {t}
             /\ DelayedItems(j) = DelayedItems(k) \ {t}
             /\ SuspendedItems(j) = SuspendedItems(k) \ {t}
  <1> DEFINE j == RemoveStateItem(k, t)
             ready == [p \in Priorities |-> Unlink(k.xReadyTasksLists[p], t)]
             delayed == Unlink(k.xDelayedTaskList, t)
             suspended == Unlink(k.xSuspendedTaskList, t)
  <1>1. /\ k.xReadyTasksLists \in [Priorities -> ListsOf(AllTasks)]
        /\ k.xDelayedTaskList \in ListsOf(AllTasks)
        /\ k.xSuspendedTaskList \in ListsOf(AllTasks)
    BY Fields
  <1>2. \A p \in Priorities :
          /\ ready[p] \in ListsOf(AllTasks)
          /\ Items(ready[p]) = Items(k.xReadyTasksLists[p]) \ {t}
    BY <1>1, Constants, UnlinkProps
  <1>3. delayed \in ListsOf(AllTasks) /\ Items(delayed) = Items(k.xDelayedTaskList) \ {t}
    BY <1>1, Constants, UnlinkProps
  <1>4. suspended \in ListsOf(AllTasks) /\ Items(suspended) = Items(k.xSuspendedTaskList) \ {t}
    BY <1>1, Constants, UnlinkProps
  <1>5. j = [k EXCEPT !.xReadyTasksLists = ready, !.xDelayedTaskList = delayed,
                      !.xSuspendedTaskList = suspended]
    BY DEF RemoveStateItem
  <1>6. ready \in [Priorities -> ListsOf(AllTasks)]
    BY <1>2
  <1> HIDE DEF j, ready, delayed, suspended
  <1>7. j \in KernelType /\ SameButStateLists(k, j)
    BY <1>3, <1>4, <1>5, <1>6 DEF KernelType, SameButStateLists
  <1>8. /\ j.xReadyTasksLists = ready
        /\ j.xDelayedTaskList = delayed
        /\ j.xSuspendedTaskList = suspended
    BY <1>5 DEF KernelType
  <1> QED BY <1>2, <1>3, <1>4, <1>7, <1>8 DEF j, DelayedItems, SuspendedItems

\* Removal of an event item takes it off whichever event list it is on.
LEMMA RemoveEventProps ==
  ASSUME NEW k \in KernelType, NEW t
  PROVE  LET j == RemoveEventItem(k, t)
         IN  /\ j \in KernelType
             /\ j = [k EXCEPT !.xEventLists = j.xEventLists]
             /\ \A e \in EventLists :
                  Items(j.xEventLists[e]) = Items(k.xEventLists[e]) \ {t}
  <1> DEFINE j == RemoveEventItem(k, t)
             event == [e \in EventLists |-> Unlink(k.xEventLists[e], t)]
  <1>1. k.xEventLists \in [EventLists -> ListsOf(AllTasks)]
    BY Fields
  <1>2. \A e \in EventLists :
          /\ event[e] \in ListsOf(AllTasks)
          /\ Items(event[e]) = Items(k.xEventLists[e]) \ {t}
    BY <1>1, Constants, UnlinkProps
  <1>3. j = [k EXCEPT !.xEventLists = event]
    BY DEF RemoveEventItem
  <1>4. event \in [EventLists -> ListsOf(AllTasks)]
    BY <1>2
  <1> HIDE DEF j, event
  <1>5. j \in KernelType /\ j.xEventLists = event
    BY <1>3, <1>4 DEF KernelType
  <1> QED BY <1>2, <1>3, <1>5 DEF j

\* From k to j, the state item of t was linked in the list of its priority and
\* uxTopReadyPriority raised to at least that.
AddedReady(k, j, t) ==
  /\ j \in KernelType
  /\ j.pxCurrentTCB = k.pxCurrentTCB
  /\ j.xDelayedTaskList = k.xDelayedTaskList
  /\ j.xSuspendedTaskList = k.xSuspendedTaskList
  /\ j.xEventLists = k.xEventLists
  /\ j.xSchedulerRunning = k.xSchedulerRunning
  /\ j.uxPriority = k.uxPriority
  /\ j.uxTopReadyPriority >= k.uxTopReadyPriority
  /\ j.uxTopReadyPriority >= k.uxPriority[t]
  /\ \A p \in Priorities :
       Items(j.xReadyTasksLists[p])
         = IF p = k.uxPriority[t] THEN Items(k.xReadyTasksLists[p]) \cup {t}
                                  ELSE Items(k.xReadyTasksLists[p])

\* prvAddTaskToReadyList does so for a task that is not on that list.
LEMMA AddReadyProps ==
  ASSUME NEW k \in KernelType, NEW t \in AllTasks,
         t \notin Items(k.xReadyTasksLists[k.uxPriority[t]])
  PROVE  AddedReady(k, prvAddTaskToReadyList(k, t), t)
  <1> DEFINE j == prvAddTaskToReadyList(k, t)
             p == k.uxPriority[t]
             list == vListInsertEnd(k.xReadyTasksLists[p], t)
             ready == [k.xReadyTasksLists EXCEPT ![p] = list]
             top == IF p > k.uxTopReadyPriority THEN p ELSE k.uxTopReadyPriority
             value == [k.xItemValue EXCEPT ![t] = p]
  <1>1. /\ k.xReadyTasksLists \in [Priorities -> ListsOf(AllTasks)]
        /\ k.uxTopReadyPriority \in Priorities
        /\ k.xItemValue \in [AllTasks -> Ticks]
        /\ p \in Priorities
    BY Fields
  <1>2. /\ list \in ListsOf(AllTasks)
        /\ Items(list) = Items(k.xReadyTasksLists[p]) \cup {t}
    BY <1>1, InsertEndProps
  <1>3. /\ top \in Priorities
        /\ top >= k.uxTopReadyPriority /\ top >= p
    <2>1. p \in Nat /\ k.uxTopReadyPriority \in Nat
      BY <1>1, Constants
    <2> HIDE DEF p
    <2>2. CASE p > k.uxTopReadyPriority
      BY <1>1, <2>1, <2>2
    <2>3. CASE ~(p > k.uxTopReadyPriority)
      BY <1>1, <2>1, <2>3
    <2> QED BY <2>2, <2>3
  <1>4. value \in [AllTasks -> Ticks]
    BY <1>1, Constants
  <1>5. j = [k EXCEPT !.uxTopReadyPriority = top, !.xItemValue = value,
                      !.xReadyTasksLists = ready]
    BY DEF prvAddTaskToReadyList, KernelType
  <1> HIDE DEF j, list, top, p
  <1>6. /\ ready \in [Priorities -> ListsOf(AllTasks)]
        /\ \A r \in Priorities : ready[r] = IF r = p THEN list ELSE k.xReadyTasksLists[r]
    BY <1>1, <1>2
  <1> HIDE DEF ready, value
  <1>7. /\ j \in KernelType
        /\ j.pxCurrentTCB = k.pxCurrentTCB
        /\ j.xDelayedTaskList = k.xDelayedTaskList
        /\ j.xSuspendedTaskList = k.xSuspendedTaskList
        /\ j.xEventLists = k.xEventLists
        /\ j.xTickCount = k.xTickCount
        /\ j.xSchedulerRunning = k.xSchedulerRunning
        /\ j.xInheritEnabled = k.xInheritEnabled
        /\ j.uxPriority = k.uxPriority
        /\ j.xItemValue = value
        /\ j.uxTopReadyPriority = top
        /\ j.xReadyTasksLists = ready
    BY <1>3, <1>4, <1>5, <1>6 DEF KernelType
  <1>8. \A r \in Priorities :
          Items(j.xReadyTasksLists[r]) = IF r = p THEN Items(k.xReadyTasksLists[r]) \cup {t}
                                                  ELSE Items(k.xReadyTasksLists[r])
    BY <1>2, <1>6, <1>7
  <1>9. AddedReady(k, j, t)
    BY <1>3, <1>7, <1>8 DEF p, AddedReady
  <1> QED BY <1>9 DEF j

\* AddToDelayedList links the state item in the delayed list.
LEMMA AddDelayedProps ==
  ASSUME NEW k \in KernelType, NEW t \in AllTasks, NEW n \in Ticks,
         t \notin DelayedItems(k)
  PROVE  LET j == AddToDelayedList(k, t, n)
             value == [k.xItemValue EXCEPT ![t] = TickPlus(k, n)]
         IN  /\ j \in KernelType
             /\ j = [k EXCEPT !.xItemValue = value,
                              !.xDelayedTaskList = vListInsert(@, value, t)]
             /\ DelayedItems(j) = DelayedItems(k) \cup {t}
  <1> DEFINE j == AddToDelayedList(k, t, n)
             value == [k.xItemValue EXCEPT ![t] = TickPlus(k, n)]
             list == vListInsert(k.xDelayedTaskList, value, t)
  <1>1. /\ k.xDelayedTaskList \in ListsOf(AllTasks)
        /\ k.xTickCount \in Ticks
        /\ k.xItemValue \in [AllTasks -> Ticks]
    BY Fields
  <1>2. TickPlus(k, n) \in Ticks
    BY <1>1, Constants DEF TickPlus, Ticks
  <1>3. value \in [AllTasks -> Ticks] /\ value \in [AllTasks -> Nat]
    BY <1>1, <1>2, Constants
  <1>4. j = [k EXCEPT !.xItemValue = value, !.xDelayedTaskList = list]
    BY DEF AddToDelayedList
  <1> HIDE DEF value
  <1>5. list \in ListsOf(AllTasks) /\ Items(list) = Items(k.xDelayedTaskList) \cup {t}
    BY <1>1, <1>3, InsertProps DEF DelayedItems
  <1> HIDE DEF list, j
  <1>6. j \in KernelType /\ j.xDelayedTaskList = list
    BY <1>3, <1>4, <1>5 DEF KernelType
  <1> QED BY <1>4, <1>5, <1>6 DEF j, list, value, DelayedItems
-----------------------------------------------------------------------------
\* The facts about the lists that every function of tasks.c preserves, item
\* by item: StateListsOK, EventListsOK and TopOK.
KernelGood(k) ==
  /\ k \in KernelType
  /\ \A p \in Priorities : \A x \in Items(k.xReadyTasksLists[p]) :
       /\ k.uxPriority[x] = p
       /\ p <= k.uxTopReadyPriority
       /\ x \notin DelayedItems(k)
       /\ x \notin SuspendedItems(k)
  /\ \A x \in DelayedItems(k) : x \notin SuspendedItems(k)
  /\ \A e \in EventLists : \A x \in Items(k.xEventLists[e]) :
       /\ x \in BlockedItems(k)
       /\ \A f \in EventLists : x \in Items(k.xEventLists[f]) => e = f
  /\ \A x \in SuspendedItems(k) : \E e \in EventLists : x \in Items(k.xEventLists[e])

\* What a function does, as its callers see it: from k to j, the tasks that
\* are ready and blocked, the running task and the priorities afterwards.
Becomes(k, j, ready, blocked, current, priority) ==
  /\ KernelGood(j)
  /\ ReadyItems(j) = ready
  /\ BlockedItems(j) = blocked
  /\ j.pxCurrentTCB = current
  /\ j.uxPriority = priority
  /\ j.xSchedulerRunning = k.xSchedulerRunning

\* KernelGood is the conjunction of the list properties.
LEMMA GoodLists ==
  ASSUME NEW k, KernelGood(k)
  PROVE  StateListsOK(k) /\ EventListsOK(k) /\ TopOK(k)
  <1>1. StateListsOK(k)
    BY DEF KernelGood, StateListsOK, BlockedItems, ReadyItems
  <1>2. EventListsOK(k)
    BY DEF KernelGood, EventListsOK
  <1>3. TopOK(k)
    <2> SUFFICES ASSUME NEW p \in Priorities,
                        ~listLIST_IS_EMPTY(k.xReadyTasksLists[p])
                 PROVE  p <= k.uxTopReadyPriority
      BY DEF TopOK
    <2>1. k.xReadyTasksLists[p] \in ListsOf(AllTasks)
      BY Fields DEF KernelGood
    <2>2. \E x : x \in Items(k.xReadyTasksLists[p])
      BY <2>1, EmptyItems
    <2> QED BY <2>2 DEF KernelGood
  <1> QED BY <1>1, <1>2, <1>3

\* The items of the lists are tasks; a ready task is on the list of its
\* priority.
LEMMA GoodMembers ==
  ASSUME NEW k, KernelGood(k)
  PROVE  /\ ReadyItems(k) \subseteq AllTasks
         /\ BlockedItems(k) \subseteq AllTasks
         /\ \A e \in EventLists : Items(k.xEventLists[e]) \subseteq AllTasks
         /\ \A x \in ReadyItems(k) : x \in Items(k.xReadyTasksLists[k.uxPriority[x]])
         /\ \A x \in BlockedItems(k) : x \notin ReadyItems(k)
  <1>0. k \in KernelType
    BY DEF KernelGood
  <1>1. \A p \in Priorities : Items(k.xReadyTasksLists[p]) \subseteq AllTasks
    BY <1>0, Fields, ListFacts
  <1>2. \A e \in EventLists : Items(k.xEventLists[e]) \subseteq AllTasks
    BY <1>0, Fields, ListFacts
  <1>3. DelayedItems(k) \subseteq AllTasks /\ SuspendedItems(k) \subseteq AllTasks
    BY <1>0, Fields, ListFacts DEF DelayedItems, SuspendedItems
  <1>4. \A x \in ReadyItems(k) : \E p \in Priorities :
          x \in Items(k.xReadyTasksLists[p]) /\ k.uxPriority[x] = p
    BY DEF ReadyItems, KernelGood
  <1>5. \A x \in BlockedItems(k) : x \notin ReadyItems(k)
    BY DEF ReadyItems, KernelGood, BlockedItems
  <1> QED BY <1>1, <1>2, <1>3, <1>4, <1>5 DEF BlockedItems, ReadyItems

\* MakeReady (the wake-up by an event or by the tick) moves one task from the
\* blocked to the ready ones.
LEMMA MakeReadyGood ==
  ASSUME NEW k, KernelGood(k), NEW t \in BlockedItems(k)
  PROVE  Becomes(k, MakeReady(k, t), ReadyItems(k) \cup {t}, BlockedItems(k) \ {t},
                 k.pxCurrentTCB, k.uxPriority)
  <1> DEFINE k1 == RemoveEventItem(k, t)
             k2 == RemoveStateItem(k1, t)
             j  == prvAddTaskToReadyList(k2, t)
  <1>0. /\ k \in KernelType /\ t \in AllTasks
        /\ k.uxPriority[t] \in Priorities
    <2>1. k \in KernelType
      BY DEF KernelGood
    <2>2. t \in AllTasks
      BY GoodMembers
    <2>3. k.uxPriority \in [AllTasks -> Priorities]
      BY <2>1, Fields
    <2> QED BY <2>1, <2>2, <2>3
  <1>1. /\ k1 \in KernelType
        /\ k1 = [k EXCEPT !.xEventLists = k1.xEventLists]
        /\ \A e \in EventLists : Items(k1.xEventLists[e]) = Items(k.xEventLists[e]) \ {t}
    BY <1>0, RemoveEventProps
  <1> HIDE DEF k1
  <1>2. /\ k1.pxCurrentTCB = k.pxCurrentTCB
        /\ k1.uxPriority = k.uxPriority
        /\ k1.xSchedulerRunning = k.xSchedulerRunning
        /\ k1.uxTopReadyPriority = k.uxTopReadyPriority
        /\ k1.xReadyTasksLists = k.xReadyTasksLists
        /\ k1.xDelayedTaskList = k.xDelayedTaskList
        /\ k1.xSuspendedTaskList = k.xSuspendedTaskList
    BY <1>0, <1>1 DEF KernelType
  <1>3. /\ k2 \in KernelType
        /\ SameButStateLists(k1, k2)
        /\ \A p \in Priorities :
             Items(k2.xReadyTasksLists[p]) = Items(k1.xReadyTasksLists[p]) \ {t}
        /\ DelayedItems(k2) = DelayedItems(k1) \ {t}
        /\ SuspendedItems(k2) = SuspendedItems(k1) \ {t}
    BY <1>1, RemoveStateProps
  <1> HIDE DEF k2
  <1>4. /\ k2.uxPriority = k.uxPriority
        /\ k2.pxCurrentTCB = k.pxCurrentTCB
        /\ k2.xSchedulerRunning = k.xSchedulerRunning
        /\ k2.uxTopReadyPriority = k.uxTopReadyPriority
        /\ k2.xEventLists = k1.xEventLists
        /\ t \notin Items(k2.xReadyTasksLists[k2.uxPriority[t]])
    BY <1>0, <1>2, <1>3 DEF SameButStateLists
  <1>5. /\ j \in KernelType
        /\ j.pxCurrentTCB = k2.pxCurrentTCB
        /\ j.xDelayedTaskList = k2.xDelayedTaskList
        /\ j.xSuspendedTaskList = k2.xSuspendedTaskList
        /\ j.xEventLists = k2.xEventLists
        /\ j.xSchedulerRunning = k2.xSchedulerRunning
        /\ j.uxPriority = k2.uxPriority
        /\ j.uxTopReadyPriority >= k2.uxTopReadyPriority
        /\ j.uxTopReadyPriority >= k2.uxPriority[t]
        /\ \A p \in Priorities :
             Items(j.xReadyTasksLists[p])
               = IF p = k2.uxPriority[t] THEN Items(k2.xReadyTasksLists[p]) \cup {t}
                                         ELSE Items(k2.xReadyTasksLists[p])
    <2>1. /\ k2 \in KernelType /\ t \in AllTasks
          /\ t \notin Items(k2.xReadyTasksLists[k2.uxPriority[t]])
      BY <1>0, <1>3, <1>4
    <2>2. AddedReady(k2, j, t)
      BY ONLY <2>1, AddReadyProps
    <2> HIDE DEF j
    <2> QED BY ONLY <2>2 DEF AddedReady
  <1> HIDE DEF j
  <1>6. /\ DelayedItems(j) = DelayedItems(k) \ {t}
        /\ SuspendedItems(j) = SuspendedItems(k) \ {t}
        /\ \A e \in EventLists : Items(j.xEventLists[e]) = Items(k.xEventLists[e]) \ {t}
        /\ \A p \in Priorities : \A x : x \in Items(j.xReadyTasksLists[p]) <=>
              \/ x # t /\ x \in Items(k.xReadyTasksLists[p])
              \/ x = t /\ p = k.uxPriority[t]
        /\ j.uxPriority = k.uxPriority
    <2>1. DelayedItems(j) = DelayedItems(k) \ {t} /\ SuspendedItems(j) = SuspendedItems(k) \ {t}
      BY <1>2, <1>3, <1>5 DEF DelayedItems, SuspendedItems
    <2>2. \A e \in EventLists : Items(j.xEventLists[e]) = Items(k.xEventLists[e]) \ {t}
      BY <1>1, <1>4, <1>5
    <2>3. ASSUME NEW p \in Priorities, NEW x
          PROVE  x \in Items(j.xReadyTasksLists[p]) <=>
                   \/ x # t /\ x \in Items(k.xReadyTasksLists[p])
                   \/ x = t /\ p = k.uxPriority[t]
      <3>1. Items(k2.xReadyTasksLists[p]) = Items(k.xReadyTasksLists[p]) \ {t}
        BY <1>2, <1>3
      <3>2. CASE p = k.uxPriority[t]
        BY <1>4, <1>5, <3>1, <3>2
      <3>3. CASE p # k.uxPriority[t]
        BY <1>4, <1>5, <3>1, <3>3
      <3> QED BY <3>2, <3>3
    <2> QED BY <1>4, <1>5, <2>1, <2>2, <2>3
  <1>7. j.uxTopReadyPriority \in Nat /\ k.uxTopReadyPriority \in Nat
        /\ Priorities \subseteq Nat
    BY <1>0, <1>5, Fields, Constants
  <1>8. \A p \in Priorities : \A x \in Items(j.xReadyTasksLists[p]) :
          p <= j.uxTopReadyPriority
    BY <1>4, <1>5, <1>6, <1>7 DEF KernelGood
  <1>9. KernelGood(j)
    <2>1. \A p \in Priorities : \A x \in Items(j.xReadyTasksLists[p]) :
            /\ j.uxPriority[x] = p
            /\ x \notin DelayedItems(j) /\ x \notin SuspendedItems(j)
      BY <1>6 DEF KernelGood
    <2>2. \A x \in DelayedItems(j) : x \notin SuspendedItems(j)
      BY <1>6 DEF KernelGood
    <2>3. \A e \in EventLists : \A x \in Items(j.xEventLists[e]) :
            /\ x \in BlockedItems(j)
            /\ \A f \in EventLists : x \in Items(j.xEventLists[f]) => e = f
      BY <1>6 DEF KernelGood, BlockedItems
    <2>4. \A x \in SuspendedItems(j) : \E e \in EventLists : x \in Items(j.xEventLists[e])
      BY <1>6 DEF KernelGood
    <2> QED BY <1>5, <1>8, <2>1, <2>2, <2>3, <2>4 DEF KernelGood
  <1>10. ReadyItems(j) = ReadyItems(k) \cup {t}
    BY <1>0, <1>6 DEF ReadyItems
  <1> QED BY <1>4, <1>5, <1>6, <1>9, <1>10 DEF Becomes, BlockedItems, MakeReady, j, k2, k1

\* The search of vTaskSwitchContext ends on the highest list with a task.
LEMMA HighestReadyProps ==
  ASSUME NEW k, KernelGood(k), ReadyItems(k) # {}
  PROVE  LET p == HighestReady(k)
         IN  /\ p \in Priorities
             /\ Items(k.xReadyTasksLists[p]) # {}
             /\ \A r \in Priorities : Items(k.xReadyTasksLists[r]) # {} => r <= p
  <1> DEFINE top == k.uxTopReadyPriority
             T == {p \in 0..top : ~listLIST_IS_EMPTY(k.xReadyTasksLists[p])}
             h == HighestReady(k)
  <1>1. k \in KernelType /\ top \in Priorities /\ top \in Nat
    BY Fields, Constants DEF KernelGood
  <1>2. \A p \in Priorities : ~listLIST_IS_EMPTY(k.xReadyTasksLists[p])
                               <=> Items(k.xReadyTasksLists[p]) # {}
    BY <1>1, Fields, EmptyItems
  <1>3. 0..top \subseteq Priorities
    BY <1>1, SchedulerAssumption DEF Priorities
  <1>4. \A p \in Priorities : Items(k.xReadyTasksLists[p]) # {} => p \in 0..top
    <2>1. \A p \in Priorities : Items(k.xReadyTasksLists[p]) # {} => p <= top
      BY DEF KernelGood
    <2> HIDE DEF top
    <2> QED BY <1>1, <2>1, Constants
  <1>5. \A p \in Priorities : Items(k.xReadyTasksLists[p]) # {} <=> p \in T
    BY <1>2, <1>3, <1>4
  <1>6. T # {} /\ T \in SUBSET (0..top)
    BY <1>5 DEF ReadyItems
  <1>7. h = CHOOSE p \in T : \A r \in T : r <= p
    BY <1>6 DEF HighestReady
  <1> HIDE DEF T, h
  <1>8. \E p \in T : \A r \in T : r <= p
    BY <1>1, <1>6, GreatestNat
  <1>9. h \in T /\ \A r \in T : r <= h
    BY <1>7, <1>8
  <1> QED BY <1>3, <1>5, <1>6, <1>9 DEF h

\* vTaskSwitchContext changes no list but its cursor, and the task it selects
\* is ready and no ready task has a higher priority.
LEMMA SwitchGood ==
  ASSUME NEW k, KernelGood(k), ReadyItems(k) # {}
  PROVE  \E c \in ReadyItems(k) :
           /\ Becomes(k, vTaskSwitchContext(k), ReadyItems(k), BlockedItems(k),
                      c, k.uxPriority)
           /\ \A u \in ReadyItems(k) : k.uxPriority[u] <= k.uxPriority[c]
  <1> DEFINE p == HighestReady(k)
             list == listGET_OWNER_OF_NEXT_ENTRY(k.xReadyTasksLists[p])
             c == list.index
             ready == [k.xReadyTasksLists EXCEPT ![p] = list]
             j == vTaskSwitchContext(k)
  <1>1. /\ p \in Priorities
        /\ Items(k.xReadyTasksLists[p]) # {}
        /\ \A r \in Priorities : Items(k.xReadyTasksLists[r]) # {} => r <= p
    BY HighestReadyProps
  <1>2. k \in KernelType /\ k.xReadyTasksLists \in [Priorities -> ListsOf(AllTasks)]
    BY Fields DEF KernelGood
  <1> HIDE DEF p
  <1>3. /\ list \in ListsOf(AllTasks)
        /\ Items(list) = Items(k.xReadyTasksLists[p])
        /\ c \in Items(k.xReadyTasksLists[p])
    BY <1>1, <1>2, Constants, NextEntryProps
  <1>4. c \in AllTasks /\ c # xListEnd
    BY <1>1, <1>2, <1>3, ListFacts, Constants
  <1>5. j = [k EXCEPT !.uxTopReadyPriority = p, !.xReadyTasksLists = ready,
                      !.pxCurrentTCB = c]
    BY <1>4 DEF vTaskSwitchContext, p, KernelType
  <1> HIDE DEF list, c, j
  <1>6. ready \in [Priorities -> ListsOf(AllTasks)]
        /\ \A r \in Priorities : Items(ready[r]) = Items(k.xReadyTasksLists[r])
    BY <1>1, <1>2, <1>3
  <1> HIDE DEF ready
  <1>7. /\ j \in KernelType
        /\ j.pxCurrentTCB = c
        /\ j.xReadyTasksLists = ready
        /\ j.uxTopReadyPriority = p
        /\ j.xDelayedTaskList = k.xDelayedTaskList
        /\ j.xSuspendedTaskList = k.xSuspendedTaskList
        /\ j.xEventLists = k.xEventLists
        /\ j.uxPriority = k.uxPriority
        /\ j.xSchedulerRunning = k.xSchedulerRunning
    BY <1>1, <1>2, <1>4, <1>5, <1>6 DEF KernelType
  <1>8. /\ DelayedItems(j) = DelayedItems(k)
        /\ SuspendedItems(j) = SuspendedItems(k)
        /\ BlockedItems(j) = BlockedItems(k)
    BY <1>7 DEF DelayedItems, SuspendedItems, BlockedItems
  <1>9. KernelGood(j)
    BY <1>1, <1>6, <1>7, <1>8 DEF KernelGood
  <1>10. ReadyItems(j) = ReadyItems(k)
    BY <1>6, <1>7 DEF ReadyItems
  <1>11. c \in ReadyItems(k) /\ k.uxPriority[c] = p
    BY <1>1, <1>3 DEF ReadyItems, KernelGood
  <1>12. \A u \in ReadyItems(k) : k.uxPriority[u] <= p
    BY <1>1 DEF ReadyItems, KernelGood
  <1> QED BY <1>7, <1>8, <1>9, <1>10, <1>11, <1>12 DEF Becomes, j

\* prvReprioritise changes one priority; a ready task stays ready, on the list
\* of its new priority.
LEMMA ReprioritiseGood ==
  ASSUME NEW k, KernelGood(k), NEW t \in AllTasks, NEW p \in Priorities
  PROVE  Becomes(k, prvReprioritise(k, t, p), ReadyItems(k), BlockedItems(k),
                 k.pxCurrentTCB, [k.uxPriority EXCEPT ![t] = p])
  <1> DEFINE priority == [k.uxPriority EXCEPT ![t] = p]
  <1>0. k \in KernelType /\ k.uxPriority \in [AllTasks -> Priorities]
    BY Fields DEF KernelGood
  <1>1. /\ priority \in [AllTasks -> Priorities]
        /\ priority[t] = p
        /\ \A x \in AllTasks : x # t => priority[x] = k.uxPriority[x]
    BY <1>0
  <1>2. CASE t \in Items(k.xReadyTasksLists[k.uxPriority[t]])
    <2> DEFINE k1 == RemoveStateItem(k, t)
               k2 == [k1 EXCEPT !.uxPriority = priority]
               j  == prvAddTaskToReadyList(k2, t)
    <2>1. /\ k1 \in KernelType
          /\ SameButStateLists(k, k1)
          /\ \A r \in Priorities :
               Items(k1.xReadyTasksLists[r]) = Items(k.xReadyTasksLists[r]) \ {t}
          /\ DelayedItems(k1) = DelayedItems(k) \ {t}
          /\ SuspendedItems(k1) = SuspendedItems(k) \ {t}
      BY <1>0, RemoveStateProps
    <2>2. prvReprioritise(k, t, p) = j
      BY <1>2, <2>1 DEF prvReprioritise, SameButStateLists
    <2> HIDE DEF k1, priority
    <2>3. /\ k2 \in KernelType
          /\ k2.uxPriority = priority
          /\ k2.pxCurrentTCB = k1.pxCurrentTCB
          /\ k2.xSchedulerRunning = k1.xSchedulerRunning
          /\ k2.uxTopReadyPriority = k1.uxTopReadyPriority
          /\ k2.xReadyTasksLists = k1.xReadyTasksLists
          /\ k2.xDelayedTaskList = k1.xDelayedTaskList
          /\ k2.xSuspendedTaskList = k1.xSuspendedTaskList
          /\ k2.xEventLists = k1.xEventLists
      BY <1>1, <2>1 DEF KernelType
    <2> HIDE DEF k2
    <2>4. t \notin Items(k2.xReadyTasksLists[k2.uxPriority[t]])
      BY <1>1, <2>1, <2>3
    <2>5. /\ j \in KernelType
          /\ j.pxCurrentTCB = k2.pxCurrentTCB
          /\ j.xDelayedTaskList = k2.xDelayedTaskList
          /\ j.xSuspendedTaskList = k2.xSuspendedTaskList
          /\ j.xEventLists = k2.xEventLists
          /\ j.xSchedulerRunning = k2.xSchedulerRunning
          /\ j.uxPriority = k2.uxPriority
          /\ j.uxTopReadyPriority >= k2.uxTopReadyPriority
          /\ j.uxTopReadyPriority >= k2.uxPriority[t]
          /\ \A r \in Priorities :
               Items(j.xReadyTasksLists[r])
                 = IF r = k2.uxPriority[t] THEN Items(k2.xReadyTasksLists[r]) \cup {t}
                                           ELSE Items(k2.xReadyTasksLists[r])
      <3>1. AddedReady(k2, j, t)
        BY <2>3, <2>4, AddReadyProps
      <3> HIDE DEF j
      <3> QED BY ONLY <3>1 DEF AddedReady
    <2> HIDE DEF j
    <2>6. t \notin DelayedItems(k) /\ t \notin SuspendedItems(k)
      BY <1>0, <1>2 DEF KernelGood
    <2>7. /\ DelayedItems(j) = DelayedItems(k)
          /\ SuspendedItems(j) = SuspendedItems(k)
          /\ BlockedItems(j) = BlockedItems(k)
      BY <2>1, <2>3, <2>5, <2>6 DEF DelayedItems, SuspendedItems, BlockedItems
    <2>8. ASSUME NEW r \in Priorities, NEW x
          PROVE  x \in Items(j.xReadyTasksLists[r]) <=>
                   \/ x # t /\ x \in Items(k.xReadyTasksLists[r])
                   \/ x = t /\ r = p
      <3>1. k2.uxPriority[t] = p
        BY <1>1, <2>3
      <3>2. Items(k2.xReadyTasksLists[r]) = Items(k.xReadyTasksLists[r]) \ {t}
        BY <2>1, <2>3
      <3>3. CASE r = p
        <4>1. Items(j.xReadyTasksLists[r]) = Items(k2.xReadyTasksLists[r]) \cup {t}
          BY <2>5, <3>1, <3>3
        <4> QED BY <3>2, <3>3, <4>1
      <3>4. CASE r # p
        <4>1. Items(j.xReadyTasksLists[r]) = Items(k2.xReadyTasksLists[r])
          BY <2>5, <3>1, <3>4
        <4> QED BY <3>2, <3>4, <4>1
      <3> QED BY <3>3, <3>4
    <2>9. /\ j.uxTopReadyPriority \in Nat /\ k.uxTopReadyPriority \in Nat
          /\ Priorities \subseteq Nat
      BY <1>0, <2>5, Fields, Constants
    <2>10. j.uxTopReadyPriority >= k.uxTopReadyPriority /\ j.uxTopReadyPriority >= p
      BY <1>1, <2>1, <2>3, <2>5 DEF SameButStateLists
    <2>11. \A r \in Priorities : \A x \in Items(j.xReadyTasksLists[r]) :
             r <= j.uxTopReadyPriority
      BY <2>8, <2>9, <2>10 DEF KernelGood
    <2>12. \A r \in Priorities : \A x \in Items(k.xReadyTasksLists[r]) : x \in AllTasks
      BY <1>0, Fields, ListFacts
    <2>13. \A r \in Priorities : \A x \in Items(j.xReadyTasksLists[r]) :
             j.uxPriority[x] = r
      BY <1>1, <2>3, <2>5, <2>8, <2>12, SMTT(20) DEF KernelGood
    <2>14. j.xEventLists = k.xEventLists
      BY <2>1, <2>3, <2>5 DEF SameButStateLists
    <2>15. KernelGood(j)
      BY <2>5, <2>6, <2>7, <2>8, <2>11, <2>13, <2>14 DEF KernelGood
    <2>16. ReadyItems(j) = ReadyItems(k)
      BY <1>0, <1>2, <2>8 DEF ReadyItems
    <2> QED BY <2>1, <2>2, <2>3, <2>5, <2>7, <2>15, <2>16
            DEF Becomes, SameButStateLists, priority
  <1>3. CASE t \notin Items(k.xReadyTasksLists[k.uxPriority[t]])
    <2> DEFINE j == [k EXCEPT !.uxPriority = priority]
    <2>1. prvReprioritise(k, t, p) = j
      BY <1>3 DEF prvReprioritise
    <2> HIDE DEF priority
    <2>2. /\ j \in KernelType
          /\ j.uxPriority = priority
          /\ j.pxCurrentTCB = k.pxCurrentTCB
          /\ j.xSchedulerRunning = k.xSchedulerRunning
          /\ j.uxTopReadyPriority = k.uxTopReadyPriority
          /\ j.xReadyTasksLists = k.xReadyTasksLists
          /\ j.xDelayedTaskList = k.xDelayedTaskList
          /\ j.xSuspendedTaskList = k.xSuspendedTaskList
          /\ j.xEventLists = k.xEventLists
      BY <1>0, <1>1 DEF KernelType
    <2> HIDE DEF j
    <2>3. \A r \in Priorities : \A x \in Items(k.xReadyTasksLists[r]) :
            x \in AllTasks /\ x # t
      BY <1>0, <1>3, Fields, ListFacts DEF KernelGood
    <2>4. /\ DelayedItems(j) = DelayedItems(k)
          /\ SuspendedItems(j) = SuspendedItems(k)
          /\ BlockedItems(j) = BlockedItems(k)
          /\ ReadyItems(j) = ReadyItems(k)
      BY <2>2 DEF DelayedItems, SuspendedItems, BlockedItems, ReadyItems
    <2>5. KernelGood(j)
      BY <1>1, <2>2, <2>3, <2>4 DEF KernelGood
    <2> QED BY <2>1, <2>2, <2>4, <2>5 DEF Becomes, priority
  <1> QED BY <1>2, <1>3
\* The task that runs leaves its ready list.
LEMMA LeaveReady ==
  ASSUME NEW k, KernelGood(k), NEW t \in ReadyItems(k)
  PROVE  LET j == RemoveStateItem(k, t)
         IN  /\ j \in KernelType
             /\ SameButStateLists(k, j)
             /\ \A p \in Priorities :
                  Items(j.xReadyTasksLists[p]) = Items(k.xReadyTasksLists[p]) \ {t}
             /\ DelayedItems(j) = DelayedItems(k) /\ t \notin DelayedItems(k)
             /\ SuspendedItems(j) = SuspendedItems(k) /\ t \notin SuspendedItems(k)
             /\ ReadyItems(j) = ReadyItems(k) \ {t}
  <1> DEFINE j == RemoveStateItem(k, t)
  <1>0. k \in KernelType
    BY DEF KernelGood
  <1>1. /\ j \in KernelType
        /\ SameButStateLists(k, j)
        /\ \A p \in Priorities :
             Items(j.xReadyTasksLists[p]) = Items(k.xReadyTasksLists[p]) \ {t}
        /\ DelayedItems(j) = DelayedItems(k) \ {t}
        /\ SuspendedItems(j) = SuspendedItems(k) \ {t}
    BY <1>0, RemoveStateProps
  <1>2. t \notin DelayedItems(k) /\ t \notin SuspendedItems(k)
    BY GoodMembers DEF BlockedItems
  <1> HIDE DEF j
  <1>3. ReadyItems(j) = ReadyItems(k) \ {t}
    BY <1>1 DEF ReadyItems
  <1> QED BY <1>1, <1>2, <1>3 DEF j

\* The critical section of vTaskDelay: from ready to delayed.
LEMMA DelayGood ==
  ASSUME NEW k, KernelGood(k), NEW t \in ReadyItems(k), NEW n \in Ticks
  PROVE  Becomes(k, AddToDelayedList(RemoveStateItem(k, t), t, n),
                 ReadyItems(k) \ {t}, BlockedItems(k) \cup {t},
                 k.pxCurrentTCB, k.uxPriority)
  <1> DEFINE k1 == RemoveStateItem(k, t)
             j == AddToDelayedList(k1, t, n)
             value == [k1.xItemValue EXCEPT ![t] = TickPlus(k1, n)]
             list == vListInsert(k1.xDelayedTaskList, value, t)
  <1>0. k \in KernelType /\ t \in AllTasks
    BY GoodMembers DEF KernelGood
  <1>1. /\ k1 \in KernelType
        /\ SameButStateLists(k, k1)
        /\ \A p \in Priorities :
             Items(k1.xReadyTasksLists[p]) = Items(k.xReadyTasksLists[p]) \ {t}
        /\ DelayedItems(k1) = DelayedItems(k) /\ t \notin DelayedItems(k)
        /\ SuspendedItems(k1) = SuspendedItems(k) /\ t \notin SuspendedItems(k)
        /\ ReadyItems(k1) = ReadyItems(k) \ {t}
    BY LeaveReady
  <1> HIDE DEF k1
  <1>2. /\ j \in KernelType
        /\ j = [k1 EXCEPT !.xItemValue = value, !.xDelayedTaskList = list]
        /\ DelayedItems(j) = DelayedItems(k1) \cup {t}
    BY <1>0, <1>1, AddDelayedProps
  <1> HIDE DEF value, list, j
  <1>3. /\ j.pxCurrentTCB = k.pxCurrentTCB
        /\ j.uxPriority = k.uxPriority
        /\ j.xSchedulerRunning = k.xSchedulerRunning
        /\ j.uxTopReadyPriority = k.uxTopReadyPriority
        /\ j.xReadyTasksLists = k1.xReadyTasksLists
        /\ j.xSuspendedTaskList = k1.xSuspendedTaskList
        /\ j.xEventLists = k.xEventLists
    BY <1>1, <1>2 DEF KernelType, SameButStateLists
  <1>4. /\ SuspendedItems(j) = SuspendedItems(k)
        /\ DelayedItems(j) = DelayedItems(k) \cup {t}
        /\ BlockedItems(j) = BlockedItems(k) \cup {t}
        /\ ReadyItems(j) = ReadyItems(k) \ {t}
    BY <1>1, <1>2, <1>3 DEF SuspendedItems, BlockedItems, ReadyItems
  <1>5. KernelGood(j)
    BY <1>1, <1>2, <1>3, <1>4 DEF KernelGood
  <1> QED BY <1>3, <1>4, <1>5 DEF Becomes, j, k1

\* vTaskPlaceOnEventList: the running task goes onto the event list and, by
\* xTicksToWait, onto the delayed or the suspended list.
LEMMA PlaceGood ==
  ASSUME NEW k, KernelGood(k), k.pxCurrentTCB \in ReadyItems(k),
         NEW e \in EventLists, NEW n \in Ticks
  PROVE  Becomes(k, vTaskPlaceOnEventList(k, e, n), ReadyItems(k) \ {k.pxCurrentTCB},
                 BlockedItems(k) \cup {k.pxCurrentTCB}, k.pxCurrentTCB, k.uxPriority)
  <1> DEFINE t == k.pxCurrentTCB
             k1 == RemoveStateItem(k, t)
             place == vListInsert(k1.xEventLists[e], xEventItemValue, t)
             events == [k1.xEventLists EXCEPT ![e] = place]
             k2 == [k1 EXCEPT !.xEventLists = events]
             j == vTaskPlaceOnEventList(k, e, n)
  <1>0. k \in KernelType /\ t \in AllTasks /\ t \in ReadyItems(k)
    BY GoodMembers DEF KernelGood
  <1> HIDE DEF t
  <1>1. /\ k1 \in KernelType
        /\ SameButStateLists(k, k1)
        /\ \A p \in Priorities :
             Items(k1.xReadyTasksLists[p]) = Items(k.xReadyTasksLists[p]) \ {t}
        /\ DelayedItems(k1) = DelayedItems(k) /\ t \notin DelayedItems(k)
        /\ SuspendedItems(k1) = SuspendedItems(k) /\ t \notin SuspendedItems(k)
        /\ ReadyItems(k1) = ReadyItems(k) \ {t}
    BY <1>0, LeaveReady
  <1>2. j = IF n = portMAX_DELAY
            THEN [k2 EXCEPT !.xSuspendedTaskList = vListInsertEnd(@, t)]
            ELSE AddToDelayedList(k2, t, n)
    BY DEF vTaskPlaceOnEventList, t
  <1> HIDE DEF k1, j
  <1>3. /\ k1.xEventLists = k.xEventLists
        /\ k1.xEventLists \in [EventLists -> ListsOf(AllTasks)]
        /\ \A f \in EventLists : t \notin Items(k.xEventLists[f])
    BY <1>0, <1>1, Fields, GoodMembers DEF SameButStateLists, KernelGood
  <1>4. /\ place \in ListsOf(AllTasks)
        /\ Items(place) = Items(k.xEventLists[e]) \cup {t}
    BY <1>0, <1>3, EventItemValue, InsertProps
  <1> HIDE DEF place
  <1>5. /\ events \in [EventLists -> ListsOf(AllTasks)]
        /\ events[e] = place
        /\ \A f \in EventLists : f # e => events[f] = k.xEventLists[f]
    BY <1>3, <1>4
  <1> HIDE DEF events
  <1>6. /\ k2 \in KernelType
        /\ k2.xEventLists = events
        /\ k2.pxCurrentTCB = k.pxCurrentTCB
        /\ k2.uxPriority = k.uxPriority
        /\ k2.xSchedulerRunning = k.xSchedulerRunning
        /\ k2.uxTopReadyPriority = k.uxTopReadyPriority
        /\ k2.xReadyTasksLists = k1.xReadyTasksLists
        /\ k2.xDelayedTaskList = k1.xDelayedTaskList
        /\ k2.xSuspendedTaskList = k1.xSuspendedTaskList
    BY <1>1, <1>5 DEF KernelType, SameButStateLists
  <1> HIDE DEF k2
  <1>7. DelayedItems(k2) = DelayedItems(k) /\ SuspendedItems(k2) = SuspendedItems(k)
    BY <1>1, <1>6 DEF DelayedItems, SuspendedItems
  <1>8. /\ j \in KernelType
        /\ j.xEventLists = events
        /\ j.pxCurrentTCB = k.pxCurrentTCB
        /\ j.uxPriority = k.uxPriority
        /\ j.xSchedulerRunning = k.xSchedulerRunning
        /\ j.uxTopReadyPriority = k.uxTopReadyPriority
        /\ j.xReadyTasksLists = k1.xReadyTasksLists
        /\ \/ /\ DelayedItems(j) = DelayedItems(k)
              /\ SuspendedItems(j) = SuspendedItems(k) \cup {t}
           \/ /\ DelayedItems(j) = DelayedItems(k) \cup {t}
              /\ SuspendedItems(j) = SuspendedItems(k)
    <2>1. CASE n = portMAX_DELAY
      <3> DEFINE list == vListInsertEnd(k2.xSuspendedTaskList, t)
      <3>1. list \in ListsOf(AllTasks) /\ Items(list) = SuspendedItems(k) \cup {t}
        BY <1>0, <1>1, <1>6, <1>7, Fields, InsertEndProps, SMTT(20) DEF SuspendedItems
      <3>2. j = [k2 EXCEPT !.xSuspendedTaskList = list]
        BY <1>2, <2>1
      <3> HIDE DEF list
      <3>3. /\ j \in KernelType
            /\ j.xEventLists = k2.xEventLists
            /\ j.pxCurrentTCB = k2.pxCurrentTCB
            /\ j.uxPriority = k2.uxPriority
            /\ j.xSchedulerRunning = k2.xSchedulerRunning
            /\ j.uxTopReadyPriority = k2.uxTopReadyPriority
            /\ j.xReadyTasksLists = k2.xReadyTasksLists
            /\ j.xDelayedTaskList = k2.xDelayedTaskList
            /\ j.xSuspendedTaskList = list
        BY <1>6, <3>1, <3>2 DEF KernelType
      <3>4. DelayedItems(j) = DelayedItems(k) /\ SuspendedItems(j) = SuspendedItems(k) \cup {t}
        BY <1>7, <3>1, <3>3 DEF DelayedItems, SuspendedItems
      <3> QED BY <1>6, <3>3, <3>4
    <2>2. CASE n # portMAX_DELAY
      <3> DEFINE value == [k2.xItemValue EXCEPT ![t] = TickPlus(k2, n)]
                 list == vListInsert(k2.xDelayedTaskList, value, t)
      <3>1. j = AddToDelayedList(k2, t, n)
        BY <1>2, <2>2
      <3>2. /\ j \in KernelType
            /\ j = [k2 EXCEPT !.xItemValue = value, !.xDelayedTaskList = list]
            /\ DelayedItems(j) = DelayedItems(k2) \cup {t}
        BY <1>0, <1>1, <1>6, <1>7, <3>1, AddDelayedProps
      <3> HIDE DEF value, list
      <3>3. /\ j.xEventLists = k2.xEventLists
            /\ j.pxCurrentTCB = k2.pxCurrentTCB
            /\ j.uxPriority = k2.uxPriority
            /\ j.xSchedulerRunning = k2.xSchedulerRunning
            /\ j.uxTopReadyPriority = k2.uxTopReadyPriority
            /\ j.xReadyTasksLists = k2.xReadyTasksLists
            /\ j.xSuspendedTaskList = k2.xSuspendedTaskList
        BY <1>6, <3>2 DEF KernelType
      <3>4. SuspendedItems(j) = SuspendedItems(k)
        BY <1>7, <3>3 DEF SuspendedItems
      <3> QED BY <1>6, <1>7, <3>2, <3>3, <3>4
    <2> QED BY <2>1, <2>2
  <1>9. ReadyItems(j) = ReadyItems(k) \ {t} /\ BlockedItems(j) = BlockedItems(k) \cup {t}
    BY <1>1, <1>8 DEF ReadyItems, BlockedItems
  <1>10. \A f \in EventLists : \A x : x \in Items(j.xEventLists[f]) <=>
            x \in Items(k.xEventLists[f]) \/ (x = t /\ f = e)
    BY <1>4, <1>5, <1>8
  <1>11. /\ \A p \in Priorities : \A x \in Items(j.xReadyTasksLists[p]) :
             /\ j.uxPriority[x] = p
             /\ p <= j.uxTopReadyPriority
             /\ x \notin DelayedItems(j)
             /\ x \notin SuspendedItems(j)
         /\ \A x \in DelayedItems(j) : x \notin SuspendedItems(j)
    BY <1>1, <1>8, SMTT(20) DEF KernelGood
  <1>12. \A f \in EventLists : \A x \in Items(j.xEventLists[f]) :
           /\ x \in BlockedItems(j)
           /\ \A g \in EventLists : x \in Items(j.xEventLists[g]) => f = g
    BY <1>3, <1>9, <1>10 DEF KernelGood
  <1>13. \A x \in SuspendedItems(j) : \E f \in EventLists : x \in Items(j.xEventLists[f])
    BY <1>8, <1>10 DEF KernelGood
  <1>14. KernelGood(j)
    BY <1>8, <1>11, <1>12, <1>13 DEF KernelGood
  <1> QED BY <1>8, <1>9, <1>14 DEF Becomes, j, t
\* A step that changes no list, no priority and no running task keeps the
\* kernel good; the flags and the tick counter may change.
LEMMA SameGood ==
  ASSUME NEW k, KernelGood(k), NEW j \in KernelType,
         j.pxCurrentTCB = k.pxCurrentTCB,
         j.xReadyTasksLists = k.xReadyTasksLists,
         j.xDelayedTaskList = k.xDelayedTaskList,
         j.xSuspendedTaskList = k.xSuspendedTaskList,
         j.xEventLists = k.xEventLists,
         j.uxTopReadyPriority = k.uxTopReadyPriority,
         j.uxPriority = k.uxPriority
  PROVE  /\ KernelGood(j)
         /\ ReadyItems(j) = ReadyItems(k)
         /\ BlockedItems(j) = BlockedItems(k)
  <1>1. /\ DelayedItems(j) = DelayedItems(k)
        /\ SuspendedItems(j) = SuspendedItems(k)
        /\ BlockedItems(j) = BlockedItems(k)
        /\ ReadyItems(j) = ReadyItems(k)
    BY DEF DelayedItems, SuspendedItems, BlockedItems, ReadyItems
  <1> QED BY <1>1 DEF KernelGood

\* The empty lists are good.
LEMMA InitGood ==
  /\ KernelGood(prvInitialiseTaskLists)
  /\ ReadyItems(prvInitialiseTaskLists) = {}
  /\ BlockedItems(prvInitialiseTaskLists) = {}
  <1> DEFINE k == prvInitialiseTaskLists
  <1>1. EmptyList \in ListsOf(AllTasks) /\ Items(EmptyList) = {}
    BY EmptyListProps
  <1>2. /\ k.pxCurrentTCB = NULL
        /\ k.xReadyTasksLists = [p \in Priorities |-> EmptyList]
        /\ k.xDelayedTaskList = EmptyList
        /\ k.xSuspendedTaskList = EmptyList
        /\ k.xEventLists = [e \in EventLists |-> EmptyList]
    BY DEF prvInitialiseTaskLists
  <1>3. k \in KernelType
    BY <1>1, BasePriority, Constants DEF prvInitialiseTaskLists, KernelType
  <1> HIDE DEF k
  <1>4. /\ DelayedItems(k) = {} /\ SuspendedItems(k) = {}
        /\ BlockedItems(k) = {} /\ ReadyItems(k) = {}
        /\ \A p \in Priorities : Items(k.xReadyTasksLists[p]) = {}
        /\ \A e \in EventLists : Items(k.xEventLists[e]) = {}
    BY <1>1, <1>2 DEF DelayedItems, SuspendedItems, BlockedItems, ReadyItems
  <1>5. KernelGood(k)
    BY <1>3, <1>4 DEF KernelGood
  <1> QED BY <1>4, <1>5 DEF k

\* The critical section of xTaskCreate makes a new task ready; the first task
\* created becomes the running one.
LEMMA AddNewGood ==
  ASSUME NEW k, KernelGood(k), NEW t \in AllTasks,
         t \notin ReadyItems(k), t \notin BlockedItems(k)
  PROVE  Becomes(k, AddNewTask(k, t), ReadyItems(k) \cup {t}, BlockedItems(k),
                 IF k.pxCurrentTCB = NULL THEN t ELSE k.pxCurrentTCB, k.uxPriority)
  <1> DEFINE c == IF k.pxCurrentTCB = NULL THEN t ELSE k.pxCurrentTCB
             k1 == [k EXCEPT !.pxCurrentTCB = c]
             j == prvAddTaskToReadyList(k1, t)
  <1>0. k \in KernelType /\ c \in AllTasks /\ k.uxPriority[t] \in Priorities
    BY Fields DEF KernelGood
  <1>1. AddNewTask(k, t) = j
    BY DEF AddNewTask
  <1> HIDE DEF c
  <1>2. /\ k1 \in KernelType
        /\ k1.pxCurrentTCB = c
        /\ k1.uxPriority = k.uxPriority
        /\ k1.xSchedulerRunning = k.xSchedulerRunning
        /\ k1.uxTopReadyPriority = k.uxTopReadyPriority
        /\ k1.xReadyTasksLists = k.xReadyTasksLists
        /\ k1.xDelayedTaskList = k.xDelayedTaskList
        /\ k1.xSuspendedTaskList = k.xSuspendedTaskList
        /\ k1.xEventLists = k.xEventLists
    BY <1>0 DEF KernelType
  <1> HIDE DEF k1
  <1>3. t \notin Items(k1.xReadyTasksLists[k1.uxPriority[t]])
    BY <1>0, <1>2 DEF ReadyItems
  <1>4. /\ j \in KernelType
        /\ j.pxCurrentTCB = k1.pxCurrentTCB
        /\ j.xDelayedTaskList = k1.xDelayedTaskList
        /\ j.xSuspendedTaskList = k1.xSuspendedTaskList
        /\ j.xEventLists = k1.xEventLists
        /\ j.xSchedulerRunning = k1.xSchedulerRunning
        /\ j.uxPriority = k1.uxPriority
        /\ j.uxTopReadyPriority >= k1.uxTopReadyPriority
        /\ j.uxTopReadyPriority >= k1.uxPriority[t]
        /\ \A p \in Priorities :
             Items(j.xReadyTasksLists[p])
               = IF p = k1.uxPriority[t] THEN Items(k1.xReadyTasksLists[p]) \cup {t}
                                         ELSE Items(k1.xReadyTasksLists[p])
    <2>1. AddedReady(k1, j, t)
      BY <1>2, <1>3, AddReadyProps
    <2> HIDE DEF j
    <2> QED BY ONLY <2>1 DEF AddedReady
  <1> HIDE DEF j
  <1>5. /\ DelayedItems(j) = DelayedItems(k)
        /\ SuspendedItems(j) = SuspendedItems(k)
        /\ BlockedItems(j) = BlockedItems(k)
    BY <1>2, <1>4 DEF DelayedItems, SuspendedItems, BlockedItems
  <1>6. \A p \in Priorities : \A x : x \in Items(j.xReadyTasksLists[p]) <=>
          x \in Items(k.xReadyTasksLists[p]) \/ (x = t /\ p = k.uxPriority[t])
    BY <1>2, <1>4
  <1>7. ReadyItems(j) = ReadyItems(k) \cup {t}
    BY <1>0, <1>6 DEF ReadyItems
  <1>8. /\ j.uxTopReadyPriority \in Nat /\ k.uxTopReadyPriority \in Nat
        /\ Priorities \subseteq Nat
    BY <1>0, <1>4, Fields, Constants
  <1>9. \A p \in Priorities : \A x \in Items(j.xReadyTasksLists[p]) :
          p <= j.uxTopReadyPriority
    BY <1>2, <1>4, <1>6, <1>8 DEF KernelGood
  <1>10. t \notin DelayedItems(k) /\ t \notin SuspendedItems(k)
    BY DEF BlockedItems
  <1>11. KernelGood(j)
    <2>1. \A p \in Priorities : \A x \in Items(j.xReadyTasksLists[p]) :
            /\ j.uxPriority[x] = p
            /\ x \notin DelayedItems(j) /\ x \notin SuspendedItems(j)
      BY <1>2, <1>4, <1>5, <1>6, <1>10 DEF KernelGood
    <2>2. \A x \in DelayedItems(j) : x \notin SuspendedItems(j)
      BY <1>5 DEF KernelGood
    <2>3. j.xEventLists = k.xEventLists
      BY <1>2, <1>4
    <2> QED BY <1>4, <1>5, <1>9, <2>1, <2>2, <2>3 DEF KernelGood
  <1> QED BY <1>1, <1>2, <1>4, <1>5, <1>7, <1>11 DEF Becomes, c

\* xTaskRemoveFromEventList wakes at most one task, which was blocked.
LEMMA WakeGood ==
  ASSUME NEW k, KernelGood(k), NEW e \in EventLists
  PROVE  \E woken \in SUBSET BlockedItems(k) :
           Becomes(k, xTaskRemoveFromEventList(k, e), ReadyItems(k) \cup woken,
                   BlockedItems(k) \ woken, k.pxCurrentTCB, k.uxPriority)
  <1>1. CASE listLIST_IS_EMPTY(k.xEventLists[e])
    <2>1. xTaskRemoveFromEventList(k, e) = k
      BY <1>1 DEF xTaskRemoveFromEventList
    <2>2. Becomes(k, k, ReadyItems(k) \cup {}, BlockedItems(k) \ {},
                  k.pxCurrentTCB, k.uxPriority)
      BY DEF Becomes
    <2> QED BY <2>1, <2>2
  <1>2. CASE ~listLIST_IS_EMPTY(k.xEventLists[e])
    <2> DEFINE t == k.xEventLists[e].items[1]
    <2>1. k.xEventLists[e] \in ListsOf(AllTasks)
      BY Fields DEF KernelGood
    <2>2. t \in BlockedItems(k)
      BY <1>2, <2>1, EmptyItems DEF KernelGood
    <2>3. xTaskRemoveFromEventList(k, e) = MakeReady(k, t)
      BY <1>2 DEF xTaskRemoveFromEventList
    <2> HIDE DEF t
    <2> QED BY <2>2, <2>3, MakeReadyGood
  <1> QED BY <1>1, <1>2

\* vTaskPriorityInherit raises at most the priority of the holder.
LEMMA InheritGood ==
  ASSUME NEW k, KernelGood(k), k.pxCurrentTCB \in AllTasks,
         NEW h \in AllTasks \cup {NULL}
  PROVE  \E priority \in [AllTasks -> Priorities] :
           /\ Becomes(k, vTaskPriorityInherit(k, h), ReadyItems(k), BlockedItems(k),
                      k.pxCurrentTCB, priority)
           /\ \A x \in AllTasks : x # h => priority[x] = k.uxPriority[x]
           /\ h \in AllTasks => priority[h] >= k.uxPriority[h]
  <1>0. k \in KernelType /\ k.uxPriority \in [AllTasks -> Priorities]
    BY Fields DEF KernelGood
  <1>1. CASE /\ h # NULL
             /\ k.xInheritEnabled
             /\ k.uxPriority[h] < k.uxPriority[k.pxCurrentTCB]
    <2> DEFINE p == k.uxPriority[k.pxCurrentTCB]
               priority == [k.uxPriority EXCEPT ![h] = p]
    <2>1. h \in AllTasks /\ p \in Priorities /\ k.uxPriority[h] \in Priorities
      BY <1>0, <1>1
    <2>2. vTaskPriorityInherit(k, h) = prvReprioritise(k, h, p)
      BY <1>1 DEF vTaskPriorityInherit
    <2>3. k.uxPriority[h] < p
      BY <1>1
    <2> HIDE DEF p
    <2>4. Becomes(k, vTaskPriorityInherit(k, h), ReadyItems(k), BlockedItems(k),
                  k.pxCurrentTCB, priority)
      BY <2>1, <2>2, ReprioritiseGood
    <2>5. /\ priority \in [AllTasks -> Priorities]
          /\ \A x \in AllTasks : x # h => priority[x] = k.uxPriority[x]
          /\ priority[h] = p
      BY <1>0, <2>1
    <2>6. p >= k.uxPriority[h]
      <3>1. p \in Nat /\ k.uxPriority[h] \in Nat
        BY <2>1, Constants
      <3> QED BY <2>3, <3>1
    <2> QED BY <2>4, <2>5, <2>6
  <1>2. CASE ~(/\ h # NULL
               /\ k.xInheritEnabled
               /\ k.uxPriority[h] < k.uxPriority[k.pxCurrentTCB])
    <2>1. vTaskPriorityInherit(k, h) = k
      BY <1>2 DEF vTaskPriorityInherit
    <2>2. \A x \in AllTasks : k.uxPriority[x] \in Nat
      BY <1>0, Constants
    <2>3. \A x \in AllTasks : k.uxPriority[x] >= k.uxPriority[x]
      BY <2>2
    <2> QED BY <1>0, <2>1, <2>3 DEF Becomes
  <1> QED BY <1>1, <1>2

\* vTaskPriorityDisinherit returns the holder to its base priority.
LEMMA DisinheritGood ==
  ASSUME NEW k, KernelGood(k), NEW h \in AllTasks \cup {NULL}
  PROVE  \E priority \in [AllTasks -> Priorities] :
           /\ Becomes(k, vTaskPriorityDisinherit(k, h), ReadyItems(k), BlockedItems(k),
                      k.pxCurrentTCB, priority)
           /\ \A x \in AllTasks : x # h => priority[x] = k.uxPriority[x]
           /\ h \in AllTasks => priority[h] = uxBasePriority(h)
  <1>0. k \in KernelType /\ k.uxPriority \in [AllTasks -> Priorities]
    BY Fields DEF KernelGood
  <1>1. CASE h # NULL /\ k.uxPriority[h] # uxBasePriority(h)
    <2> DEFINE p == uxBasePriority(h)
               priority == [k.uxPriority EXCEPT ![h] = p]
    <2>1. h \in AllTasks /\ p \in Priorities
      BY <1>1, BasePriority
    <2>2. vTaskPriorityDisinherit(k, h) = prvReprioritise(k, h, p)
      BY <1>1 DEF vTaskPriorityDisinherit
    <2> HIDE DEF p
    <2>3. Becomes(k, vTaskPriorityDisinherit(k, h), ReadyItems(k), BlockedItems(k),
                  k.pxCurrentTCB, priority)
      BY <2>1, <2>2, ReprioritiseGood
    <2>4. /\ priority \in [AllTasks -> Priorities]
          /\ \A x \in AllTasks : x # h => priority[x] = k.uxPriority[x]
          /\ priority[h] = p
      BY <1>0, <2>1
    <2> QED BY <2>3, <2>4 DEF p
  <1>2. CASE ~(h # NULL /\ k.uxPriority[h] # uxBasePriority(h))
    <2>1. vTaskPriorityDisinherit(k, h) = k
      BY <1>2 DEF vTaskPriorityDisinherit
    <2> QED BY <1>0, <1>2, <2>1, Constants DEF Becomes
  <1> QED BY <1>1, <1>2
==============================================================================
