----------------------------- MODULE PrioBitmap -----------------------------
(***************************************************************************)
(* kernel/prio_bitmap.c: the two-level bitmap of occupied priorities.  A   *)
(* 32-bit word is the set of the positions of its set bits.                *)
(***************************************************************************)
EXTENDS Integers

CONSTANT Prios    \* the priorities used, some of 0 .. FLINT_CFG_PRIO_COUNT - 1

WORD_BITS  == 32
PRIO_WORDS == 8   \* FLINT_CFG_PRIO_COUNT / FLINT_WORD_BITS
PRIO_COUNT == PRIO_WORDS * WORD_BITS

ASSUME PriosAssumption == Prios \subseteq 0..(PRIO_COUNT - 1)

VARIABLES summary, level1
bitmap == <<summary, level1>>

\* w >> k
Shr(w, k) == {b - k : b \in {x \in w : x >= k}}

\* How far one step of the search moves: by k if a bit of the mask k .. 2k - 1
\* is set.
StepBy(w, k) == IF w \cap (k..(2 * k - 1)) # {} THEN k ELSE 0

\* Mutant: the word is not shifted after the third step.
HighestUnshifted(w) ==
  LET p16 == StepBy(w, 16)   w16 == Shr(w, p16)
      p8  == StepBy(w16, 8)  w8  == Shr(w16, p8)
      p4  == StepBy(w8, 4)
      p2  == StepBy(w8, 2)   w2  == Shr(w8, p2)
  IN  p16 + p8 + p4 + p2 + StepBy(w2, 1)

\* The highest set bit, by binary search.
word_highest_bit(w) ==
  LET p16 == StepBy(w, 16)   w16 == Shr(w, p16)
      p8  == StepBy(w16, 8)  w8  == Shr(w16, p8)
      p4  == StepBy(w8, 4)   w4  == Shr(w8, p4)
      p2  == StepBy(w4, 2)   w2  == Shr(w4, p2)
  IN  p16 + p8 + p4 + p2 + StepBy(w2, 1)

flint_prio_bitmap_init ==
  /\ summary = {}
  /\ level1 = [w \in 0..(PRIO_WORDS - 1) |-> {}]

flint_prio_bitmap_set(prio) ==
  LET word == prio \div WORD_BITS
      bit  == prio % WORD_BITS
  IN  /\ level1' = [level1 EXCEPT ![word] = @ \cup {bit}]
      /\ summary' = summary \cup {word}

flint_prio_bitmap_clear(prio) ==
  LET word == prio \div WORD_BITS
      bit  == prio % WORD_BITS
  IN  /\ level1' = [level1 EXCEPT ![word] = @ \ {bit}]
      /\ summary' = IF level1'[word] = {} THEN summary \ {word} ELSE summary

flint_prio_bitmap_empty == summary = {}

flint_prio_bitmap_highest ==
  LET top_word == word_highest_bit(summary)
  IN  top_word * WORD_BITS + word_highest_bit(level1[top_word])

BitmapInit == flint_prio_bitmap_init
BitmapNext == \E p \in Prios : flint_prio_bitmap_set(p) \/ flint_prio_bitmap_clear(p)
BitmapSpec == BitmapInit /\ [][BitmapNext]_bitmap
-----------------------------------------------------------------------------
\* The priorities marked as occupied.
Occupied ==
  {p \in 0..(PRIO_COUNT - 1) : p % WORD_BITS \in level1[p \div WORD_BITS]}

\* The words hold bits of a word, and no other priority than those used.
BitmapTypeOK ==
  /\ summary \subseteq 0..(PRIO_WORDS - 1)
  /\ level1 \in [0..(PRIO_WORDS - 1) -> SUBSET (0..(WORD_BITS - 1))]

\* After any sequence of sets and clears the summary has a bit for exactly the
\* words that are not zero.
SummaryExact == summary = {w \in 0..(PRIO_WORDS - 1) : level1[w] # {}}

\* The search through the two levels finds the highest occupied priority, and
\* the empty test is true when there is none to find.
HighestIsMax ==
  IF flint_prio_bitmap_empty THEN Occupied = {}
  ELSE /\ flint_prio_bitmap_highest \in Occupied
       /\ \A p \in Occupied : p <= flint_prio_bitmap_highest
==============================================================================
