----------------------------- MODULE FlintProofs -----------------------------
(***************************************************************************)
(* The libraries with no concurrency of their own, for every value of      *)
(* their constants: capabilities are unforgeable, the binary search finds  *)
(* the highest set bit of each of the 2^32 words, which no exhaustive test *)
(* of the bitmap can cover, the PTP clock runs evenly at every rate, and   *)
(* the date it prints is right on every day.                               *)
(***************************************************************************)
EXTENDS Cap, PrioBitmap, PtpClock, Arithmetic

\* A step of the capability operations keeps the types.
LEMMA CapTypeStep == CapTypeOK /\ [CapNext]_cspace => CapTypeOK'
<1> SUFFICES ASSUME CapTypeOK, [CapNext]_cspace PROVE CapTypeOK'
  OBVIOUS
<1> USE CapAssumption
<1>1. ASSUME NEW cn \in CNodes, NEW s \in Slots, NEW cap \in Caps \cup {CAP_NULL}
      PROVE  Put(cn, s, cap) \in [CNodes -> [Slots -> Caps \cup {CAP_NULL}]]
  BY DEF CapTypeOK, Put
<1>2. ASSUME NEW scn \in CNodes, NEW src \in Slots, At(scn, src) # CAP_NULL,
             NEW mask \in SUBSET RightBits, NEW badge \in Badges
      PROVE  Derived(scn, src, mask, badge) \in Caps
  BY <1>2 DEF CapTypeOK, At, Derived, Caps
<1>3. ASSUME NEW cn \in CNodes, NEW s \in Slots, flint_cnode_delete(cn, s) PROVE CapTypeOK'
  BY <1>1, <1>3 DEF CapTypeOK, flint_cnode_delete
<1>4. ASSUME NEW cn \in CNodes, NEW s \in Slots, NEW cap \in BootCaps,
             flint_cnode_install(cn, s, cap)
      PROVE  CapTypeOK'
  BY <1>1, <1>4 DEF CapTypeOK, flint_cnode_install
<1>5. ASSUME NEW dcn \in CNodes, NEW scn \in CNodes, NEW dst \in Slots, NEW src \in Slots,
             flint_cnode_move(dcn, dst, scn, src)
      PROVE  CapTypeOK'
  BY <1>5 DEF CapTypeOK, flint_cnode_move, Put, At
<1>6. ASSUME NEW dcn \in CNodes, NEW scn \in CNodes, NEW dst \in Slots, NEW src \in Slots,
             NEW mask \in SUBSET RightBits, flint_cnode_copy(dcn, dst, scn, src, mask)
      PROVE  CapTypeOK'
  <2>1. At(scn, src) # CAP_NULL /\ At(scn, src).badge \in Badges
    BY <1>6 DEF CapTypeOK, flint_cnode_copy, derive_check, At, Caps
  <2> QED BY <1>1, <1>2, <1>6, <2>1 DEF CapTypeOK, flint_cnode_copy
<1>7. ASSUME NEW dcn \in CNodes, NEW scn \in CNodes, NEW dst \in Slots, NEW src \in Slots,
             NEW mask \in SUBSET RightBits, NEW badge \in Badges,
             flint_cnode_mint(dcn, dst, scn, src, mask, badge)
      PROVE  CapTypeOK'
  BY <1>1, <1>2, <1>7 DEF CapTypeOK, flint_cnode_mint, derive_check
<1>8. CASE UNCHANGED cspace
  BY <1>8 DEF CapTypeOK
<1> QED BY <1>3, <1>4, <1>5, <1>6, <1>7, <1>8 DEF CapNext

\* What copy and mint write attenuates their source.
LEMMA DerivedAttenuates ==
  ASSUME CapTypeOK, NEW scn \in CNodes, NEW src \in Slots, At(scn, src) # CAP_NULL,
         NEW mask, NEW badge,
         \/ badge = At(scn, src).badge
         \/ At(scn, src).type \in Badged /\ At(scn, src).badge = 0
  PROVE  Attenuates(Derived(scn, src, mask, badge), At(scn, src))
BY DEF Attenuates, Derived

\* What a step leaves in a slot: what was there, nothing, a capability from
\* boot, or an attenuation of one held before.
LEMMA SlotAfter ==
  ASSUME CapTypeOK, [CapNext]_cspace, NEW cn \in CNodes, NEW s \in Slots
  PROVE  \/ cspace'[cn][s] = At(cn, s)
         \/ cspace'[cn][s] = CAP_NULL
         \/ /\ At(cn, s) = CAP_NULL
            /\ \/ cspace'[cn][s] \in BootCaps
               \/ \E scn \in CNodes, src \in Slots :
                    At(scn, src) # CAP_NULL /\ Attenuates(cspace'[cn][s], At(scn, src))
<1> DEFINE Goal == \/ cspace'[cn][s] = At(cn, s)
                   \/ cspace'[cn][s] = CAP_NULL
                   \/ /\ At(cn, s) = CAP_NULL
                      /\ \/ cspace'[cn][s] \in BootCaps
                         \/ \E scn \in CNodes, src \in Slots :
                              /\ At(scn, src) # CAP_NULL
                              /\ Attenuates(cspace'[cn][s], At(scn, src))
<1>1. ASSUME NEW d \in CNodes, NEW t \in Slots, NEW cap, cspace' = Put(d, t, cap)
      PROVE  \/ d = cn /\ t = s /\ cspace'[cn][s] = cap
             \/ cspace'[cn][s] = At(cn, s)
  BY <1>1 DEF CapTypeOK, Put, At
<1>2. ASSUME NEW d \in CNodes, NEW t \in Slots, flint_cnode_delete(d, t) PROVE Goal
  BY <1>1, <1>2 DEF flint_cnode_delete
<1>3. ASSUME NEW d \in CNodes, NEW t \in Slots, NEW cap \in BootCaps,
             flint_cnode_install(d, t, cap)
      PROVE  Goal
  BY <1>1, <1>3 DEF flint_cnode_install
<1>4. ASSUME NEW dcn \in CNodes, NEW scn \in CNodes, NEW dst \in Slots, NEW src \in Slots,
             flint_cnode_move(dcn, dst, scn, src)
      PROVE  Goal
  <2>1. At(scn, src) # CAP_NULL /\ At(dcn, dst) = CAP_NULL
    BY <1>4 DEF flint_cnode_move, derive_check
  <2>2. Attenuates(At(scn, src), At(scn, src))
    BY DEF Attenuates
  <2>3. cspace'[cn][s] \in {At(cn, s), CAP_NULL} \/ (cn = dcn /\ s = dst /\ cspace'[cn][s] = At(scn, src))
    BY <1>4 DEF flint_cnode_move, Put, At, CapTypeOK
  <2> QED BY <2>1, <2>2, <2>3
<1>5. ASSUME NEW dcn \in CNodes, NEW scn \in CNodes, NEW dst \in Slots, NEW src \in Slots,
             NEW mask \in SUBSET RightBits, flint_cnode_copy(dcn, dst, scn, src, mask)
      PROVE  Goal
  <2>1. At(scn, src) # CAP_NULL /\ At(dcn, dst) = CAP_NULL
    BY <1>5 DEF flint_cnode_copy, derive_check
  <2>2. Attenuates(Derived(scn, src, mask, At(scn, src).badge), At(scn, src))
    BY <2>1, DerivedAttenuates
  <2> QED BY <1>1, <1>5, <2>1, <2>2 DEF flint_cnode_copy
<1>6. ASSUME NEW dcn \in CNodes, NEW scn \in CNodes, NEW dst \in Slots, NEW src \in Slots,
             NEW mask \in SUBSET RightBits, NEW badge \in Badges,
             flint_cnode_mint(dcn, dst, scn, src, mask, badge)
      PROVE  Goal
  <2>1. At(scn, src) # CAP_NULL /\ At(dcn, dst) = CAP_NULL
    BY <1>6 DEF flint_cnode_mint, derive_check
  <2>2. Attenuates(Derived(scn, src, mask, badge), At(scn, src))
    BY <1>6, <2>1, DerivedAttenuates DEF flint_cnode_mint
  <2> QED BY <1>1, <1>6, <2>1, <2>2 DEF flint_cnode_mint
<1>7. CASE UNCHANGED cspace
  BY <1>7 DEF At
<1> QED BY <1>2, <1>3, <1>4, <1>5, <1>6, <1>7 DEF CapNext

\* Attenuation carries over from one derivation to the next.
LEMMA AttenuatesTransitive ==
  ASSUME NEW a, NEW b, NEW c, Attenuates(a, b), Attenuates(b, c)
  PROVE  Attenuates(a, c)
BY DEF Attenuates

\* A step keeps every capability traceable to one installed at boot.
LEMMA UnforgeableStep == CapTypeOK /\ Unforgeable /\ [CapNext]_cspace => Unforgeable'
<1> SUFFICES ASSUME CapTypeOK, Unforgeable, [CapNext]_cspace,
                    NEW cn \in CNodes, NEW s \in Slots, cspace'[cn][s] # CAP_NULL
             PROVE  \E boot \in BootCaps : Attenuates(cspace'[cn][s], boot)
  BY DEF Unforgeable, At
<1>1. CASE cspace'[cn][s] = At(cn, s)
  BY <1>1 DEF Unforgeable
<1>2. CASE cspace'[cn][s] \in BootCaps
  BY <1>2 DEF Attenuates
<1>3. ASSUME NEW scn \in CNodes, NEW src \in Slots, At(scn, src) # CAP_NULL,
             Attenuates(cspace'[cn][s], At(scn, src))
      PROVE  \E boot \in BootCaps : Attenuates(cspace'[cn][s], boot)
  <2>1. PICK boot \in BootCaps : Attenuates(At(scn, src), boot)
    BY <1>3 DEF Unforgeable
  <2> QED BY <1>3, <2>1, AttenuatesTransitive
<1> QED BY <1>1, <1>2, <1>3, SlotAfter

\* Capabilities are unforgeable (flint_cnode_copy, mint, move, delete): each
\* one is an attenuation of one installed at boot, after any calls.
THEOREM CapsUnforgeable == CapSpec => []Unforgeable
<1>1. CapInit => CapTypeOK /\ Unforgeable
  BY DEF CapInit, flint_cnode_init, CapTypeOK, Unforgeable, At
<1>2. CapTypeOK /\ Unforgeable /\ [CapNext]_cspace => (CapTypeOK /\ Unforgeable)'
  BY CapTypeStep, UnforgeableStep
<1> QED BY <1>1, <1>2, PTL DEF CapSpec

\* The slots keep their type (flint_cap_t, or empty).
THEOREM CapsTyped == CapSpec => []CapTypeOK
<1>1. CapInit => CapTypeOK
  BY DEF CapInit, flint_cnode_init, CapTypeOK
<1> QED BY <1>1, CapTypeStep, PTL DEF CapSpec

\* No call alters a capability in place: a slot in use is left or emptied.
THEOREM CapsImmutable == CapSpec => Immutable
<1>1. CapTypeOK /\ [CapNext]_cspace =>
        [\A cn \in CNodes, s \in Slots :
           At(cn, s) # CAP_NULL => cspace'[cn][s] \in {At(cn, s), CAP_NULL}]_cspace
  BY SlotAfter
<1> QED BY <1>1, CapsTyped, PTL DEF CapSpec, Immutable

\* Whatever a call puts into a slot was installed at boot or attenuates a
\* capability held before the call.
THEOREM CapsDerive == CapSpec => DerivesFromHeld
<1>1. CapTypeOK /\ [CapNext]_cspace =>
        [\A cn \in CNodes, s \in Slots :
           cspace'[cn][s] \notin {At(cn, s), CAP_NULL} =>
             \/ cspace'[cn][s] \in BootCaps
             \/ \E scn \in CNodes, src \in Slots :
                  At(scn, src) # CAP_NULL /\ Attenuates(cspace'[cn][s], At(scn, src))]_cspace
  BY SlotAfter
<1> QED BY <1>1, CapsTyped, PTL DEF CapSpec, DerivesFromHeld
-----------------------------------------------------------------------------
IsMax(w, m) == m \in w /\ \A b \in w : b <= m

\* One step of the search: the word is half as wide, and the place of its
\* highest bit is found from that of the narrower one.
LEMMA SearchStep ==
  ASSUME NEW k \in Nat \ {0}, NEW w \in SUBSET (0..(2 * k - 1)), w # {}
  PROVE  /\ StepBy(w, k) \in Nat
         /\ Shr(w, StepBy(w, k)) \in SUBSET (0..(k - 1))
         /\ Shr(w, StepBy(w, k)) # {}
         /\ \A m : IsMax(Shr(w, StepBy(w, k)), m) => IsMax(w, m + StepBy(w, k))
<1> DEFINE p == StepBy(w, k)
           v == Shr(w, p)
<1>1. CASE \E b \in w : b >= k
  <2>1. p = k
    BY <1>1 DEF StepBy
  <2>2. v = {b - k : b \in {x \in w : x >= k}}
    BY <2>1 DEF Shr
  <2>3. v # {} /\ v \in SUBSET (0..(k - 1))
    BY <1>1, <2>2
  <2>4. ASSUME NEW m, IsMax(v, m) PROVE IsMax(w, m + k)
    <3>1. PICK b \in w : b >= k /\ m = b - k
      BY <2>2, <2>4 DEF IsMax
    <3>2. ASSUME NEW c \in w PROVE c <= b
      <4>1. CASE c >= k
        <5>1. c - k \in v
          BY <2>2, <4>1
        <5>2. c - k <= b - k
          BY <5>1, <3>1, <2>4 DEF IsMax
        <5> QED BY <5>2
      <4> QED BY <4>1, <3>1
    <3>3. m + k = b
      BY <3>1
    <3> QED BY <3>1, <3>2, <3>3 DEF IsMax
  <2> QED BY <2>1, <2>3, <2>4
<1>2. CASE ~ \E b \in w : b >= k
  <2>1. p = 0
    BY <1>2 DEF StepBy
  <2>2. v = {b - 0 : b \in {x \in w : x >= 0}}
    BY <2>1 DEF Shr
  <2>3. v = w
    <3>1. ASSUME NEW b \in w PROVE b \in v
      <4>1. b \in Int /\ b >= 0 /\ b - 0 = b
        OBVIOUS
      <4> QED BY <2>2, <4>1
    <3>2. ASSUME NEW b \in v PROVE b \in w
      <4>1. PICK c \in w : b = c - 0
        BY <2>2
      <4>2. c - 0 = c
        OBVIOUS
      <4> QED BY <4>1, <4>2
    <3> QED BY <3>1, <3>2
  <2>4. v # {} /\ v \in SUBSET (0..(k - 1))
    BY <1>2, <2>3
  <2>5. ASSUME NEW m, IsMax(v, m) PROVE IsMax(w, m + 0)
    <3>1. IsMax(w, m)
      BY <2>3, <2>5
    <3>2. m \in 0..(2 * k - 1)
      BY <3>1 DEF IsMax
    <3>3. m + 0 = m
      BY <3>2
    <3> QED BY <3>1, <3>3
  <2> QED BY <2>1, <2>4, <2>5
<1> QED BY <1>1, <1>2

\* The binary search of word_highest_bit finds the highest set bit of every
\* word that is not zero.
THEOREM WordHighestBit ==
  ASSUME NEW w \in SUBSET (0..31), w # {}
  PROVE  IsMax(w, word_highest_bit(w))
<1> DEFINE p16 == StepBy(w, 16)   w16 == Shr(w, p16)
           p8  == StepBy(w16, 8)  w8  == Shr(w16, p8)
           p4  == StepBy(w8, 4)   w4  == Shr(w8, p4)
           p2  == StepBy(w4, 2)   w2  == Shr(w4, p2)
           p1  == StepBy(w2, 1)   w1  == Shr(w2, p1)
<1>1. p16 \in Nat /\ w16 \in SUBSET (0..15) /\ w16 # {}
      /\ \A m : IsMax(w16, m) => IsMax(w, m + p16)
  BY SearchStep
<1> HIDE DEF p16, w16
<1>2. p8 \in Nat /\ w8 \in SUBSET (0..7) /\ w8 # {}
      /\ \A m : IsMax(w8, m) => IsMax(w16, m + p8)
  BY <1>1, SearchStep
<1> HIDE DEF p8, w8
<1>3. p4 \in Nat /\ w4 \in SUBSET (0..3) /\ w4 # {}
      /\ \A m : IsMax(w4, m) => IsMax(w8, m + p4)
  BY <1>2, SearchStep
<1> HIDE DEF p4, w4
<1>4. p2 \in Nat /\ w2 \in SUBSET (0..1) /\ w2 # {}
      /\ \A m : IsMax(w2, m) => IsMax(w4, m + p2)
  BY <1>3, SearchStep
<1> HIDE DEF p2, w2
<1>5. p1 \in Nat /\ w1 \in SUBSET (0..0) /\ w1 # {}
      /\ \A m : IsMax(w1, m) => IsMax(w2, m + p1)
  BY <1>4, SearchStep
<1> HIDE DEF p1, w1
<1>6. IsMax(w1, 0)
  <2>1. \A b \in w1 : b = 0
    BY <1>5
  <2>2. 0 \in w1
    BY <1>5, <2>1
  <2> QED BY <2>1, <2>2 DEF IsMax
<1>7. IsMax(w, (((0 + p1) + p2) + p4) + p8 + p16)
  BY <1>1, <1>2, <1>3, <1>4, <1>5, <1>6
<1>8. word_highest_bit(w) = p16 + p8 + p4 + p2 + p1
  BY DEF word_highest_bit, p16, w16, p8, w8, p4, w4, p2, w2, p1
<1>9. (((0 + p1) + p2) + p4) + p8 + p16 = p16 + p8 + p4 + p2 + p1
  BY <1>1, <1>2, <1>3, <1>4, <1>5
<1> QED BY <1>7, <1>8, <1>9

\* A priority is in one word, at one bit of it.
LEMMA PrioPlace ==
  ASSUME NEW p \in 0..(PRIO_COUNT - 1)
  PROVE  /\ p \div WORD_BITS \in 0..(PRIO_WORDS - 1)
         /\ p % WORD_BITS \in 0..(WORD_BITS - 1)
         /\ p = (p \div WORD_BITS) * WORD_BITS + (p % WORD_BITS)
BY DEF PRIO_COUNT, WORD_BITS, PRIO_WORDS

\* The bitmap's types and the exact summary are kept by set and clear.
LEMMA BitmapStep ==
  BitmapTypeOK /\ SummaryExact /\ [BitmapNext]_bitmap => (BitmapTypeOK /\ SummaryExact)'
<1> SUFFICES ASSUME BitmapTypeOK, SummaryExact, [BitmapNext]_bitmap
             PROVE  (BitmapTypeOK /\ SummaryExact)'
  OBVIOUS
<1> USE DEF BitmapTypeOK, SummaryExact
<1>1. ASSUME NEW p \in Prios, flint_prio_bitmap_set(p)
      PROVE  (BitmapTypeOK /\ SummaryExact)'
  <2> DEFINE word == p \div WORD_BITS
             bit  == p % WORD_BITS
  <2>1. word \in 0..(PRIO_WORDS - 1) /\ bit \in 0..(WORD_BITS - 1)
    BY PrioPlace, PriosAssumption
  <2>2. level1' = [level1 EXCEPT ![word] = @ \cup {bit}] /\ summary' = summary \cup {word}
    BY <1>1 DEF flint_prio_bitmap_set
  <2> HIDE DEF word, bit
  <2> QED BY <2>1, <2>2
<1>2. ASSUME NEW p \in Prios, flint_prio_bitmap_clear(p)
      PROVE  (BitmapTypeOK /\ SummaryExact)'
  <2> DEFINE word == p \div WORD_BITS
             bit  == p % WORD_BITS
  <2>1. word \in 0..(PRIO_WORDS - 1) /\ bit \in 0..(WORD_BITS - 1)
    BY PrioPlace, PriosAssumption
  <2>2. /\ level1' = [level1 EXCEPT ![word] = @ \ {bit}]
        /\ summary' = IF level1'[word] = {} THEN summary \ {word} ELSE summary
    BY <1>2 DEF flint_prio_bitmap_clear
  <2> HIDE DEF word, bit
  <2>3. level1'[word] = level1[word] \ {bit} /\ \A w \in 0..(PRIO_WORDS - 1) :
          w # word => level1'[w] = level1[w]
    BY <2>1, <2>2
  <2> QED BY <2>1, <2>2, <2>3
<1>3. CASE UNCHANGED bitmap
  BY <1>3 DEF bitmap
<1> QED BY <1>1, <1>2, <1>3 DEF BitmapNext

\* The inductive invariant of the bitmap: its types, and a summary that names
\* the words that are not zero.
LEMMA BitmapInvariant == BitmapSpec => [](BitmapTypeOK /\ SummaryExact)
<1>1. BitmapInit => BitmapTypeOK /\ SummaryExact
  BY DEF BitmapInit, flint_prio_bitmap_init, BitmapTypeOK, SummaryExact
<1> QED BY <1>1, BitmapStep, PTL DEF BitmapSpec

\* After any sets and clears, of any priorities, the summary names exactly the
\* words that are not zero (flint_prio_bitmap_set, flint_prio_bitmap_clear).
THEOREM SummaryIsExact == BitmapSpec => []SummaryExact
BY BitmapInvariant, PTL

\* flint_prio_bitmap_highest returns the highest occupied priority, and
\* flint_prio_bitmap_empty is true exactly when there is none.
THEOREM HighestPriorityFound == BitmapSpec => []HighestIsMax
<1>1. BitmapTypeOK /\ SummaryExact => HighestIsMax
  <2> SUFFICES ASSUME BitmapTypeOK, SummaryExact PROVE HighestIsMax
    OBVIOUS
  <2>1. CASE summary = {}
    <3>1. Occupied = {}
      BY <2>1, PrioPlace DEF Occupied, SummaryExact
    <3> QED BY <2>1, <3>1 DEF HighestIsMax, flint_prio_bitmap_empty
  <2>2. CASE summary # {}
    <3> DEFINE top == word_highest_bit(summary)
               bit == word_highest_bit(level1[top])
    <3>1. IsMax(summary, top)
      <4>1. summary \in SUBSET (0..31)
        BY DEF BitmapTypeOK, PRIO_WORDS
      <4> QED BY <4>1, <2>2, WordHighestBit
    <3>2. top \in 0..(PRIO_WORDS - 1) /\ level1[top] # {}
      BY <3>1 DEF IsMax, SummaryExact
    <3>3. IsMax(level1[top], bit)
      <4>1. level1[top] \in SUBSET (0..31)
        <5> HIDE DEF top
        <5>1. 0..(WORD_BITS - 1) = 0..31
          BY DEF WORD_BITS
        <5> QED BY <3>2, <5>1 DEF BitmapTypeOK
      <4> QED BY <4>1, <3>2, WordHighestBit
    <3>4. bit \in level1[top] /\ bit \in 0..(WORD_BITS - 1)
      BY <3>2, <3>3 DEF IsMax, BitmapTypeOK
    <3>5. flint_prio_bitmap_highest = top * WORD_BITS + bit
      BY DEF flint_prio_bitmap_highest
    <3> HIDE DEF top, bit
    <3> DEFINE high == top * WORD_BITS + bit
    <3>6. high \in 0..(PRIO_COUNT - 1) /\ high \div WORD_BITS = top /\ high % WORD_BITS = bit
      BY <3>2, <3>4 DEF PRIO_COUNT, WORD_BITS, PRIO_WORDS
    <3>7. high \in Occupied
      BY <3>4, <3>6 DEF Occupied
    <3>8. ASSUME NEW p \in Occupied PROVE p <= high
      <4> DEFINE pw == p \div WORD_BITS
                 pb == p % WORD_BITS
      <4>1. p \in 0..(PRIO_COUNT - 1) /\ pb \in level1[pw]
        BY DEF Occupied
      <4>2. pw \in 0..(PRIO_WORDS - 1) /\ pb \in 0..(WORD_BITS - 1) /\ p = pw * WORD_BITS + pb
        BY <4>1, PrioPlace, Zenon
      <4> HIDE DEF pw, pb
      <4>3. pw \in summary
        BY <4>1, <4>2 DEF SummaryExact
      <4>4. pw <= top
        BY <4>3, <3>1 DEF IsMax
      <4>5. pw = top => pb <= bit
        BY <4>1, <3>3 DEF IsMax
      <4> QED BY <3>2, <3>4, <4>2, <4>4, <4>5 DEF WORD_BITS, PRIO_WORDS
    <3> QED BY <2>2, <3>5, <3>7, <3>8 DEF HighestIsMax, flint_prio_bitmap_empty
  <2> QED BY <2>1, <2>2
<1> QED BY <1>1, BitmapInvariant, PTL

-----------------------------------------------------------------------------
(* The rate of ptp_clock.c.                                                *)

\* ticks_to_ns rounds once, as if the product had no bound.
LEMMA TicksToNs ==
  ASSUME NEW dt \in Nat
  PROVE  ticks_to_ns(dt) = (dt * NS_PER_S) \div Freq
<1> DEFINE q == dt \div Freq   r == dt % Freq
<1>1. Freq \in Nat \ {0} /\ NS_PER_S \in Nat
  BY PtpClockAssumption
<1>2. q \in Int /\ r \in 0..(Freq - 1) /\ dt = Freq * q + r
  BY <1>1, DivMod
<1>3. Quot(dt, Freq) = q
  BY DEF Quot
<1> HIDE DEF q, r
<1>4. Rem(dt, Freq) = r
  BY <1>1, <1>2, <1>3 DEF Rem
<1>5. r * NS_PER_S >= 0
  BY <1>1, <1>2, Z3
<1>6. Quot(r * NS_PER_S, Freq) = (r * NS_PER_S) \div Freq
  BY <1>5 DEF Quot
<1>7. ticks_to_ns(dt) = q * NS_PER_S + (r * NS_PER_S) \div Freq
  BY <1>3, <1>4, <1>6 DEF ticks_to_ns
<1> QED BY <1>1, <1>7, SplitScale DEF q, r

\* scale_ppb rounds once too, towards zero.
LEMMA ScalePpb ==
  ASSUME NEW d \in Nat, NEW k \in Nat
  PROVE  /\ scale_ppb(d, k) = (d * k) \div NS_PER_S
         /\ scale_ppb(d, -k) = -((d * k) \div NS_PER_S)
<1> DEFINE n == NS_PER_S   q == d \div n   r == d % n   b == r * k   p == b \div n
<1>1. n \in Nat \ {0}
  BY PtpClockAssumption
<1>2. q \in Int /\ r \in 0..(n - 1) /\ d = n * q + r
  BY <1>1, DivMod
<1>3. Quot(d, n) = q
  BY DEF Quot
<1>4. Rem(d, n) = r
  <2> HIDE DEF q, r, n
  <2> QED BY <1>1, <1>2, <1>3 DEF Rem
<1>5. b \in Nat
  <2> HIDE DEF r, n
  <2> QED BY <1>1, <1>2, Z3
<1>6. p \in Int
  BY <1>1, <1>5, DivMod
<1>7. q * k + p = (d * k) \div n
  BY <1>1, SplitScale
<1>8. scale_ppb(d, k) = q * k + p
  <2>1. Quot(b, n) = p
    BY <1>5 DEF Quot
  <2> QED BY <1>3, <1>4, <2>1 DEF scale_ppb
<1>9. scale_ppb(d, -k) = -(q * k + p)
  <2> HIDE DEF q, r, n
  <2>1. r * (-k) = -b /\ q * (-k) = -(q * k) /\ q * k \in Int
    BY <1>1, <1>2, Z3
  <2> HIDE DEF b
  <2>2. Quot(-b, n) = -p
    <3>1. CASE b = 0
      <4>1. p = 0
        <5>1. 0 % n = 0 /\ 0 \div n = 0
          BY <1>1, Z3
        <5> QED BY <3>1, <5>1
      <4> QED BY <3>1, <4>1 DEF Quot
    <3>2. CASE b > 0
      <4>1. ~(-b >= 0) /\ -(-b) = b
        BY <1>5, <3>2
      <4> QED BY <4>1 DEF Quot
    <3> QED BY <1>5, <3>1, <3>2
  <2>3. scale_ppb(d, -k) = q * (-k) + Quot(r * (-k), n)
    BY <1>3, <1>4 DEF scale_ppb, n
  <2> HIDE DEF p
  <2> QED BY <1>2, <1>6, <2>1, <2>2, <2>3
<1> QED BY <1>7, <1>8, <1>9

\* What ns nanoseconds of the counter are worth at most at the fastest rate.
Worth(ns) == ns + (ns * PTP_CLOCK_MAX_PPB + NS_PER_S - 1) \div NS_PER_S

LEMMA WorthGrows ==
  ASSUME NEW a \in Nat, NEW b \in Nat, a <= b
  PROVE  Worth(a) \in Nat /\ a <= Worth(a) /\ Worth(a) <= Worth(b) /\ Worth(b) \in Nat
<1> DEFINE n == NS_PER_S   m == PTP_CLOCK_MAX_PPB
           x == a * m + n - 1   y == b * m + n - 1
<1>1. n \in Nat \ {0} /\ m \in Nat
  BY PtpClockAssumption
<1> HIDE DEF n, m
<1>2. x \in Nat /\ y \in Nat /\ x <= y /\ x \in Int /\ y \in Int /\ 0 \in Int
  <2>1. a * m \in Nat /\ b * m \in Nat /\ a * m <= b * m
    BY <1>1, Z3
  <2> QED BY <1>1, <2>1
<1> HIDE DEF x, y
<1>3. x \div n <= y \div n /\ x \div n \in Int /\ y \div n \in Int
  BY <1>1, <1>2, DivMonotone, DivMod
<1>4. 0 <= x \div n
  <2>1. n * 0 <= x
    BY <1>1, <1>2
  <2> QED BY <1>1, <1>2, <2>1, DivFits
<1>5. Worth(a) = a + x \div n /\ Worth(b) = b + y \div n
  BY DEF Worth, x, y, n, m
<1> QED BY <1>3, <1>4, <1>5

\* At any rate that ptp_clock_adjfreq lets through, time does not go back.
LEMMA RateStep ==
  ASSUME NEW d \in Nat, NEW e \in Nat,
         NEW ppb \in -PTP_CLOCK_MAX_PPB..PTP_CLOCK_MAX_PPB
  PROVE  /\ scale_ppb(d, ppb) \in Int /\ scale_ppb(d + e, ppb) \in Int
         /\ (d + e) + scale_ppb(d + e, ppb) - (d + scale_ppb(d, ppb)) \in 0..Worth(e)
<1> DEFINE n == NS_PER_S   m == PTP_CLOCK_MAX_PPB
           k == IF ppb >= 0 THEN ppb ELSE -ppb
           p == (d * k) \div n   q == ((d + e) * k) \div n   u == (e * k + n - 1) \div n
           v == (e * m + n - 1) \div n
<1>1. n \in Nat \ {0} /\ m \in Nat /\ m <= n - 1
  BY PtpClockAssumption
<1>2. k \in Nat /\ k <= m
  BY <1>1
<1>3. ppb = k \/ ppb = -k
  BY <1>1
<1> HIDE DEF k, m
<1>4. p \in Nat /\ q \in Nat /\ p <= q /\ q - p <= u
  BY <1>1, <1>2, ScaleStep
<1>5. /\ scale_ppb(d, k) = p /\ scale_ppb(d, -k) = -p
      /\ scale_ppb(d + e, k) = q /\ scale_ppb(d + e, -k) = -q
  <2>1. scale_ppb(d, k) = p /\ scale_ppb(d, -k) = -p
    BY <1>2, ScalePpb
  <2>2. d + e \in Nat
    OBVIOUS
  <2>3. scale_ppb(d + e, k) = q /\ scale_ppb(d + e, -k) = -q
    BY <1>2, <2>2, ScalePpb
  <2> QED BY <2>1, <2>3
<1> HIDE DEF p, q
<1>6. u \in Int /\ v \in Int /\ u <= v /\ u <= e
  <2> HIDE DEF n
  <2>1. e * k \in Nat /\ e * m \in Nat /\ e * k <= e * m /\ e * m <= n * e /\ n * e \in Nat
    BY <1>1, <1>2, Z3
  <2> DEFINE x == e * k + n - 1   y == e * m + n - 1
  <2>2. x \in Int /\ y \in Int /\ x <= y /\ x < n * e + n /\ e \in Int
    BY <1>1, <2>1
  <2> HIDE DEF x, y
  <2>3. x \div n \in Int /\ y \div n \in Int
    BY <1>1, <2>2, DivMod
  <2>4. x \div n <= y \div n
    BY <1>1, <2>2, DivMonotone
  <2>5. x \div n <= e
    BY <1>1, <2>2, DivBelow
  <2> QED BY <2>3, <2>4, <2>5 DEF x, y
<1>7. Worth(e) = e + v
  BY DEF Worth, m
<1> HIDE DEF u, v
<1>8. CASE ppb = k
  BY <1>4, <1>5, <1>6, <1>7, <1>8
<1>9. CASE ppb = -k
  BY <1>4, <1>5, <1>6, <1>7, <1>9
<1> QED BY <1>3, <1>8, <1>9

-----------------------------------------------------------------------------
Rates == -PTP_CLOCK_MAX_PPB..PTP_CLOCK_MAX_PPB

\* The anchor is in the past and the rate within its limit.
ClockInv ==
  /\ cnt \in Nat /\ anchors \in Nat
  /\ clk \in [base_cnt : 0..cnt, base_ns : Int, ppb : Rates, epoch : Nat]

\* At the anchor the clock reads the time of the anchor.
LEMMA AtAnchor ==
  ASSUME NEW c, c.base_ns \in Int, c.base_cnt \in Int, c.ppb \in Rates
  PROVE  ptp_clock_from_cnt(c, c.base_cnt) = c.base_ns
<1>1. c.base_cnt - c.base_cnt = 0
  OBVIOUS
<1>2. ticks_to_ns(0) = 0
  <2>1. 0 * NS_PER_S = 0 /\ 0 \div Freq = 0
    BY PtpClockAssumption, Z3
  <2> QED BY <2>1, TicksToNs
<1>3. scale_ppb(0, c.ppb) = 0
  <2>1. c.ppb \in Int
    BY PtpClockAssumption DEF Rates
  <2>2. PICK k \in Nat : c.ppb = k \/ c.ppb = -k
    <3>1. c.ppb \in Nat \/ -c.ppb \in Nat
      BY <2>1
    <3> QED BY <2>1, <3>1
  <2>3. 0 * k = 0 /\ 0 \div NS_PER_S = 0
    BY PtpClockAssumption, Z3
  <2> QED BY <2>2, <2>3, ScalePpb
<1> QED BY <1>1, <1>2, <1>3 DEF ptp_clock_from_cnt

\* A count moves the clock by 0 to Fastest nanoseconds.
LEMMA CountMoves ==
  ASSUME NEW c, NEW n \in Nat, c.base_ns \in Int, c.base_cnt \in 0..n, c.ppb \in Rates
  PROVE  /\ ptp_clock_from_cnt(c, n) \in Int
         /\ ptp_clock_from_cnt(c, n + 1) - ptp_clock_from_cnt(c, n) \in 0..Fastest
<1> DEFINE dt == n - c.base_cnt
           d == (dt * NS_PER_S) \div Freq   f == ((dt + 1) * NS_PER_S) \div Freq
           ns == (1 * NS_PER_S + Freq - 1) \div Freq
<1>1. Freq \in Nat \ {0} /\ NS_PER_S \in Nat \ {0} /\ dt \in Nat /\ dt + 1 \in Nat
      /\ dt + 1 = n + 1 - c.base_cnt /\ 1 \in Nat
  BY PtpClockAssumption
<1> HIDE DEF dt
<1>2. d \in Nat /\ f \in Nat /\ d <= f /\ f - d <= ns
  BY <1>1, ScaleStep
<1>3. ticks_to_ns(dt) = d /\ ticks_to_ns(dt + 1) = f
  BY <1>1, TicksToNs
<1>4. ns \in Int
  <2>1. 1 * NS_PER_S + Freq - 1 \in Int
    BY <1>1
  <2> QED BY <1>1, <2>1, DivMod
<1>5. Worth(ns) = Fastest
  <2>1. 1 * NS_PER_S = NS_PER_S
    BY <1>1
  <2> QED BY <2>1 DEF Worth, Fastest
<1> HIDE DEF d, f, ns
<1> DEFINE e == f - d
<1>6. e \in Nat /\ d + e = f /\ e <= ns /\ ns \in Nat
  BY <1>2, <1>4
<1> HIDE DEF e
<1>7. /\ scale_ppb(d, c.ppb) \in Int /\ scale_ppb(f, c.ppb) \in Int
      /\ f + scale_ppb(f, c.ppb) - (d + scale_ppb(d, c.ppb)) \in 0..Worth(e)
  BY <1>2, <1>6, RateStep DEF Rates
<1>8. Worth(e) \in Nat /\ Worth(e) <= Fastest /\ Fastest \in Nat
  BY <1>5, <1>6, WorthGrows
<1>9. /\ ptp_clock_from_cnt(c, n) = c.base_ns + d + scale_ppb(d, c.ppb)
      /\ ptp_clock_from_cnt(c, n + 1) = c.base_ns + f + scale_ppb(f, c.ppb)
  BY <1>1, <1>3 DEF ptp_clock_from_cnt, dt
<1> QED BY <1>2, <1>7, <1>8, <1>9

\* Both corrections anchor the clock at the count, with the time it has there.
LEMMA CorrectsAnchors ==
  ASSUME ClockInv, Corrects
  PROVE  /\ cnt' = cnt /\ anchors' \in Nat
         /\ clk' \in [base_cnt : {cnt}, base_ns : Int, ppb : Rates, epoch : Nat]
         /\ \/ clk'.epoch # clk.epoch /\ \E d \in Deltas : clk'.base_ns = Now + d
            \/ clk'.epoch = clk.epoch /\ clk'.base_ns = Now
<1>0. PTP_CLOCK_MAX_PPB \in Nat
  BY PtpClockAssumption
<1>1. Now \in Int
  BY CountMoves DEF ClockInv, Now
<1>2. cnt' = cnt /\ anchors' \in Nat
  BY DEF ClockInv, Corrects
<1>3. rebase(clk, cnt) = [clk EXCEPT !.base_ns = Now, !.base_cnt = cnt]
  BY DEF rebase, Now
<1> HIDE DEF Now
<1>4. ASSUME NEW d \in Deltas, ptp_clock_step(d)
      PROVE  /\ clk' \in [base_cnt : {cnt}, base_ns : Int, ppb : Rates, epoch : Nat]
             /\ clk'.epoch # clk.epoch /\ clk'.base_ns = Now + d
  <2>1. d \in Int
    BY PtpClockAssumption
  <2>2. clk' = [clk EXCEPT !.base_ns = Now + d, !.base_cnt = cnt, !.epoch = @ + 1]
    BY <1>3, <1>4 DEF ptp_clock_step, ClockInv
  <2>3. Now + d \in Int /\ clk.epoch + 1 \in Nat /\ clk.epoch + 1 # clk.epoch
    BY <1>1, <2>1 DEF ClockInv
  <2> QED BY <2>2, <2>3 DEF ClockInv
<1>5. ASSUME NEW p \in Ppbs, ptp_clock_adjfreq(p)
      PROVE  /\ clk' \in [base_cnt : {cnt}, base_ns : Int, ppb : Rates, epoch : Nat]
             /\ clk'.epoch = clk.epoch /\ clk'.base_ns = Now
  <2>1. p \in Int
    BY PtpClockAssumption
  <2>2. PICK r \in Rates : clk' = [rebase(clk, cnt) EXCEPT !.ppb = r]
    BY <1>0, <1>5, <2>1 DEF ptp_clock_adjfreq, Rates
  <2> QED BY <1>1, <1>3, <2>2 DEF ClockInv
<1> QED BY <1>2, <1>4, <1>5 DEF Corrects

LEMMA ClockStep == ClockInv /\ [ClockNext]_<<clk, cnt, anchors>> => ClockInv'
<1> SUFFICES ASSUME ClockInv, [ClockNext]_<<clk, cnt, anchors>> PROVE ClockInv'
  OBVIOUS
<1>1. CASE Counts
  BY <1>1 DEF Counts, ClockInv
<1>2. CASE Corrects
  <2>1. cnt \in 0..cnt
    BY DEF ClockInv
  <2> QED BY <1>2, <2>1, CorrectsAnchors DEF ClockInv
<1>3. CASE UNCHANGED <<clk, cnt, anchors>>
  BY <1>3 DEF ClockInv
<1> QED BY <1>1, <1>2, <1>3 DEF ClockNext

LEMMA ClockStart == ClockInit => ClockInv
<1>1. 0 \in Rates
  BY PtpClockAssumption DEF Rates
<1> QED BY <1>1 DEF ClockInit, ClockInv

LEMMA StepsEven ==
  ASSUME ClockInv, [ClockNext]_<<clk, cnt, anchors>>
  PROVE  [EvenStep]_<<clk, cnt>>
<1>1. CASE Counts
  <2>1. clk' = clk /\ cnt' = cnt + 1
    BY <1>1 DEF Counts
  <2>2. ptp_clock_from_cnt(clk, cnt + 1) - ptp_clock_from_cnt(clk, cnt) \in 0..Fastest
    BY CountMoves DEF ClockInv
  <2>3. Now' - Now \in 0..Fastest
    BY <2>1, <2>2 DEF Now
  <2> QED BY <2>1, <2>3 DEF EvenStep
<1>2. CASE Corrects
  <2>1. /\ cnt' = cnt /\ anchors' \in Nat
        /\ clk' \in [base_cnt : {cnt}, base_ns : Int, ppb : Rates, epoch : Nat]
        /\ \/ clk'.epoch # clk.epoch /\ \E d \in Deltas : clk'.base_ns = Now + d
           \/ clk'.epoch = clk.epoch /\ clk'.base_ns = Now
    BY <1>2, CorrectsAnchors
  <2>2. cnt' = clk'.base_cnt /\ clk'.base_cnt \in Int /\ clk'.base_ns \in Int /\ clk'.ppb \in Rates
    BY <2>1 DEF ClockInv
  <2>3. Now' = clk'.base_ns
    BY <2>2, AtAnchor DEF Now
  <2> QED BY <2>1, <2>3 DEF EvenStep
<1>3. CASE UNCHANGED <<clk, cnt, anchors>>
  BY <1>3
<1> QED BY <1>1, <1>2, <1>3 DEF ClockNext

\* The corrected clock never goes back between two steps of the servo, never
\* outruns the fastest rate, and is not moved by a change of rate: for every
\* frequency of the counter and every limit of the rate below 1.
THEOREM ClockRunsEvenly == ClockSpec => RunsEvenly
<1>1. ClockInv /\ [ClockNext]_<<clk, cnt, anchors>> => [EvenStep]_<<clk, cnt>>
  BY StepsEven
<1> QED BY <1>1, ClockStart, ClockStep, PTL DEF ClockSpec, RunsEvenly

-----------------------------------------------------------------------------
(* The calendar of ptp_core.c.                                             *)

\* C's quotient, lowered by n - 1 for a negative number, is rounded down.
LEMMA QuotDown ==
  ASSUME NEW n \in Nat \ {0}, NEW a \in Int
  PROVE  (IF a >= 0 THEN Quot(a, n) ELSE Quot(a - (n - 1), n)) = a \div n
<1>1. CASE a >= 0
  BY <1>1 DEF Quot
<1>2. CASE a < 0
  <2> DEFINE q == a \div n   r == a % n   b == -(a - (n - 1))
  <2>1. q \in Int /\ r \in 0..(n - 1) /\ a = n * q + r
    BY DivMod
  <2> HIDE DEF q, r
  <2>2. b = n * (-q) + (n - 1 - r) /\ n - 1 - r \in 0..(n - 1) /\ -q \in Int
    BY <2>1, Z3
  <2>3. b \div n = -q
    BY <2>2, DivModUnique
  <2>4. ~(a - (n - 1) >= 0) /\ ~(a >= 0)
    BY <1>2
  <2>5. Quot(a - (n - 1), n) = -(b \div n)
    BY <2>4 DEF Quot
  <2> QED BY <2>1, <2>3, <2>4, <2>5 DEF q
<1> QED BY <1>1, <1>2

\* A day by its 400 years, century, four years and year, each from 1 March,
\* and its number in that year, which has a 366th day before a leap year only.
Place(z, era, c, q, r, k) ==
  /\ {era, c, q, r, k} \subseteq Int
  /\ 0 <= c /\ c <= 3 /\ 0 <= q /\ q <= 24 /\ 0 <= r /\ r <= 3 /\ 0 <= k /\ k <= 365
  /\ k = 365 => r = 3 /\ (q = 24 => c = 3)
  /\ z + 719468 = 146097 * era + 36524 * c + 1461 * q + 365 * r + k

\* Every day has a place.
LEMMA PlaceOf ==
  ASSUME NEW z \in Int
  PROVE  \E era, c, q, r, k : Place(z, era, c, q, r, k)
<1> DEFINE era == (z + 719468) \div 146097   doe == (z + 719468) % 146097
           c == IF doe < 146096 THEN doe \div 36524 ELSE 3
           x == doe - 36524 * c
           q == x \div 1461
           y == x % 1461
           r == IF y < 1460 THEN y \div 365 ELSE 3
           k == y - 365 * r
<1>1. era \in Int /\ doe \in Int /\ 0 <= doe /\ doe <= 146096 /\ z + 719468 = 146097 * era + doe
  BY Z3
<1> HIDE DEF era, doe
<1>2. c \in Int /\ 0 <= c /\ c <= 3 /\ x \in Int /\ 0 <= x /\ x <= 36524 /\ (x = 36524 => c = 3)
  BY <1>1, Z3
<1> HIDE DEF c
<1>3. doe = 36524 * c + x
  <2> DEFINE g == 36524 * c
  <2>1. g \in Int
    BY <1>2, Z3
  <2> HIDE DEF g
  <2>2. x = doe - g
    BY DEF g
  <2> QED BY <1>1, <2>1, <2>2, Z3 DEF g
<1> HIDE DEF x
<1>4. q \in Int /\ 0 <= q /\ q <= 24 /\ y \in Int /\ 0 <= y /\ y <= 1460 /\ x = 1461 * q + y
  BY <1>2, Z3
<1> HIDE DEF q, y
<1>5. r \in Int /\ 0 <= r /\ r <= 3 /\ k \in Int /\ 0 <= k /\ k <= 365 /\ (k = 365 => r = 3 /\ y = 1460) /\ y = 365 * r + k
  BY <1>4, Z3
<1> HIDE DEF r, k
<1>6. k = 365 => r = 3 /\ (q = 24 => c = 3)
  BY <1>2, <1>4, <1>5, Z3
<1>7. z + 719468 = 146097 * era + 36524 * c + 1461 * q + 365 * r + k
  BY <1>1, <1>2, <1>3, <1>4, <1>5, Z3
<1>8. Place(z, era, c, q, r, k)
  BY <1>1, <1>2, <1>4, <1>5, <1>6, <1>7, Z3 DEF Place
<1> QED BY <1>8, Zenon

\* The quotients of civil_from_days find the place.
LEMMA YearOfPlace ==
  ASSUME NEW z \in Int, NEW era, NEW c, NEW q, NEW r, NEW k, Place(z, era, c, q, r, k)
  PROVE  YearOfEra(36524 * c + 1461 * q + 365 * r + k) = 100 * c + 4 * q + r
<1> DEFINE w == 36524 * c + 1461 * q + 365 * r + k
           v == 100 * c + 4 * q + r
           dl == IF 24 * c + q + 365 * r + k >= 1460 THEN 1 ELSE 0
<1>0. /\ c \in Int /\ q \in Int /\ r \in Int /\ k \in Int
      /\ 0 <= c /\ c <= 3 /\ 0 <= q /\ q <= 24 /\ 0 <= r /\ r <= 3 /\ 0 <= k /\ k <= 365
      /\ k = 365 => r = 3 /\ (q = 24 => c = 3)
  BY SMT DEF Place
<1>1. w \div 36524 - w \div 146096 = c /\ w \div 36524 \in Int /\ w \div 146096 \in Int
  BY <1>0, Z3
<1>2. w \div 1460 = 25 * c + q + dl
  BY <1>0, Z3
<1>3. dl \in Int /\ 0 <= k - dl /\ k - dl <= 364
  BY <1>0, Z3
<1> HIDE DEF dl
<1>4. w - w \div 1460 + w \div 36524 - w \div 146096 = 365 * v + (k - dl)
  BY <1>0, <1>1, <1>2, <1>3, Z3
<1>5. v \in Int
  BY <1>0, Z3
<1> HIDE DEF v
<1>6. (365 * v + (k - dl)) \div 365 = v
  BY <1>0, <1>3, <1>5, Z3
<1> QED BY <1>4, <1>6, SMT DEF YearOfEra, v

LEMMA CivilOfPlace ==
  ASSUME NEW z \in Int, NEW era, NEW c, NEW q, NEW r, NEW k, Place(z, era, c, q, r, k)
  PROVE  civil_from_days(z) = DateOf(400 * era + 100 * c + 4 * q + r, k)
<1> DEFINE zz == z + 719468
           er == Quot(IF zz >= 0 THEN zz ELSE zz - 146096, 146097)
           doe == zz - er * 146097
           yoe == YearOfEra(doe)
           doy == doe - (365 * yoe + yoe \div 4 - yoe \div 100)
           w == 36524 * c + 1461 * q + 365 * r + k
           v == 100 * c + 4 * q + r
<1>0. /\ era \in Int /\ c \in Int /\ q \in Int /\ r \in Int /\ k \in Int
      /\ 0 <= c /\ c <= 3 /\ 0 <= q /\ q <= 24 /\ 0 <= r /\ r <= 3 /\ 0 <= k /\ k <= 365
      /\ k = 365 => r = 3 /\ (q = 24 => c = 3)
      /\ z + 719468 = 146097 * era + 36524 * c + 1461 * q + 365 * r + k
  BY SMT DEF Place
<1>1. civil_from_days(z) = DateOf(yoe + er * 400, doy)
  BY SMT DEF civil_from_days
<1>2. w \in Int /\ 0 <= w /\ w <= 146096 /\ zz = 146097 * era + w /\ zz \in Int
  BY <1>0, Z3
<1>3. er = era
  <2> HIDE DEF zz, w
  <2> QED BY <1>0, <1>2, Z3 DEF Quot
<1> HIDE DEF er, zz
<1>4. doe = w
  BY <1>0, <1>2, <1>3, Z3
<1> HIDE DEF doe
<1>5. yoe = v
  BY <1>4, YearOfPlace, SMT
<1> HIDE DEF yoe
<1>6. v \div 4 = 25 * c + q /\ v \div 100 = c
  BY <1>0, Z3
<1>7. doy = k
  BY <1>0, <1>4, <1>5, <1>6, Z3
<1> HIDE DEF doy
<1>8. yoe + er * 400 = 400 * era + 100 * c + 4 * q + r
  BY <1>0, <1>3, <1>5, Z3
<1> QED BY <1>1, <1>7, <1>8, SMT

\* The months of a year that begins in March: number, first day and length.
Months == {<<3, 0, 31>>, <<4, 31, 30>>, <<5, 61, 31>>, <<6, 92, 30>>, <<7, 122, 31>>,
           <<8, 153, 31>>, <<9, 184, 30>>, <<10, 214, 31>>, <<11, 245, 30>>,
           <<12, 275, 31>>, <<1, 306, 31>>, <<2, 337, 29>>}

Dates == [y : Int, m : Int, d : Int]

LEMMA SameDate ==
  ASSUME NEW t \in Dates, NEW u \in Dates, t.y = u.y, t.m = u.m, t.d = u.d
  PROVE  t = u
BY DEF Dates

LEMMA MonthOfDay ==
  ASSUME NEW y \in Int, NEW k \in Int, NEW m \in Int, NEW first \in Int, NEW len \in Int,
         <<m, first, len>> \in Months, first <= k, k < first + len
  PROVE  /\ DateOf(y, k) \in Dates
         /\ DateOf(y, k).y = y + (IF m <= 2 THEN 1 ELSE 0)
         /\ DateOf(y, k).m = m /\ DateOf(y, k).d = k - first + 1
<1> DEFINE mp == (5 * k + 2) \div 153
<1>1. mp = IF m >= 3 THEN m - 3 ELSE m + 9
  BY SMT DEF Months
<1>2. (153 * mp + 2) \div 5 = first
  <2> HIDE DEF mp
  <2> QED BY <1>1, SMT DEF Months
<1>3. m >= 1 /\ m <= 12
  BY SMT DEF Months
<1> HIDE DEF mp
<1>4. (IF mp < 10 THEN mp + 3 ELSE mp - 9) = m
  BY <1>1, <1>3, SMT
<1>5. DateOf(y, k) =
        [y |-> y + (IF (IF mp < 10 THEN mp + 3 ELSE mp - 9) <= 2 THEN 1 ELSE 0),
         m |-> IF mp < 10 THEN mp + 3 ELSE mp - 9,
         d |-> k - (153 * mp + 2) \div 5 + 1]
  BY SMT DEF DateOf, mp
<1>6. DateOf(y, k) = [y |-> y + (IF m <= 2 THEN 1 ELSE 0), m |-> m, d |-> k - first + 1]
  BY <1>2, <1>4, <1>5, SMT
<1>7. y + (IF m <= 2 THEN 1 ELSE 0) \in Int /\ k - first + 1 \in Int
  BY SMT
<1> QED BY <1>6, <1>7, SMT DEF Dates

InMonth(k, m, first, len) ==
  /\ m \in Int /\ first \in Int /\ len \in Int
  /\ <<m, first, len>> \in Months /\ first <= k /\ k < first + len

LEMMA MonthExists ==
  ASSUME NEW k \in Int, 0 <= k, k <= 365
  PROVE  \E m, first, len : InMonth(k, m, first, len)
<1>1. \/ InMonth(k, 3, 0, 31) \/ InMonth(k, 4, 31, 30) \/ InMonth(k, 5, 61, 31)
      \/ InMonth(k, 6, 92, 30) \/ InMonth(k, 7, 122, 31) \/ InMonth(k, 8, 153, 31)
      \/ InMonth(k, 9, 184, 30) \/ InMonth(k, 10, 214, 31) \/ InMonth(k, 11, 245, 30)
      \/ InMonth(k, 12, 275, 31) \/ InMonth(k, 1, 306, 31) \/ InMonth(k, 2, 337, 29)
  BY SMT DEF InMonth, Months
<1> QED BY <1>1, SMT

LEMMA MonthDaysType ==
  ASSUME NEW y, NEW m
  PROVE  MonthDays(y, m) \in Int
BY SMT DEF MonthDays

\* What Tomorrow makes of a date, field by field.
LEMMA TomorrowOf ==
  ASSUME NEW t \in Dates
  PROVE  /\ Tomorrow(t) \in Dates
         /\ t.d < MonthDays(t.y, t.m) =>
              Tomorrow(t).y = t.y /\ Tomorrow(t).m = t.m /\ Tomorrow(t).d = t.d + 1
         /\ ~(t.d < MonthDays(t.y, t.m)) /\ t.m < 12 =>
              Tomorrow(t).y = t.y /\ Tomorrow(t).m = t.m + 1 /\ Tomorrow(t).d = 1
         /\ ~(t.d < MonthDays(t.y, t.m)) /\ ~(t.m < 12) =>
              Tomorrow(t).y = t.y + 1 /\ Tomorrow(t).m = 1 /\ Tomorrow(t).d = 1
<1>0. t.y \in Int /\ t.m \in Int /\ t.d \in Int
  BY DEF Dates
<1>1. PICK one : one = 1 /\ one \in Int
  BY SMT
<1>2. CASE t.d < MonthDays(t.y, t.m)
  <2>1. Tomorrow(t) = [t EXCEPT !.d = t.d + 1]
    BY <1>2 DEF Tomorrow
  <2>2. t.d + 1 \in Int
    BY <1>0
  <2> QED BY <1>2, <2>1, <2>2 DEF Dates
<1>3. CASE ~(t.d < MonthDays(t.y, t.m)) /\ t.m < 12
  <2>1. Tomorrow(t) = [t EXCEPT !.m = t.m + 1, !.d = one]
    BY <1>1, <1>3 DEF Tomorrow
  <2>2. t.m + 1 \in Int
    BY <1>0
  <2>3. Tomorrow(t) \in Dates
    BY <1>1, <2>1, <2>2 DEF Dates
  <2>4. Tomorrow(t).y = t.y /\ Tomorrow(t).m = t.m + 1 /\ Tomorrow(t).d = one
    BY <2>1 DEF Dates
  <2> QED BY <1>1, <1>3, <2>3, <2>4
<1>4. CASE ~(t.d < MonthDays(t.y, t.m)) /\ ~(t.m < 12)
  <2>1. Tomorrow(t) = [y |-> t.y + 1, m |-> one, d |-> one]
    BY <1>1, <1>4 DEF Tomorrow
  <2>2. t.y + 1 \in Int
    BY <1>0
  <2> QED BY <1>1, <1>4, <2>1, <2>2 DEF Dates
<1> QED BY <1>2, <1>3, <1>4

\* Within such a year the date goes on by a day.
LEMMA DayStep ==
  ASSUME NEW y \in Int, NEW k \in Int, 0 <= k, k <= 364, k = 364 => Leap(y + 1)
  PROVE  Tomorrow(DateOf(y, k)) = DateOf(y, k + 1)
<1>0. PICK m, first, len : InMonth(k, m, first, len)
  <2>1. k <= 365
    BY SMT
  <2> QED BY <2>1, MonthExists
<1>1. /\ m \in Int /\ first \in Int /\ len \in Int
      /\ <<m, first, len>> \in Months /\ first <= k /\ k < first + len
  BY <1>0, SMT DEF InMonth
<1> DEFINE Y == y + (IF m <= 2 THEN 1 ELSE 0)
           t == DateOf(y, k)   u == DateOf(y, k + 1)   l == MonthDays(Y, m)
<1>2. t \in Dates /\ t.y = Y /\ t.m = m /\ t.d = k - first + 1
  BY <1>1, MonthOfDay, SMT
<1>3. l \in Int
  BY MonthDaysType
<1>4. k + 1 \in Int /\ Y \in Int
  BY SMT
<1>5. CASE k + 1 < first + len
  <2>1. u \in Dates /\ u.y = Y /\ u.m = m /\ u.d = k + 1 - first + 1
    <3>1. first <= k + 1
      BY <1>1, SMT
    <3> QED BY <1>1, <1>4, <1>5, <3>1, MonthOfDay, SMT
  <2>2. k - first + 1 < l
    <3>1. CASE m = 2
      <4>1. first = 337 /\ len = 29 /\ Y = y + 1
        BY <1>1, <3>1, SMT DEF Months
      <4>2. CASE k = 364
        BY <4>1, <4>2, <3>1, SMT DEF MonthDays
      <4>3. CASE k < 364
        BY <4>1, <4>3, <3>1, SMT DEF MonthDays
      <4> QED BY <4>2, <4>3, SMT
    <3>2. CASE m # 2
      <4>1. l = len
        BY <1>1, <3>2, SMT DEF MonthDays, Months
      <4> QED BY <1>1, <1>5, <4>1, SMT
    <3> QED BY <3>1, <3>2
  <2> HIDE DEF Y, t, u
  <2>3. Tomorrow(t) \in Dates /\ Tomorrow(t).y = Y /\ Tomorrow(t).m = m
        /\ Tomorrow(t).d = k - first + 1 + 1
    BY <1>2, <2>2, TomorrowOf
  <2>4. k - first + 1 + 1 = k + 1 - first + 1
    BY <1>1, SMT
  <2>5. Tomorrow(t) = u
    BY <2>1, <2>3, <2>4, SameDate
  <2> QED BY <2>5 DEF t, u
<1>6. CASE k + 1 = first + len
  <2> DEFINE n == IF m = 12 THEN 1 ELSE m + 1
             f == first + len
  <2>1. m # 2 /\ m >= 1 /\ m <= 12
    BY <1>1, <1>6, SMT DEF Months
  <2>2. PICK more \in Int : <<n, f, more>> \in Months /\ more > 0
    <3>1. m # 2 => \E more \in {29, 30, 31} : <<n, first + len, more>> \in Months
      BY <1>1, SMT DEF Months
    <3> QED BY <2>1, <3>1, SMT
  <2>3. ~(k - first + 1 < l)
    <3>1. l = len
      BY <1>1, <2>1, SMT DEF MonthDays, Months
    <3> QED BY <1>1, <1>6, <3>1, SMT
  <2>4. n \in Int /\ f \in Int /\ k + 1 = f
    BY <1>1, <1>6, SMT
  <2>5. u \in Dates /\ u.y = y + (IF n <= 2 THEN 1 ELSE 0) /\ u.m = n /\ u.d = 1
    <3> HIDE DEF n, f
    <3>1. f <= k + 1 /\ k + 1 < f + more /\ k + 1 - f + 1 = 1
      BY <2>2, <2>4, SMT
    <3> QED BY <1>4, <2>2, <2>4, <3>1, MonthOfDay, SMT
  <2>6. CASE m < 12
    <3>1. y + (IF n <= 2 THEN 1 ELSE 0) = Y /\ n = m + 1
      BY <1>1, <2>1, <2>6, SMT
    <3> HIDE DEF Y, t, u, n
    <3>2. Tomorrow(t) \in Dates /\ Tomorrow(t).y = Y /\ Tomorrow(t).m = m + 1 /\ Tomorrow(t).d = 1
      BY <1>2, <2>3, <2>6, TomorrowOf
    <3>3. Tomorrow(t) = u
      BY <2>5, <3>1, <3>2, SameDate
    <3> QED BY <3>3 DEF t, u
  <2>7. CASE m = 12
    <3>1. y + (IF n <= 2 THEN 1 ELSE 0) = Y + 1 /\ n = 1 /\ ~(m < 12)
      BY <2>7, SMT
    <3> HIDE DEF Y, t, u, n
    <3>2. Tomorrow(t) \in Dates /\ Tomorrow(t).y = Y + 1 /\ Tomorrow(t).m = 1 /\ Tomorrow(t).d = 1
      BY <1>2, <2>3, <3>1, TomorrowOf
    <3>3. Tomorrow(t) = u
      BY <2>5, <3>1, <3>2, SameDate
    <3> QED BY <3>3 DEF t, u
  <2> QED BY <1>1, <2>1, <2>6, <2>7, SMT
<1> QED BY <1>1, <1>5, <1>6, SMT

\* Its last day is the last of February, and the next one 1 March.
LEMMA YearTurn ==
  ASSUME NEW y \in Int, NEW k \in Int, k = IF Leap(y + 1) THEN 365 ELSE 364
  PROVE  Tomorrow(DateOf(y, k)) = DateOf(y + 1, 0)
<1> DEFINE t == DateOf(y, k)   u == DateOf(y + 1, 0)
<1>1. <<2, 337, 29>> \in Months /\ <<3, 0, 31>> \in Months
  BY SMT DEF Months
<1>2. t \in Dates /\ t.y = y + 1 /\ t.m = 2 /\ t.d = k - 337 + 1
  <2>1. 337 <= k /\ k < 337 + 29 /\ 2 \in Int /\ 337 \in Int /\ 29 \in Int
    BY SMT
  <2>2. t \in Dates /\ t.y = y + (IF 2 <= 2 THEN 1 ELSE 0) /\ t.m = 2 /\ t.d = k - 337 + 1
    BY <1>1, <2>1, MonthOfDay, SMT
  <2> QED BY <2>2, SMT
<1>3. u \in Dates /\ u.y = y + 1 /\ u.m = 3 /\ u.d = 1
  <2>1. 0 <= 0 /\ 0 < 0 + 31 /\ y + 1 \in Int /\ 3 \in Int /\ 0 \in Int /\ 31 \in Int
    BY SMT
  <2>2. u \in Dates /\ u.y = y + 1 + (IF 3 <= 2 THEN 1 ELSE 0) /\ u.m = 3 /\ u.d = 0 - 0 + 1
    BY <1>1, <2>1, MonthOfDay, SMT
  <2> QED BY <2>2, SMT
<1>4. ~(k - 337 + 1 < MonthDays(y + 1, 2)) /\ 2 < 12
  BY SMT DEF MonthDays
<1> HIDE DEF t, u
<1>5. Tomorrow(t) \in Dates /\ Tomorrow(t).y = y + 1 /\ Tomorrow(t).m = 2 + 1 /\ Tomorrow(t).d = 1
  <2>1. ~(t.d < MonthDays(t.y, t.m)) /\ t.m < 12
    BY <1>2, <1>4
  <2> QED BY <1>2, <2>1, TomorrowOf
<1>6. 2 + 1 = 3
  BY SMT
<1>7. Tomorrow(t) = u
  BY <1>3, <1>5, <1>6, SameDate
<1> QED BY <1>7 DEF t, u

LEMMA LeapPlace ==
  ASSUME NEW era \in Int, NEW c \in Int, NEW q \in Int, NEW r \in Int,
         0 <= c, c <= 3, 0 <= q, q <= 24, 0 <= r, r <= 3,
         NEW y \in Int, y = 400 * era + 100 * c + 4 * q + r
  PROVE  Leap(y + 1) <=> r = 3 /\ (q = 24 => c = 3)
<1> DEFINE Y == y + 1
<1>1. Y % 4 = 0 <=> r = 3
  BY Z3
<1>2. Y % 100 = 0 <=> r = 3 /\ q = 24
  BY Z3
<1>3. Y % 400 = 0 <=> r = 3 /\ q = 24 /\ c = 3
  BY Z3
<1> QED BY <1>1, <1>2, <1>3, SMT DEF Leap

\* civil_from_days goes on as the calendar does, from every day.
LEMMA NextDay ==
  ASSUME NEW z \in Int
  PROVE  civil_from_days(z + 1) = Tomorrow(civil_from_days(z))
<1>1. PICK era, c, q, r, k : Place(z, era, c, q, r, k)
  BY PlaceOf
<1> DEFINE y == 400 * era + 100 * c + 4 * q + r
<1>2. /\ era \in Int /\ c \in Int /\ q \in Int /\ r \in Int /\ k \in Int
      /\ 0 <= c /\ c <= 3 /\ 0 <= q /\ q <= 24 /\ 0 <= r /\ r <= 3 /\ 0 <= k /\ k <= 365
      /\ k = 365 => r = 3 /\ (q = 24 => c = 3)
      /\ z + 719468 = 146097 * era + 36524 * c + 1461 * q + 365 * r + k
  BY <1>1, SMT DEF Place
<1>3. civil_from_days(z) = DateOf(y, k) /\ y \in Int
  BY <1>1, <1>2, CivilOfPlace, SMT
<1>4. Leap(y + 1) <=> r = 3 /\ (q = 24 => c = 3)
  <2>1. /\ era \in Int /\ c \in Int /\ q \in Int /\ r \in Int
        /\ 0 <= c /\ c <= 3 /\ 0 <= q /\ q <= 24 /\ 0 <= r /\ r <= 3
    BY <1>2, SMT
  <2>2. y = 400 * era + 100 * c + 4 * q + r
    OBVIOUS
  <2> HIDE DEF y
  <2> QED BY <1>3, <2>1, <2>2, LeapPlace, SMT DEF Leap
<1>5. z + 1 \in Int
  BY SMT
<1>6. ASSUME NEW era2, NEW c2, NEW q2, NEW r2, NEW k2, Place(z + 1, era2, c2, q2, r2, k2)
      PROVE  civil_from_days(z + 1) = DateOf(400 * era2 + 100 * c2 + 4 * q2 + r2, k2)
  BY <1>5, <1>6, CivilOfPlace, SMT
<1>7. CASE k <= 364 /\ (k = 364 => Leap(y + 1))
  <2>1. Place(z + 1, era, c, q, r, k + 1)
    BY <1>2, <1>4, <1>7, SMT DEF Place
  <2>2. civil_from_days(z + 1) = DateOf(y, k + 1)
    BY <1>6, <2>1, SMT
  <2> HIDE DEF y
  <2> QED BY <1>2, <1>3, <1>7, <2>2, DayStep, SMT
<1>8. CASE k = IF Leap(y + 1) THEN 365 ELSE 364
  <2>1. civil_from_days(z + 1) = DateOf(y + 1, 0)
    <3>1. CASE r < 3
      <4>1. Place(z + 1, era, c, q, r + 1, 0)
        BY <1>2, <1>4, <1>8, <3>1, SMT DEF Place
      <4>2. 400 * era + 100 * c + 4 * q + (r + 1) = y + 1
        BY <1>2, SMT
      <4> QED BY <1>6, <4>1, <4>2, SMT
    <3>2. CASE r = 3 /\ q < 24
      <4>1. Place(z + 1, era, c, q + 1, 0, 0)
        BY <1>2, <1>4, <1>8, <3>2, SMT DEF Place
      <4>2. 400 * era + 100 * c + 4 * (q + 1) + 0 = y + 1
        BY <1>2, <3>2, SMT
      <4> QED BY <1>6, <4>1, <4>2, SMT
    <3>3. CASE r = 3 /\ q = 24 /\ c < 3
      <4>1. Place(z + 1, era, c + 1, 0, 0, 0)
        BY <1>2, <1>4, <1>8, <3>3, SMT DEF Place
      <4>2. 400 * era + 100 * (c + 1) + 4 * 0 + 0 = y + 1
        BY <1>2, <3>3, SMT
      <4> QED BY <1>6, <4>1, <4>2, SMT
    <3>4. CASE r = 3 /\ q = 24 /\ c = 3
      <4>1. Place(z + 1, era + 1, 0, 0, 0, 0)
        BY <1>2, <1>4, <1>8, <3>4, SMT DEF Place
      <4>2. 400 * (era + 1) + 100 * 0 + 4 * 0 + 0 = y + 1
        BY <1>2, <3>4, SMT
      <4> QED BY <1>6, <4>1, <4>2, SMT
    <3> QED BY <1>2, <3>1, <3>2, <3>3, <3>4, SMT
  <2> HIDE DEF y
  <2> QED BY <1>2, <1>3, <1>8, <2>1, YearTurn, SMT
<1> QED BY <1>2, <1>4, <1>7, <1>8, SMT

\* The first of January, wherever the dates begin.
LEMMA FirstDay ==
  ASSUME NEW y \in Int
  PROVE  NewYear(y) \in Int /\ civil_from_days(NewYear(y)) = [y |-> y, m |-> 1, d |-> 1]
<1> DEFINE v == y - 1   era == v \div 400   c == (v % 400) \div 100
           q == (v % 100) \div 4   r == v % 4
<1>1. /\ era \in Int /\ c \in Int /\ q \in Int /\ r \in Int
      /\ 0 <= c /\ c <= 3 /\ 0 <= q /\ q <= 24 /\ 0 <= r /\ r <= 3
      /\ v = 400 * era + 100 * c + 4 * q + r
  BY Z3
<1>2. v \div 4 = 100 * era + 25 * c + q /\ v \div 100 = 4 * era + c
  BY Z3
<1> HIDE DEF era, c, q, r
<1>3. NewYear(y) = 365 * (y - 1970) + v \div 4 - v \div 100 + era - 477
  BY <1>1, <1>2, SMT DEF NewYear, era
<1>4. NewYear(y) + 719468 = 146097 * era + 36524 * c + 1461 * q + 365 * r + 306 /\ NewYear(y) \in Int
  BY <1>1, <1>2, <1>3, SMT
<1>5. Place(NewYear(y), era, c, q, r, 306)
  BY <1>1, <1>4, SMT DEF Place
<1>6. civil_from_days(NewYear(y)) = DateOf(y - 1, 306)
  BY <1>1, <1>4, <1>5, CivilOfPlace, SMT
<1> DEFINE t == DateOf(y - 1, 306)   u == [y |-> y, m |-> 1, d |-> 1]
<1>7. t \in Dates /\ t.y = y /\ t.m = 1 /\ t.d = 1
  <2>1. <<1, 306, 31>> \in Months /\ 306 <= 306 /\ 306 < 306 + 31 /\ y - 1 \in Int
        /\ 1 \in Int /\ 306 \in Int /\ 31 \in Int
    BY SMT DEF Months
  <2>2. t \in Dates /\ t.y = y - 1 + (IF 1 <= 2 THEN 1 ELSE 0) /\ t.m = 1 /\ t.d = 306 - 306 + 1
    BY <2>1, MonthOfDay, SMT
  <2> QED BY <2>2, SMT
<1>8. u \in Dates /\ u.y = y /\ u.m = 1 /\ u.d = 1
  BY SMT DEF Dates
<1> HIDE DEF t, u
<1>9. t = u
  BY <1>7, <1>8, SameDate
<1> QED BY <1>4, <1>6, <1>9, SMT DEF t, u

LEMMA CivilType ==
  ASSUME NEW z \in Int
  PROVE  civil_from_days(z) \in Dates
<1>1. PICK era, c, q, r, k : Place(z, era, c, q, r, k)
  BY PlaceOf
<1> DEFINE y == 400 * era + 100 * c + 4 * q + r
<1>2. y \in Int /\ k \in Int /\ 0 <= k /\ k <= 365
  BY <1>1, SMT DEF Place
<1>3. civil_from_days(z) = DateOf(y, k)
  BY <1>1, CivilOfPlace, SMT
<1> HIDE DEF y
<1>4. PICK m, first, len : InMonth(k, m, first, len)
  BY <1>2, MonthExists
<1>5. /\ m \in Int /\ first \in Int /\ len \in Int
      /\ <<m, first, len>> \in Months /\ first <= k /\ k < first + len
  BY <1>4, SMT DEF InMonth
<1>6. DateOf(y, k) \in Dates
  BY <1>2, <1>5, MonthOfDay
<1> QED BY <1>3, <1>6

-----------------------------------------------------------------------------
(* The time of day of ptp_format_utc.                                      *)

\* The second S and the fraction f of t are rounded down, before 1970 too.
RoundsDown(t, n, S, f) ==
  /\ Rem(t, n) \in Int /\ Quot(t, n) \in Int
  /\ Rem(t, n) < 0 => Rem(t, n) + n = f /\ Quot(t, n) - 1 = S
  /\ ~(Rem(t, n) < 0) => Rem(t, n) = f /\ Quot(t, n) = S

LEMMA SecondAndFraction ==
  ASSUME NEW n \in Nat \ {0}, NEW S \in Int, NEW f \in Int, NEW t \in Int,
         0 <= f, f < n, t = n * S + f
  PROVE  RoundsDown(t, n, S, f)
<1>0. n * S \in Int /\ f \in 0..(n - 1)
  BY Z3
<1>1. CASE t >= 0
  <2>1. t \div n = S
    BY <1>0, DivModUnique
  <2>2. Quot(t, n) = S
    BY <1>1, <2>1 DEF Quot
  <2>3. Rem(t, n) = f
    BY <1>0, <2>2 DEF Rem
  <2> QED BY <2>2, <2>3 DEF RoundsDown
<1>2. CASE t < 0 /\ f = 0
  <2>1. -t = n * (-S) + 0 /\ -S \in Int /\ 0 \in 0..(n - 1)
    BY <1>2, Z3
  <2>2. (n * (-S) + 0) \div n = -S
    BY <2>1, DivModUnique
  <2>3. Quot(t, n) = S
    <3>1. ~(t >= 0) /\ -(-S) = S
      BY <1>2
    <3> QED BY <2>1, <2>2, <3>1 DEF Quot
  <2>4. Rem(t, n) = 0
    BY <1>0, <1>2, <2>3 DEF Rem
  <2> QED BY <1>2, <2>3, <2>4 DEF RoundsDown
<1>3. CASE t < 0 /\ f > 0
  <2>1. -t = n * (-S - 1) + (n - f) /\ -S - 1 \in Int /\ n - f \in 0..(n - 1)
    BY <1>3, Z3
  <2>2. (n * (-S - 1) + (n - f)) \div n = -S - 1
    BY <2>1, DivModUnique
  <2>3. Quot(t, n) = S + 1
    <3>1. ~(t >= 0) /\ -(-S - 1) = S + 1
      BY <1>3
    <3> QED BY <2>1, <2>2, <3>1 DEF Quot
  <2>4. Rem(t, n) = f - n
    <3>1. n * (S + 1) = n * S + n
      BY Z3
    <3> QED BY <1>0, <2>3, <3>1 DEF Rem
  <2> QED BY <2>3, <2>4, <1>3 DEF RoundsDown
<1> QED BY <1>1, <1>2, <1>3

Hours == DAY \div HOUR
Minutes == HOUR \div MINUTE

LEMMA Units ==
  /\ DAY \in Nat \ {0} /\ HOUR \in Nat \ {0} /\ MINUTE \in Nat \ {0} /\ NS_PER_S \in Nat \ {0}
  /\ Hours \in Nat \ {0} /\ Minutes \in Nat \ {0}
  /\ DAY = HOUR * Hours /\ HOUR = MINUTE * Minutes
<1>1. /\ DAY \in Nat \ {0} /\ HOUR \in Nat \ {0} /\ MINUTE \in Nat \ {0}
      /\ NS_PER_S \in Nat \ {0} /\ HOUR % MINUTE = 0 /\ DAY % HOUR = 0
  BY PtpClockAssumption
<1>2. ASSUME NEW a \in Nat \ {0}, NEW b \in Nat \ {0}, a % b = 0
      PROVE  a \div b \in Nat \ {0} /\ a = b * (a \div b)
  <2> DEFINE q == a \div b
  <2>1. q \in Int /\ a = b * q + 0
    <3>1. a \in Int
      OBVIOUS
    <3> QED BY <1>2, <3>1, DivMod
  <2> HIDE DEF q
  <2>2. a = b * q
    <3>1. b * q \in Int
      BY <2>1
    <3> QED BY <2>1, <3>1
  <2>3. q > 0
    BY <2>1, <2>2, Z3
  <2> QED BY <2>1, <2>2, <2>3 DEF q
<1> QED BY <1>1, <1>2 DEF Hours, Minutes

\* A time by its day, hour, minute, second and nanosecond.
Clocked(t, day, h, mi, s, f) ==
  /\ {t, day, h, mi, s, f} \subseteq Int
  /\ 0 <= h /\ h < Hours /\ 0 <= mi /\ mi < Minutes
  /\ 0 <= s /\ s < MINUTE /\ 0 <= f /\ f < NS_PER_S
  /\ t = NS_PER_S * (DAY * day + HOUR * h + MINUTE * mi + s) + f

\* ptp_format_utc takes a time apart.
LEMMA FormatsTime ==
  ASSUME NEW t, NEW day, NEW h, NEW mi, NEW s, NEW f, Clocked(t, day, h, mi, s, f)
  PROVE  ptp_format_utc(t) = [date |-> civil_from_days(day), hour |-> h, minute |-> mi,
                              second |-> s, ns |-> f]
<1> DEFINE S == DAY * day + HOUR * h + MINUTE * mi + s
           low == Rem(t, NS_PER_S) < 0
           secs == Quot(t, NS_PER_S) - (IF low THEN 1 ELSE 0)
           sod == secs - DayOf(secs) * DAY
           rest == HOUR * h + MINUTE * mi + s
<1>0. /\ t \in Int /\ day \in Int /\ h \in Int /\ mi \in Int /\ s \in Int /\ f \in Int
      /\ 0 <= h /\ h < Hours /\ 0 <= mi /\ mi < Minutes
      /\ 0 <= s /\ s < MINUTE /\ 0 <= f /\ f < NS_PER_S
      /\ t = NS_PER_S * S + f
  BY DEF Clocked
<1>1. S \in Int
  BY <1>0, Units
<1>2. secs = S /\ Rem(t, NS_PER_S) + (IF low THEN NS_PER_S ELSE 0) = f
  <2> HIDE DEF S
  <2>1. /\ NS_PER_S \in Nat \ {0} /\ S \in Int /\ f \in Int /\ 0 <= f /\ f < NS_PER_S
        /\ t \in Int /\ t = NS_PER_S * S + f
    BY <1>0, <1>1, Units
  <2>2. /\ Rem(t, NS_PER_S) \in Int /\ Quot(t, NS_PER_S) \in Int
        /\ low => Rem(t, NS_PER_S) + NS_PER_S = f /\ Quot(t, NS_PER_S) - 1 = S
        /\ ~low => Rem(t, NS_PER_S) = f /\ Quot(t, NS_PER_S) = S
    <3>1. RoundsDown(t, NS_PER_S, S, f)
      BY <2>1, SecondAndFraction
    <3> QED BY <3>1 DEF RoundsDown
  <2> HIDE DEF low
  <2> QED BY <2>2
<1>3. /\ HOUR * h \in Int /\ MINUTE * mi \in Int /\ DAY * day \in Int
      /\ 0 <= HOUR * h /\ HOUR * h + HOUR <= DAY
      /\ 0 <= MINUTE * mi /\ MINUTE * mi + MINUTE <= HOUR
  <2>1. ASSUME NEW a \in Nat \ {0}, NEW b \in Nat \ {0}, NEW x \in Int, 0 <= x, x < b
        PROVE  a * x \in Int /\ 0 <= a * x /\ a * x + a <= a * b
    <3>1. a * x \in Int /\ a * b \in Int /\ 0 <= a * x
      BY <2>1, Z3
    <3>2. a * (x + 1) <= a * b
      BY <2>1, Z3
    <3>3. a * (x + 1) = a * x + a
      BY Z3
    <3> QED BY <3>1, <3>2, <3>3
  <2>2. HOUR * h \in Int /\ 0 <= HOUR * h /\ HOUR * h + HOUR <= HOUR * Hours
    BY <1>0, <2>1, Units
  <2>3. MINUTE * mi \in Int /\ 0 <= MINUTE * mi /\ MINUTE * mi + MINUTE <= MINUTE * Minutes
    BY <1>0, <2>1, Units
  <2>4. DAY * day \in Int
    BY <1>0, Units
  <2> QED BY <2>2, <2>3, <2>4, Units
<1>4. rest \in 0..(DAY - 1) /\ S = DAY * day + rest
  BY <1>0, <1>3, Units
<1> HIDE DEF rest, S
<1>5. DayOf(S) = day
  <2>1. (IF S >= 0 THEN Quot(S, DAY) ELSE Quot(S - (DAY - 1), DAY)) = S \div DAY
    BY <1>1, Units, QuotDown
  <2>2. S \div DAY = day
    BY <1>0, <1>4, Units, DivModUnique
  <2> QED BY <2>1, <2>2 DEF DayOf
<1>6. sod = rest
  <2>1. day * DAY = DAY * day
    BY <1>0, Units, Z3
  <2>2. sod = S - day * DAY
    BY <1>2, <1>5
  <2>3. rest \in Int
    BY <1>4, Units
  <2> QED BY <1>3, <1>4, <2>1, <2>2, <2>3
<1>7. rest \div HOUR = h
  <2>1. MINUTE * mi + s \in 0..(HOUR - 1) /\ rest = HOUR * h + (MINUTE * mi + s)
    BY <1>0, <1>3, Units DEF rest
  <2> QED BY <1>0, <2>1, Units, DivModUnique
<1>8. rest % MINUTE = s /\ (rest \div MINUTE) % Minutes = mi
  <2> DEFINE p == Minutes * h + mi
  <2>1. rest = MINUTE * p + s /\ p \in Int
    <3>1. HOUR * h = MINUTE * (Minutes * h) /\ Minutes * h \in Int
      <4>1. (MINUTE * Minutes) * h = MINUTE * (Minutes * h)
        BY <1>0, Units, Z3
      <4> QED BY <1>0, <4>1, Units
    <3>2. MINUTE * p = MINUTE * (Minutes * h) + MINUTE * mi
      BY <1>0, <3>1, Units, Z3
    <3> QED BY <1>0, <1>3, <3>1, <3>2, Units DEF rest
  <2>2. s \in 0..(MINUTE - 1) /\ mi \in 0..(Minutes - 1)
    BY <1>0, Units
  <2>3. p % Minutes = mi
    BY <1>0, <2>2, Units, DivModUnique
  <2> HIDE DEF p
  <2>4. rest % MINUTE = s /\ rest \div MINUTE = p
    BY <2>1, <2>2, Units, DivModUnique
  <2> QED BY <2>3, <2>4
<1>9. ptp_format_utc(t) =
        [date |-> civil_from_days(DayOf(secs)), hour |-> sod \div HOUR,
         minute |-> (sod \div MINUTE) % Minutes, second |-> sod % MINUTE,
         ns |-> Rem(t, NS_PER_S) + (IF low THEN NS_PER_S ELSE 0)]
  BY DEF ptp_format_utc, Minutes
<1> QED BY <1>2, <1>5, <1>6, <1>7, <1>8, <1>9

Walls == [date : Dates, hour : Int, minute : Int, second : Int, ns : Int]

\* The wall shows the time that ptp_format_utc would print.
DateInv ==
  /\ wall \in Walls
  /\ \E day \in Int : /\ wall.date = civil_from_days(day)
                      /\ Clocked(utc, day, wall.hour, wall.minute, wall.second, wall.ns)

\* A nanosecond more, and what it carries.
LEMMA ClockedLater ==
  ASSUME NEW t, NEW day, NEW h, NEW mi, NEW s, NEW f, Clocked(t, day, h, mi, s, f)
  PROVE  IF f + 1 < NS_PER_S THEN Clocked(t + 1, day, h, mi, s, f + 1)
         ELSE IF s + 1 < MINUTE THEN Clocked(t + 1, day, h, mi, s + 1, 0)
         ELSE IF mi + 1 < Minutes THEN Clocked(t + 1, day, h, mi + 1, 0, 0)
         ELSE IF h + 1 < Hours THEN Clocked(t + 1, day, h + 1, 0, 0, 0)
         ELSE Clocked(t + 1, day + 1, 0, 0, 0, 0)
<1> DEFINE S == DAY * day + HOUR * h + MINUTE * mi + s
<1>0. /\ t \in Int /\ day \in Int /\ h \in Int /\ mi \in Int /\ s \in Int /\ f \in Int
      /\ 0 <= h /\ h < Hours /\ 0 <= mi /\ mi < Minutes
      /\ 0 <= s /\ s < MINUTE /\ 0 <= f /\ f < NS_PER_S
      /\ t = NS_PER_S * S + f
  BY DEF Clocked
<1>1. DAY * day \in Int /\ HOUR * h \in Int /\ MINUTE * mi \in Int
  BY <1>0, Units
<1>2. S \in Int /\ NS_PER_S * S \in Int
  BY <1>0, <1>1, Units
<1>3. CASE f + 1 < NS_PER_S
  <2>1. t + 1 = NS_PER_S * S + (f + 1) /\ t + 1 \in Int /\ f + 1 \in Int /\ 0 <= f + 1
    BY <1>0, <1>2
  <2>2. Clocked(t + 1, day, h, mi, s, f + 1)
    BY <1>0, <1>3, <2>1 DEF Clocked
  <2> QED BY <1>3, <2>2
<1>4. ASSUME ~(f + 1 < NS_PER_S), NEW T \in Int, T = S + 1
      PROVE  t + 1 = NS_PER_S * T + 0 /\ t + 1 \in Int
  <2>1. NS_PER_S * (S + 1) = NS_PER_S * S + NS_PER_S
    BY <1>2, Units, Z3
  <2>2. f + 1 = NS_PER_S
    BY <1>0, <1>4, Units
  <2> HIDE DEF S
  <2> QED BY <1>0, <1>2, <1>4, <2>1, <2>2, Units
<1>5. PICK zero : zero = 0 /\ zero \in Int
  OBVIOUS
<1>6. CASE ~(f + 1 < NS_PER_S) /\ s + 1 < MINUTE
  <2> DEFINE T == DAY * day + HOUR * h + MINUTE * mi + (s + 1)
  <2>1. T \in Int /\ T = S + 1
    BY <1>0, <1>1
  <2>2. t + 1 = NS_PER_S * T + 0 /\ t + 1 \in Int
    BY <1>4, <1>6, <2>1
  <2>3. s + 1 \in Int /\ 0 <= s + 1
    BY <1>0
  <2>4. Clocked(t + 1, day, h, mi, s + 1, 0)
    BY <1>0, <1>5, <1>6, <2>2, <2>3, Units DEF Clocked
  <2> QED BY <1>6, <2>4
<1>7. CASE ~(f + 1 < NS_PER_S) /\ ~(s + 1 < MINUTE) /\ mi + 1 < Minutes
  <2> DEFINE T == DAY * day + HOUR * h + MINUTE * (mi + 1) + 0
  <2>1. MINUTE * (mi + 1) = MINUTE * mi + MINUTE
    BY <1>0, Units, Z3
  <2>2. s + 1 = MINUTE
    BY <1>0, <1>7, Units
  <2>3. T \in Int /\ T = S + 1
    BY <1>0, <1>1, <2>1, <2>2, Units
  <2>4. t + 1 = NS_PER_S * T + 0 /\ t + 1 \in Int
    BY <1>4, <1>7, <2>3
  <2>5. mi + 1 \in Int /\ 0 <= mi + 1
    BY <1>0
  <2>6. Clocked(t + 1, day, h, mi + 1, 0, 0)
    BY <1>0, <1>5, <1>7, <2>4, <2>5, Units DEF Clocked
  <2> QED BY <1>7, <2>6
<1>8. CASE /\ ~(f + 1 < NS_PER_S) /\ ~(s + 1 < MINUTE) /\ ~(mi + 1 < Minutes)
           /\ h + 1 < Hours
  <2> DEFINE T == DAY * day + HOUR * (h + 1) + MINUTE * 0 + 0
  <2>1. HOUR * (h + 1) = HOUR * h + HOUR /\ MINUTE * 0 = 0
    BY <1>0, Units, Z3
  <2>2. s + 1 = MINUTE /\ mi + 1 = Minutes
    BY <1>0, <1>8, Units
  <2>3. MINUTE * mi + MINUTE = HOUR
    <3>1. MINUTE * (mi + 1) = MINUTE * mi + MINUTE
      BY <1>0, Units, Z3
    <3> QED BY <2>2, <3>1, Units
  <2>4. T \in Int /\ T = S + 1
    BY <1>0, <1>1, <2>1, <2>2, <2>3, Units
  <2>5. t + 1 = NS_PER_S * T + 0 /\ t + 1 \in Int
    BY <1>4, <1>8, <2>4
  <2>6. h + 1 \in Int /\ 0 <= h + 1
    BY <1>0
  <2>7. Clocked(t + 1, day, h + 1, 0, 0, 0)
    BY <1>0, <1>5, <1>8, <2>5, <2>6, Units DEF Clocked
  <2> QED BY <1>8, <2>7
<1>9. CASE /\ ~(f + 1 < NS_PER_S) /\ ~(s + 1 < MINUTE) /\ ~(mi + 1 < Minutes)
           /\ ~(h + 1 < Hours)
  <2> DEFINE T == DAY * (day + 1) + HOUR * 0 + MINUTE * 0 + 0
  <2>1. DAY * (day + 1) = DAY * day + DAY /\ HOUR * 0 = 0 /\ MINUTE * 0 = 0
    BY <1>0, Units, Z3
  <2>2. s + 1 = MINUTE /\ mi + 1 = Minutes /\ h + 1 = Hours
    BY <1>0, <1>9, Units
  <2>3. MINUTE * mi + MINUTE = HOUR /\ HOUR * h + HOUR = DAY
    <3>1. MINUTE * (mi + 1) = MINUTE * mi + MINUTE /\ HOUR * (h + 1) = HOUR * h + HOUR
      BY <1>0, Units, Z3
    <3> QED BY <2>2, <3>1, Units
  <2>4. T \in Int /\ T = S + 1
    BY <1>0, <1>1, <2>1, <2>2, <2>3, Units
  <2>5. t + 1 = NS_PER_S * T + 0 /\ t + 1 \in Int
    BY <1>4, <1>9, <2>4
  <2>6. day + 1 \in Int
    BY <1>0
  <2>7. Clocked(t + 1, day + 1, 0, 0, 0, 0)
    BY <1>0, <1>5, <1>9, <2>5, <2>6, Units DEF Clocked
  <2> QED BY <1>9, <2>7
<1> QED BY <1>3, <1>6, <1>7, <1>8, <1>9

LEMMA DateStep == DateInv /\ [DateNext]_<<utc, wall>> => DateInv'
<1> SUFFICES ASSUME DateInv, DateNext PROVE DateInv'
  BY DEF DateInv
<1>1. PICK day \in Int :
        /\ wall.date = civil_from_days(day)
        /\ Clocked(utc, day, wall.hour, wall.minute, wall.second, wall.ns)
  BY DEF DateInv
<1>2. utc' = utc + 1 /\ wall' = Later(wall)
  BY DEF DateNext
<1>3. IF wall.ns + 1 < NS_PER_S
      THEN Clocked(utc + 1, day, wall.hour, wall.minute, wall.second, wall.ns + 1)
      ELSE IF wall.second + 1 < MINUTE
      THEN Clocked(utc + 1, day, wall.hour, wall.minute, wall.second + 1, 0)
      ELSE IF wall.minute + 1 < Minutes
      THEN Clocked(utc + 1, day, wall.hour, wall.minute + 1, 0, 0)
      ELSE IF wall.hour + 1 < Hours THEN Clocked(utc + 1, day, wall.hour + 1, 0, 0, 0)
      ELSE Clocked(utc + 1, day + 1, 0, 0, 0, 0)
  BY <1>1, ClockedLater
<1>4. /\ wall \in Walls /\ wall.hour + 1 \in Int /\ wall.minute + 1 \in Int
      /\ wall.second + 1 \in Int /\ wall.ns + 1 \in Int
  BY DEF DateInv, Walls
<1>5. PICK zero : zero = 0 /\ zero \in Int
  OBVIOUS
<1>6. ASSUME NEW d \in Int, wall' \in Walls, wall'.date = civil_from_days(d),
             Clocked(utc + 1, d, wall'.hour, wall'.minute, wall'.second, wall'.ns)
      PROVE  DateInv'
  BY <1>2, <1>6 DEF DateInv
<1>7. CASE wall.ns + 1 < NS_PER_S
  <2>1. wall' = [wall EXCEPT !.ns = wall.ns + 1]
    BY <1>2, <1>7 DEF Later
  <2>2. /\ wall' \in Walls /\ wall'.date = wall.date /\ wall'.hour = wall.hour
        /\ wall'.minute = wall.minute /\ wall'.second = wall.second
        /\ wall'.ns = wall.ns + 1
    BY <1>4, <2>1 DEF Walls
  <2> QED BY <1>1, <1>3, <1>6, <1>7, <2>2
<1>8. CASE ~(wall.ns + 1 < NS_PER_S) /\ wall.second + 1 < MINUTE
  <2>1. wall' = [wall EXCEPT !.ns = zero, !.second = wall.second + 1]
    BY <1>2, <1>5, <1>8 DEF Later
  <2>2. /\ wall' \in Walls /\ wall'.date = wall.date /\ wall'.hour = wall.hour
        /\ wall'.minute = wall.minute /\ wall'.second = wall.second + 1
        /\ wall'.ns = zero
    BY <1>4, <1>5, <2>1 DEF Walls
  <2> QED BY <1>1, <1>3, <1>5, <1>6, <1>8, <2>2
<1>9. CASE /\ ~(wall.ns + 1 < NS_PER_S) /\ ~(wall.second + 1 < MINUTE)
           /\ wall.minute + 1 < Minutes
  <2>1. wall' = [wall EXCEPT !.ns = zero, !.second = zero, !.minute = wall.minute + 1]
    BY <1>2, <1>5, <1>9 DEF Later, Minutes
  <2>2. /\ wall' \in Walls /\ wall'.date = wall.date /\ wall'.hour = wall.hour
        /\ wall'.minute = wall.minute + 1 /\ wall'.second = zero
        /\ wall'.ns = zero
    BY <1>4, <1>5, <2>1 DEF Walls
  <2> QED BY <1>1, <1>3, <1>5, <1>6, <1>9, <2>2
<1>10. CASE /\ ~(wall.ns + 1 < NS_PER_S) /\ ~(wall.second + 1 < MINUTE)
            /\ ~(wall.minute + 1 < Minutes) /\ wall.hour + 1 < Hours
  <2>1. wall' = [wall EXCEPT !.ns = zero, !.second = zero, !.minute = zero,
                             !.hour = wall.hour + 1]
    BY <1>2, <1>5, <1>10 DEF Later, Minutes, Hours
  <2>2. /\ wall' \in Walls /\ wall'.date = wall.date /\ wall'.hour = wall.hour + 1
        /\ wall'.minute = zero /\ wall'.second = zero
        /\ wall'.ns = zero
    BY <1>4, <1>5, <2>1 DEF Walls
  <2> QED BY <1>1, <1>3, <1>5, <1>6, <1>10, <2>2
<1>11. CASE /\ ~(wall.ns + 1 < NS_PER_S) /\ ~(wall.second + 1 < MINUTE)
            /\ ~(wall.minute + 1 < Minutes) /\ ~(wall.hour + 1 < Hours)
  <2>1. wall' = [date |-> Tomorrow(wall.date), hour |-> zero, minute |-> zero,
                 second |-> zero, ns |-> zero]
    BY <1>2, <1>5, <1>11 DEF Later, Minutes, Hours
  <2>2. day + 1 \in Int
    OBVIOUS
  <2>3. civil_from_days(day + 1) = Tomorrow(wall.date)
    BY <1>1, NextDay
  <2>4. Tomorrow(wall.date) \in Dates
    BY <2>2, <2>3, CivilType
  <2>5. /\ wall' \in Walls /\ wall'.date = civil_from_days(day + 1) /\ wall'.hour = zero
        /\ wall'.minute = zero /\ wall'.second = zero /\ wall'.ns = zero
    BY <1>5, <2>1, <2>3, <2>4 DEF Walls
  <2> QED BY <1>3, <1>5, <1>6, <1>11, <2>2, <2>5
<1> QED BY <1>7, <1>8, <1>9, <1>10, <1>11

LEMMA DateStart == DateInit => DateInv
<1> SUFFICES ASSUME DateInit PROVE DateInv
  OBVIOUS
<1>1. PICK y \in FirstYears :
        /\ utc = NewYear(y) * DAY * NS_PER_S
        /\ wall = [date |-> [y |-> y, m |-> 1, d |-> 1], hour |-> 0, minute |-> 0,
                   second |-> 0, ns |-> 0]
  BY DEF DateInit
<1> DEFINE day == NewYear(y)
<1>2. y \in Int
  BY PtpClockAssumption
<1>3. day \in Int /\ civil_from_days(day) = [y |-> y, m |-> 1, d |-> 1]
  BY <1>2, FirstDay
<1>4. civil_from_days(day) \in Dates
  BY <1>3, CivilType
<1> HIDE DEF day
<1>5. PICK zero : zero = 0 /\ zero \in Int
  OBVIOUS
<1>6. wall = [date |-> civil_from_days(day), hour |-> zero, minute |-> zero,
              second |-> zero, ns |-> zero]
  BY <1>1, <1>3, <1>5
<1>7. /\ wall \in Walls /\ wall.date = civil_from_days(day) /\ wall.hour = zero
      /\ wall.minute = zero /\ wall.second = zero /\ wall.ns = zero
  BY <1>4, <1>5, <1>6 DEF Walls
<1>8. utc = NS_PER_S * (DAY * day + HOUR * 0 + MINUTE * 0 + 0) + 0 /\ utc \in Int
  <2>1. DAY * day + HOUR * 0 + MINUTE * 0 + 0 = DAY * day /\ DAY * day \in Int
    BY <1>3, Units, Z3
  <2>2. day * DAY * NS_PER_S = NS_PER_S * (DAY * day) + 0 /\ NS_PER_S * (DAY * day) \in Int
    BY <1>3, Units, Z3
  <2>3. utc = day * DAY * NS_PER_S
    BY <1>1 DEF day
  <2> QED BY <2>1, <2>2, <2>3
<1>9. Clocked(utc, day, 0, 0, 0, 0)
  BY <1>3, <1>5, <1>8, Units DEF Clocked
<1> QED BY <1>3, <1>5, <1>7, <1>9 DEF DateInv

\* What ptp_format_utc prints is the date of the proleptic Gregorian calendar
\* and the time of day: after any number of days from any New Year, before 1970
\* too, and after the UTC offset is taken off a TAI clock.
THEOREM DatesAreRight == DateSpec => []DateIsRight
<1>1. DateInv => DateIsRight
  <2> SUFFICES ASSUME DateInv, NEW off \in UtcOffsets, NEW tai \in BOOLEAN, NEW valid \in BOOLEAN
               PROVE  LET t == IF tai /\ valid THEN utc + off * NS_PER_S ELSE utc
                      IN  ptp_format_utc(ptp_core_utc_now_ns(t, tai, valid, off)) = wall
    BY DEF DateIsRight
  <2> DEFINE t == IF tai /\ valid THEN utc + off * NS_PER_S ELSE utc
  <2>1. PICK day \in Int :
          /\ wall.date = civil_from_days(day)
          /\ Clocked(utc, day, wall.hour, wall.minute, wall.second, wall.ns)
    BY DEF DateInv
  <2>2. ptp_core_utc_now_ns(t, tai, valid, off) = utc
    <3>1. utc \in Int /\ off * NS_PER_S \in Int
      <4>1. off \in Int /\ NS_PER_S \in Int
        BY PtpClockAssumption
      <4> QED BY <2>1, <4>1 DEF Clocked
    <3>2. utc + off * NS_PER_S - off * NS_PER_S = utc
      BY <3>1
    <3>3. CASE tai /\ valid
      <4>1. t = utc + off * NS_PER_S
        BY <3>3
      <4> HIDE DEF t
      <4>2. ptp_core_utc_now_ns(t, tai, valid, off) = t - off * NS_PER_S
        BY <3>3 DEF ptp_core_utc_now_ns
      <4> QED BY <3>1, <3>2, <4>1, <4>2
    <3>4. CASE ~(tai /\ valid)
      BY <3>4 DEF ptp_core_utc_now_ns
    <3> QED BY <3>3, <3>4
  <2>3. ptp_format_utc(utc) =
          [date |-> wall.date, hour |-> wall.hour, minute |-> wall.minute,
           second |-> wall.second, ns |-> wall.ns]
    BY <2>1, FormatsTime
  <2>4. wall = [date |-> wall.date, hour |-> wall.hour, minute |-> wall.minute,
                second |-> wall.second, ns |-> wall.ns]
    BY DEF DateInv, Walls
  <2> QED BY <2>2, <2>3, <2>4
<1> QED BY <1>1, DateStart, DateStep, PTL DEF DateSpec
==============================================================================
