------------------------------- MODULE MsgTag -------------------------------
(***************************************************************************)
(* kernel/msgtag.c: the IPC message tag, one 32-bit word with four fields. *)
(* The word is the set of the positions of its set bits.                   *)
(***************************************************************************)
EXTENDS Integers, FiniteSetsExt

CONSTANTS Labels, Lengths, NCaps, Flags   \* the arguments tried

FLAGS_SHIFT  == 0
NCAPS_SHIFT  == 6
LENGTH_SHIFT == 9
LABEL_SHIFT  == 16
FLAGS_MAX    == 63
NCAPS_MAX    == 7
LENGTH_MAX   == 127
LABEL_MAX    == 65535
MR_MAX       == 64   \* FLINT_CFG_MR_MAX
MSG_MAX_CAPS == 4    \* FLINT_CFG_MSG_MAX_CAPS

VARIABLES out_tag,   \* the word the caller passed
          packed     \* the fields of the last call that succeeded

Bits(n)  == {b \in 0..15 : (n \div 2^b) % 2 = 1}
Value(w) == MapThenSumSet(LAMBDA b : 2^b, w)
Shl(w, k) == {b + k : b \in w}

\* Mutant: a field is masked one bit too narrow.
FieldNarrow(n, max, shift) == Shl(Bits(n) \cap Bits(max \div 2), shift)

\* (n & max) << shift
Field(n, max, shift) == Shl(Bits(n) \cap Bits(max), shift)

\* (tag >> shift) & max
Extract(tag, max, shift) == Value({b - shift : b \in {x \in tag : x >= shift}} \cap Bits(max))

\* A call with out_tag # NULL that returns FLINT_OK; the others write nothing.
flint_msgtag_pack(label, length, n_caps, flags) ==
  /\ length <= LENGTH_MAX /\ length <= MR_MAX
  /\ n_caps <= NCAPS_MAX /\ n_caps <= MSG_MAX_CAPS
  /\ flags <= FLAGS_MAX
  /\ out_tag' = Field(flags, FLAGS_MAX, FLAGS_SHIFT) \cup Field(n_caps, NCAPS_MAX, NCAPS_SHIFT)
                \cup Field(length, LENGTH_MAX, LENGTH_SHIFT) \cup Field(label, LABEL_MAX, LABEL_SHIFT)
  /\ packed' = [label |-> label, length |-> length, n_caps |-> n_caps, flags |-> flags]

flint_msgtag_label(tag)  == Extract(tag, LABEL_MAX, LABEL_SHIFT)
flint_msgtag_length(tag) == Extract(tag, LENGTH_MAX, LENGTH_SHIFT)
flint_msgtag_ncaps(tag)  == Extract(tag, NCAPS_MAX, NCAPS_SHIFT)
flint_msgtag_flags(tag)  == Extract(tag, FLAGS_MAX, FLAGS_SHIFT)

Unpacked(tag) ==
  [label |-> flint_msgtag_label(tag), length |-> flint_msgtag_length(tag),
   n_caps |-> flint_msgtag_ncaps(tag), flags |-> flint_msgtag_flags(tag)]

TagInit == out_tag = {} /\ packed = Unpacked({})
TagNext == \E l \in Labels, n \in Lengths, c \in NCaps, f \in Flags : flint_msgtag_pack(l, n, c, f)
-----------------------------------------------------------------------------
\* The accessors return what was packed: the fields do not overlap, and none
\* spills over the 32 bits of the word, also at the largest values.
RoundTrip == out_tag \subseteq 0..31 /\ Unpacked(out_tag) = packed
==============================================================================
