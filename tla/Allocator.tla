------------------------------ MODULE Allocator ------------------------------
(***************************************************************************)
(* What the holders of heap memory rely on: the blocks handed out lie in   *)
(* the pool, are aligned and never overlap, and only their release ends    *)
(* them.  How the free space is kept, and which gap is used, is not said.  *)
(***************************************************************************)
EXTENDS Integers

CONSTANTS Lo, Hi,    \* the pool is the addresses Lo .. Hi - 1
          Align      \* alignment of addresses and sizes

VARIABLE live        \* block address -> block size, header included

\* The block a .. a + s - 1 is in the pool and clear of the live blocks.
Clear(a, s) ==
  /\ a >= Lo /\ a + s <= Hi
  /\ \A b \in DOMAIN live : a + s <= b \/ b + live[b] <= a

Starts == {a \in Lo..Hi : a % Align = 0}
Fits(s) == \E a \in Starts : Clear(a, s)

Init == live = <<>>

\* One more block; its size is the allocator's choice.
Grant ==
  \E a \in Starts \ DOMAIN live :
    /\ DOMAIN live' = DOMAIN live \cup {a}
    /\ live'[a] \in 1..(Hi - Lo) /\ live'[a] % Align = 0
    /\ Clear(a, live'[a])
    /\ \A b \in DOMAIN live : live'[b] = live[b]

Release ==
  \E a \in DOMAIN live :
    /\ DOMAIN live' = DOMAIN live \ {a}
    /\ \A b \in DOMAIN live' : live'[b] = live[b]

Next == Grant \/ Release

Spec == Init /\ [][Next]_live
==============================================================================
