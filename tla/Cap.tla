--------------------------------- MODULE Cap ---------------------------------
(***************************************************************************)
(* kernel/cap.c: capabilities in flat capability spaces.  A right is an    *)
(* element of a set, a rights word the set of its bits.  An operation that *)
(* returns an error changes nothing, so an action is the call that         *)
(* returns FLINT_OK; its guard is the checks made on the way.              *)
(***************************************************************************)
EXTENDS Naturals

CONSTANTS CNodes,        \* the capability spaces
          Slots,         \* their slots, 0 .. FLINT_CFG_CNODE_SLOTS - 1
          Types,         \* object types, without FLINT_CAP_NULL
          Badged,        \* FLINT_CAP_ENDPOINT and FLINT_CAP_NOTIFICATION
          RightBits,     \* the bits of a flint_rights_t
          RIGHT_ALL,     \* FLINT_RIGHT_ALL
          Badges,        \* badges, 0 among them
          Objects,       \* object references
          BootCaps,      \* what the boot object-graph builder installs
          NO_PARENT,     \* FLINT_CAP_NO_PARENT
          CAP_NULL       \* the content of an empty slot

Caps == [type : Types, rights : SUBSET RightBits, badge : Badges,
         object : Objects, parent : Slots \cup {NO_PARENT}]

ASSUME CapAssumption ==
  /\ Badged \subseteq Types
  /\ RIGHT_ALL \subseteq RightBits
  /\ 0 \in Badges
  /\ BootCaps \subseteq Caps
  /\ CAP_NULL \notin Caps

VARIABLE cspace   \* cspace[cn][slot]

\* flint_cnode_init of every space; cap_clear empties a slot.
flint_cnode_init == cspace = [cn \in CNodes |-> [s \in Slots |-> CAP_NULL]]

\* flint_cnode_lookup: cptrs out of range are refused, the others name a slot.
At(cn, s) == cspace[cn][s]

Put(cn, s, cap) == [cspace EXCEPT ![cn][s] = cap]

\* Mutant: a slot in use is written over.
InstallOver(cn, s, cap) == cspace' = Put(cn, s, cap)

flint_cnode_install(cn, s, cap) ==
  /\ At(cn, s) = CAP_NULL
  /\ cspace' = Put(cn, s, cap)

derive_check(dcn, dst, scn, src) ==
  /\ At(scn, src) # CAP_NULL
  /\ At(dcn, dst) = CAP_NULL

\* The capability copy and mint write: never a right the source lacks.
Derived(scn, src, mask, badge) ==
  [type |-> At(scn, src).type, object |-> At(scn, src).object, badge |-> badge,
   rights |-> At(scn, src).rights \cap mask \cap RIGHT_ALL, parent |-> src]

\* Mutant: the rights asked for are granted.
CopyGrants(dcn, dst, scn, src, mask) ==
  /\ derive_check(dcn, dst, scn, src)
  /\ cspace' = Put(dcn, dst, [At(scn, src) EXCEPT !.rights = mask \cap RIGHT_ALL])

flint_cnode_copy(dcn, dst, scn, src, mask) ==
  /\ derive_check(dcn, dst, scn, src)
  /\ cspace' = Put(dcn, dst, Derived(scn, src, mask, At(scn, src).badge))

\* Mutant: a badge can be stamped over.
MintRebadges(dcn, dst, scn, src, mask, badge) ==
  /\ derive_check(dcn, dst, scn, src)
  /\ At(scn, src).type \in Badged
  /\ cspace' = Put(dcn, dst, Derived(scn, src, mask, badge))

flint_cnode_mint(dcn, dst, scn, src, mask, badge) ==
  /\ derive_check(dcn, dst, scn, src)
  /\ At(scn, src).type \in Badged
  /\ At(scn, src).badge = 0
  /\ cspace' = Put(dcn, dst, Derived(scn, src, mask, badge))

flint_cnode_move(dcn, dst, scn, src) ==
  /\ derive_check(dcn, dst, scn, src)
  /\ cspace' = [Put(dcn, dst, At(scn, src)) EXCEPT ![scn][src] = CAP_NULL]

flint_cnode_delete(cn, s) ==
  /\ At(cn, s) # CAP_NULL
  /\ cspace' = Put(cn, s, CAP_NULL)

CapInit == flint_cnode_init

CapNext ==
  \/ \E cn \in CNodes, s \in Slots :
       \/ flint_cnode_delete(cn, s)
       \/ \E cap \in BootCaps : flint_cnode_install(cn, s, cap)
  \/ \E dcn, scn \in CNodes, dst, src \in Slots :
       \/ flint_cnode_move(dcn, dst, scn, src)
       \/ \E mask \in SUBSET RightBits :
            \/ flint_cnode_copy(dcn, dst, scn, src, mask)
            \/ \E badge \in Badges : flint_cnode_mint(dcn, dst, scn, src, mask, badge)

CapSpec == CapInit /\ [][CapNext]_cspace
-----------------------------------------------------------------------------
\* A slot is empty or holds a capability.
CapTypeOK == cspace \in [CNodes -> [Slots -> Caps \cup {CAP_NULL}]]

\* new can have been derived from old: the same object, no right more, and
\* the same badge unless old, of a type that carries one, had none.
Attenuates(new, old) ==
  /\ new.type = old.type /\ new.object = old.object
  /\ new.rights \subseteq old.rights
  /\ new.badge # old.badge => new.type \in Badged /\ old.badge = 0

\* Capabilities are unforgeable: whatever is copied, minted, moved and deleted
\* in whatever order, each one goes back to one installed at boot, of which it
\* is an attenuation.
Unforgeable ==
  \A cn \in CNodes, s \in Slots :
    At(cn, s) # CAP_NULL => \E boot \in BootCaps : Attenuates(At(cn, s), boot)

\* A capability in a slot is never altered, only removed: its badge is set
\* once, and no call writes over it, also when it names one slot twice.
Immutable ==
  [][\A cn \in CNodes, s \in Slots :
       At(cn, s) # CAP_NULL => cspace'[cn][s] \in {At(cn, s), CAP_NULL}]_cspace

\* A capability that appears was installed at boot or derives from one that
\* was held before the call.
DerivesFromHeld ==
  [][\A cn \in CNodes, s \in Slots :
       cspace'[cn][s] \notin {At(cn, s), CAP_NULL} =>
         \/ cspace'[cn][s] \in BootCaps
         \/ \E scn \in CNodes, src \in Slots :
              At(scn, src) # CAP_NULL /\ Attenuates(cspace'[cn][s], At(scn, src))]_cspace
==============================================================================
