---------------------------- MODULE SatodimeSlots ----------------------------
(***************************************************************************)
(* The keyslots of Satodime cards: sealing, unsealing, using and resetting *)
(* a slot.  The views work from a snapshot of one card's slots that the    *)
(* controller keeps, and connect to whichever card lies on the reader.     *)
(*                                                                         *)
(* The card takes a command in exactly one state of the slot.  A card that *)
(* refuses (no owner, wrong unlock code over NFC, wrong state) changes     *)
(* nothing, and neither does the view that shows the refusal.              *)
(***************************************************************************)
EXTENDS Integers

CONSTANTS SlotDimes,    \* the cards
          DimeSlots \* the slots of a card

CONSTANT NoDime

VARIABLES slot,      \* each card's slots: state and recorded coin
          slotCache, \* controller.satodime_slot_cache, with the card it is of
          swapped    \* history: a view met another card than the cached one

slotVars == <<slot, slotCache, swapped>>

States == {"uninitialized", "sealed", "unsealed"}
SlotKinds == [state : States, coin : {"none", "btc", "other"}]
EmptySlot == [state |-> "uninitialized", coin |-> "none"]
NoSlots == [s \in DimeSlots |-> EmptySlot]
NoCache == [card |-> NoDime, slots |-> NoSlots]

SlotsTypeOK ==
    /\ slot \in [SlotDimes -> [DimeSlots -> SlotKinds]]
    /\ slotCache \in [card : SlotDimes \cup {NoDime}, slots : [DimeSlots -> SlotKinds]]
    /\ swapped \in BOOLEAN

SlotsInit ==
    /\ slot = [c \in SlotDimes |-> NoSlots]
    /\ slotCache = NoCache
    /\ swapped = FALSE

\* What a view believes about slot s.
Cached(s) == slotCache.slots[s]

\* The slot list reads the card only when there is no snapshot, whichever card
\* the snapshot is of.
ReadSlots(c) ==
    /\ slotCache = NoCache
    /\ slotCache' = [card |-> c, slots |-> slot[c]]
    /\ UNCHANGED <<slot, swapped>>

\* Mutant: what a successful action changed is not put into the snapshot.
Stale(s, kind) == slotCache

\* A successful action rewrites its entry of the snapshot.
Rewritten(s, kind) == [slotCache EXCEPT !.slots[s] = kind]

\* The views of a slot are reached from the list, so there is a snapshot.
Act(c) ==
    /\ slotCache # NoCache
    /\ swapped' = (swapped \/ slotCache.card # c)

\* Sealing mints a key for a coin and then tags the slot; the tag may fail,
\* which is only logged, and an untagged slot reads as Bitcoin.
Seal(c, s) ==
    /\ Act(c) /\ Cached(s).state = "uninitialized" /\ slot[c][s].state = "uninitialized"
    /\ \E coin \in {"btc", "other"}, tagged \in BOOLEAN :
         /\ slot' = [slot EXCEPT ![c][s] =
                [state |-> "sealed", coin |-> IF tagged THEN coin ELSE "btc"]]
         /\ slotCache' = Rewritten(s, [state |-> "sealed", coin |-> coin])

\* Unsealing exposes the key for good.
Unseal(c, s) ==
    /\ Act(c) /\ Cached(s).state = "sealed" /\ slot[c][s].state = "sealed"
    /\ slot' = [slot EXCEPT ![c][s].state = "unsealed"]
    /\ slotCache' = Rewritten(s, [Cached(s) EXCEPT !.state = "unsealed"])

\* Signing with a sealed Bitcoin slot unseals it and leaves the snapshot alone.
SignTx(c, s) ==
    /\ Act(c) /\ Cached(s) = [state |-> "sealed", coin |-> "btc"]
    /\ slot[c][s].state = "sealed"
    /\ slot' = [slot EXCEPT ![c][s].state = "unsealed"]
    /\ UNCHANGED slotCache

\* Erasing the key of an unsealed slot.
ResetSlot(c, s) ==
    /\ Act(c) /\ Cached(s).state = "unsealed" /\ slot[c][s].state = "unsealed"
    /\ slot' = [slot EXCEPT ![c][s] = EmptySlot]
    /\ slotCache' = Rewritten(s, EmptySlot)

\* The smartcard menu and the Home screen drop the snapshot.
DropCache ==
    /\ slotCache' = NoCache
    /\ UNCHANGED <<slot, swapped>>

SlotsNext ==
    \/ \E c \in SlotDimes : ReadSlots(c)
    \/ \E c \in SlotDimes, s \in DimeSlots :
          Seal(c, s) \/ Unseal(c, s) \/ SignTx(c, s) \/ ResetSlot(c, s)
    \/ DropCache

SlotsSpec == SlotsInit /\ [][SlotsNext]_slotVars

----------------------------------------------------------------------------
(* Properties *)

\* While no card is exchanged for another, the snapshot the menus are made of
\* is right about the state of every slot, or late by a signing that unsealed
\* it: the device never offers to reset or seal a slot on the strength of a
\* state the card has left.
CacheLagsOnlyBySigning ==
    slotCache # NoCache /\ ~swapped =>
        \A s \in DimeSlots :
            LET now == slot[slotCache.card][s].state
            IN Cached(s).state = now \/ (Cached(s).state = "sealed" /\ now = "unsealed")

\* The key that Reset Slot erases is one of the card whose slots the user chose
\* it from: the snapshot records its card, which the views that act on it need.
ResetErasesShownKey ==
    [][\A c \in SlotDimes, s \in DimeSlots :
          slot[c][s].state = "unsealed" /\ slot'[c][s] = EmptySlot
              => slotCache.card = c]_slotVars
=============================================================================
