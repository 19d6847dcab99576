---------------------------- MODULE SpecterCard ----------------------------
(***************************************************************************)
(* The Specter-DIY applet of a JavaCard: its PIN, which bricks the applet  *)
(* when its tries are used up, and the one mnemonic it stores.  Each view  *)
(* opens a connection of its own, in which a card with a PIN is locked,    *)
(* and closes it at its end.  A failing command ends a view like Back; a   *)
(* card taken out takes the connection with it, so each view is one step.  *)
(***************************************************************************)
EXTENDS Integers

CONSTANTS Specters, SpecterPins, Words,  \* cards, PINs, mnemonics
          SpecterTries

CONSTANTS NoSpecterPin, Empty, Junk   \* Junk: stored data that is no mnemonic

ASSUME SpecterAssumption == NoSpecterPin \notin SpecterPins /\ SpecterTries \in Nat

VARIABLES pin,     \* the PIN of each card
          tries,   \* its remaining tries; 0 is bricked
          stored,  \* what each card stores
          held,    \* the mnemonics in the device's seed storage
          pending  \* the mnemonic on its way into it

specterVars == <<pin, tries, stored, held, pending>>

SpecterTypeOK ==
    /\ pin \in [Specters -> SpecterPins \cup {NoSpecterPin}]
    /\ tries \in [Specters -> 0..SpecterTries]
    /\ stored \in [Specters -> Words \cup {Empty, Junk}]
    /\ held \subseteq Words /\ pending \in Words \cup {Empty}

SpecterInit ==
    /\ pin \in [Specters -> SpecterPins \cup {NoSpecterPin}]
    /\ tries = [c \in Specters |-> SpecterTries]
    /\ stored \in [Specters -> Words \cup {Empty, Junk}]
    /\ held \in SUBSET Words /\ pending = Empty

\* A bricked card is told from its PIN's state, and nothing is tried with it.
Alive(c) == tries[c] > 0

\* The PIN p goes to card c; a card without one asks for none.
Good(c, p) == pin[c] = NoSpecterPin \/ p = pin[c]
CountTry(c, p) ==
    tries' = [tries EXCEPT ![c] = IF Good(c, p) THEN SpecterTries
                                  ELSE IF @ > 0 THEN @ - 1 ELSE 0]

\* The first PIN of a card, or one changed for another.
ChangeSpecterPin(c) ==
    /\ Alive(c)
    /\ \E p, new \in SpecterPins :
         /\ CountTry(c, p)
         /\ pin' = [pin EXCEPT ![c] = IF Good(c, p) THEN new ELSE @]
    /\ UNCHANGED <<stored, held, pending>>

\* The views below go on only past this.
Unlocked(c, p) == Alive(c) /\ Good(c, p)

\* A PIN that the card refuses ends any of them.
Refused(c) ==
    /\ Alive(c)
    /\ \E p \in SpecterPins : ~Good(c, p) /\ CountTry(c, p)
    /\ UNCHANGED <<pin, stored, held, pending>>

\* The mnemonic takes the place of what was pending.  (What does not decode
\* leaves everything as it is.)
LoadMnemonic(c) ==
    /\ \E p \in SpecterPins : Unlocked(c, p) /\ CountTry(c, p)
    /\ stored[c] \in Words /\ pending' = stored[c]
    /\ UNCHANGED <<pin, stored, held>>

\* A card that has neither a PIN nor data is given a PIN before its first.
PinToSave(c) == IF pin[c] = NoSpecterPin /\ stored[c] = Empty THEN SpecterPins ELSE {pin[c]}

\* A seed from storage is written; data that was there, once the user agrees.
SaveMnemonic(c) ==
    /\ \E p \in SpecterPins : Unlocked(c, p) /\ CountTry(c, p)
    /\ \E w \in held : stored' = [stored EXCEPT ![c] = w]
    /\ \E new \in PinToSave(c) : pin' = [pin EXCEPT ![c] = new]
    /\ UNCHANGED <<held, pending>>

\* The card took the new PIN and the user then did not go on, or it failed.
SaveEndsEarly(c) ==
    /\ held # {} /\ pin[c] = NoSpecterPin /\ stored[c] = Empty
    /\ \E new \in SpecterPins : pin' = [pin EXCEPT ![c] = new]
    /\ UNCHANGED <<tries, stored, held, pending>>

WipeMnemonic(c) ==
    /\ \E p \in SpecterPins : Unlocked(c, p) /\ CountTry(c, p)
    /\ stored[c] # Empty /\ stored' = [stored EXCEPT ![c] = Empty]
    /\ UNCHANGED <<pin, held, pending>>

\* SeedFinalizeView adds the pending seed; MainMenuView drops what is pending.
Finalize ==
    /\ pending # Empty /\ pending' = Empty
    /\ held' \in {held, held \cup {pending}}
    /\ UNCHANGED <<pin, tries, stored>>

SpecterNext ==
    \/ \E c \in Specters : ChangeSpecterPin(c) \/ Refused(c) \/ LoadMnemonic(c) \/ SaveMnemonic(c)
                        \/ SaveEndsEarly(c) \/ WipeMnemonic(c)
    \/ Finalize

SpecterSpec == SpecterInit /\ [][SpecterNext]_specterVars
=============================================================================
