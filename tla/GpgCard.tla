------------------------------ MODULE GpgCard ------------------------------
(***************************************************************************)
(* Moving keys from the keyring to an OpenPGP card: the PINs of the card,  *)
(* the admin PIN the Controller keeps, what gpg is told to move into which *)
(* slot, and the importer that takes over when gpg fails, which writes a   *)
(* key and its fingerprint one after the other.                            *)
(*                                                                         *)
(* A slot is named by the capability its key is used for: "s", "e", "a".   *)
(***************************************************************************)
EXTENDS Lists, SequencesExt

CONSTANTS
    Primary,            \* the primary key
    NoSlotKey,          \* none
    Subkeys,            \* the subkeys in the keyring's order
    Caps(_),            \* what a key may be used for
    Pins, DefaultPin, NoPin,
    MaxTries

ASSUME CardAssumption == Subkeys \in Seq(Range(Subkeys)) /\ MaxTries \in Nat \ {0}

VARIABLES
    pin, pinTries,      \* of the card in the reader: the admin PIN, the tries that are left
    slots, prints,      \* of that card: the key in a slot, and whose fingerprint is on record
    cached,             \* GPG_Admin_PIN
    step,               \* what the view does next
    admin, sel, keysLeft,   \* of the view: PIN, chosen subkeys, and what is still to be written
    cardTold            \* what the user was told last

cardVars == <<pin, pinTries, slots, prints, cached, step, admin, sel, keysLeft, cardTold>>

Slots == <<"s", "e", "a">>
Empty == [f \in {"s", "e", "a"} |-> NoSlotKey]
Whole == [f \in {"s", "e", "a"} |-> Primary]           \* no subkeys were chosen

-----------------------------------------------------------------------------
(* What goes where *)
Chosen(f) == sel[f] # NoSlotKey

\* Mutant: gpg counts the subkeys from one, and the view from zero.
Before(k) == LET n == CHOOSE i \in DOMAIN Subkeys : Subkeys[i] = k IN IF n = 1 THEN Primary ELSE Subkeys[n - 1]

\* "key <n>" selects the n-th subkey.
NthKey(k) == Subkeys[CHOOSE i \in DOMAIN Subkeys : Subkeys[i] = k]

SignKey == LET can == {i \in DOMAIN Subkeys : "s" \in Caps(Subkeys[i])}
           IN IF can = {} THEN Primary ELSE Subkeys[CHOOSE i \in can : \A j \in can : i <= j]

\* A subkey goes into the first slot it fits that is not used yet.
SlotFor(k, used) ==
    LET free == {n \in DOMAIN Slots : Slots[n] \in Caps(k) /\ Slots[n] \notin used}
    IN IF free = {} THEN "none" ELSE Slots[Min(free)]

\* The signing key first, then one subkey after the other.
MovedWhole ==
    LET signer == IF SignKey = Primary /\ "s" \notin Caps(Primary) THEN <<>> ELSE << <<"s", SignKey>> >>
        With(moves, k) ==
            LET f == SlotFor(k, {moves[i][1] : i \in DOMAIN moves})
            IN IF k = SignKey \/ f = "none" THEN moves ELSE Append(moves, <<f, NthKey(k)>>)
        moved[n \in 0..Len(Subkeys)] == IF n = 0 THEN signer ELSE With(moved[n - 1], Subkeys[n])
    IN moved[Len(Subkeys)]

\* The slots that were chosen for, in the order of the slots.
ChosenSlots == Those(Slots, {n \in DOMAIN Slots : Chosen(Slots[n])})

MovedChosen == [i \in DOMAIN ChosenSlots |-> <<ChosenSlots[i], NthKey(sel[ChosenSlots[i]])>>]

Moved == IF sel = Whole THEN MovedWhole ELSE MovedChosen

\* The other importer: each subkey by its first use, or as it was chosen.
Imported ==
    IF sel # Whole
    THEN [i \in DOMAIN ChosenSlots |-> <<ChosenSlots[i], sel[ChosenSlots[i]]>>]
    ELSE LET ks == IF Subkeys = <<>> THEN <<Primary>>
                   ELSE Those(Subkeys, {n \in DOMAIN Subkeys : Caps(Subkeys[n]) # {}})
         IN [i \in DOMAIN ks |-> <<SlotFor(ks[i], {}), ks[i]>>]

-----------------------------------------------------------------------------
(* The card *)
Right(p) == p = pin /\ pinTries > 0
Try(p) ==
    pinTries' = IF Right(p) THEN MaxTries ELSE IF pinTries = 0 THEN 0 ELSE pinTries - 1

\* The key that is moved into a slot last stays there.
Written(s, moves) ==
    LET Into(f) == {i \in DOMAIN moves : moves[i][1] = f}
    IN [f \in DOMAIN s |-> IF Into(f) = {} THEN s[f] ELSE moves[Max(Into(f))][2]]

EndImport(what) == step' = "menu" /\ cardTold' = what /\ admin' = NoPin /\ keysLeft' = <<>> /\ UNCHANGED sel

-----------------------------------------------------------------------------
(* Between imports *)
\* Another card.
Insert ==
    /\ step \in {"menu", "ask"}
    /\ pin' \in Pins \cup {DefaultPin} /\ pinTries' = MaxTries /\ slots' = Empty /\ prints' = Empty
    /\ cardTold' = "nothing"
    /\ UNCHANGED <<cached, step, admin, sel, keysLeft>>

GoHome ==
    /\ step = "menu" /\ cached # NoPin
    /\ cached' = NoPin
    /\ UNCHANGED <<pin, pinTries, slots, prints, step, admin, sel, keysLeft, cardTold>>

\* What is cached stays.
ChangeAdminPin ==
    /\ step = "menu"
    /\ \E old \in Pins \cup {DefaultPin}, new \in Pins :
         /\ Try(old)
         /\ pin' = IF Right(old) THEN new ELSE pin
         /\ cardTold' = IF Right(old) THEN "changed" ELSE "not changed"
    /\ UNCHANGED <<slots, prints, cached, step, admin, sel, keysLeft>>

-----------------------------------------------------------------------------
(* The view *)
Selections == {Whole} \cup
    {s \in [{"s", "e", "a"} -> {NoSlotKey} \cup {Subkeys[i] : i \in DOMAIN Subkeys}] :
        /\ \E f \in DOMAIN s : s[f] # NoSlotKey
        /\ \A f \in DOMAIN s : s[f] = NoSlotKey \/ f \in Caps(s[f])
        /\ \A f, g \in DOMAIN s : s[f] = s[g] /\ s[f] # NoSlotKey => f = g}

ChooseKeys ==
    /\ step = "menu"
    /\ sel' \in Selections
    /\ step' = "ask" /\ cardTold' = "nothing"
    /\ UNCHANGED <<pin, pinTries, slots, prints, cached, admin, keysLeft>>

\* A status with "[none]" in it counts as that of a card with default PINs.
ReplaceDefault ==
    /\ step = "ask"
    /\ Try(DefaultPin)
    /\ \E new \in Pins :
         IF Right(DefaultPin)
         THEN /\ pin' = new
              /\ cached' = new
              /\ \/ step' = "check" /\ admin' = new /\ UNCHANGED <<sel, keysLeft, cardTold>>
                 \/ EndImport("no user PIN")
         ELSE EndImport("not changed") /\ UNCHANGED <<pin, cached>>
    /\ UNCHANGED <<slots, prints>>

AskPin ==
    /\ step = "ask"
    /\ IF cached # NoPin THEN step' = "check" /\ admin' = cached /\ UNCHANGED <<cached, cardTold>>
       ELSE \/ \E p \in Pins : step' = "check" /\ admin' = p /\ cached' = p /\ UNCHANGED cardTold
            \/ step' = "menu" /\ cardTold' = "back" /\ UNCHANGED <<cached, admin>>
    /\ UNCHANGED <<pin, pinTries, slots, prints, sel, keysLeft>>

\* RSA keys need no preparation; for keys on a curve the slots are switched
\* first, with the PIN; keys on unequal or other curves are refused.
CheckKeys ==
    /\ step = "check"
    /\ \/ step' = "gpg" /\ UNCHANGED <<pinTries, cached, admin, sel, keysLeft, cardTold>>
       \/ EndImport("refused") /\ UNCHANGED <<pinTries, cached>>
       \/ /\ Try(admin)
          /\ IF Right(admin)
             THEN /\ UNCHANGED cached
                  /\ \/ step' = "gpg" /\ UNCHANGED <<admin, sel, keysLeft, cardTold>>
                     \/ EndImport("failed")
             ELSE cached' = NoPin /\ EndImport("wrong PIN")
    /\ UNCHANGED <<pin, slots, prints>>

\* gpg moves all, or fails after some.
Gpg ==
    /\ step = "gpg"
    /\ Try(admin)
    /\ \E n \in 0..Len(Moved) :
         /\ n > 0 => Right(admin)
         /\ slots' = Written(slots, SubSeq(Moved, 1, n))
         /\ prints' = Written(prints, SubSeq(Moved, 1, n))
         /\ \/ n = Len(Moved) /\ Right(admin) /\ EndImport("imported")
            \/ (n < Len(Moved) \/ ~Right(admin)) /\ step' = "fallback" /\ UNCHANGED <<admin, sel, keysLeft, cardTold>>
    /\ UNCHANGED <<pin, cached>>

\* The export of the key may fail before the PIN is tried.
Fallback ==
    /\ step = "fallback"
    /\ \/ EndImport("failed") /\ UNCHANGED <<pinTries, cached>>
       \/ /\ Try(admin)
          /\ IF Right(admin)
             THEN step' = "key" /\ keysLeft' = Imported /\ UNCHANGED <<cached, admin, sel, cardTold>>
             ELSE cached' = NoPin /\ EndImport("wrong PIN")
    /\ UNCHANGED <<pin, slots, prints>>

Write(what, then) ==
    IF keysLeft = <<>> THEN EndImport("imported") /\ UNCHANGED <<slots, prints>>
    ELSE \/ EndImport("failed") /\ UNCHANGED <<slots, prints>>
         \/ /\ IF what = "key" THEN slots' = [slots EXCEPT ![Head(keysLeft)[1]] = Head(keysLeft)[2]] /\ UNCHANGED prints
               ELSE prints' = [prints EXCEPT ![Head(keysLeft)[1]] = Head(keysLeft)[2]] /\ UNCHANGED slots
            /\ step' = then /\ keysLeft' = IF what = "key" THEN keysLeft ELSE Tail(keysLeft)
            /\ UNCHANGED <<admin, sel, cardTold>>

\* Key, then fingerprint, of one slot after the other.
WriteKeys ==
    /\ \/ step = "key" /\ Write("key", "print")
       \/ step = "print" /\ Write("print", "key")
    /\ UNCHANGED <<pin, pinTries, cached>>

-----------------------------------------------------------------------------
CardInit ==
    /\ pin \in {DefaultPin} \cup Pins /\ pinTries = MaxTries /\ slots = Empty /\ prints = Empty
    /\ cached = NoPin /\ step = "menu" /\ admin = NoPin /\ sel = Whole /\ keysLeft = <<>> /\ cardTold = "nothing"

CardNext ==
    \/ Insert \/ GoHome \/ ChangeAdminPin \/ ChooseKeys \/ ReplaceDefault \/ AskPin
    \/ CheckKeys \/ Gpg \/ Fallback \/ WriteKeys

CardSpec == CardInit /\ [][CardNext]_cardVars

-----------------------------------------------------------------------------
CardTypeOK ==
    /\ pin \in Pins \cup {DefaultPin} /\ pinTries \in 0..MaxTries
    /\ step \in {"menu", "ask", "check", "gpg", "fallback", "key", "print"}
    /\ cached \in Pins \cup {NoPin} /\ sel \in Selections

(* "Key imported to card" is true: the subkeys that were chosen are in the *)
(* slots they were chosen for, or, of a whole key, a slot holds one that   *)
(* may be used so, under its own fingerprint.  (What an import that failed  *)
(* left in another slot stays.)                                             *)
SlotsFit ==
    cardTold = "imported" =>
        \A i \in DOMAIN Imported :
            LET f == Imported[i][1] IN
            Chosen(f) /\ (\E j \in DOMAIN Moved : Moved[j][1] = f) =>
                /\ prints[f] = slots[f]
                /\ IF sel = Whole THEN f \in Caps(slots[f]) ELSE slots[f] = sel[f]
=============================================================================
