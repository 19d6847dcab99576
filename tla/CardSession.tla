---------------------------- MODULE CardSession ----------------------------
(***************************************************************************)
(* The session the device keeps with PIN protected smartcards: which card  *)
(* it last identified, the PIN it keeps for it, and the views that verify, *)
(* change, unblock or reset a card.  Every view opens by init_satochip,    *)
(* and every card connection of these views names a card filter, so a      *)
(* connector that an earlier view left behind is never used again.         *)
(*                                                                         *)
(* The user may put another card on the reader whenever a screen waits.  A *)
(* reader may fail to serve the data the card's id is computed from; the   *)
(* id is then Blank.  A connection that fails, and a prompt the user backs *)
(* out of, change nothing and are not steps here.                          *)
(***************************************************************************)
EXTENDS Integers

CONSTANTS Cards,        \* the cards the user owns
          Pins,         \* the PINs a user types
          MaxTries,     \* wrong PINs a card accepts before it blocks
          ResetRounds,  \* insertions a legacy factory reset takes
          PinlessViews  \* views that connect with require_pin=False

CONSTANTS NoCard, NoPin, Blank

VARIABLES kind,        \* how each card answers: "legacy", "new" or "keycard"
          reader,      \* the card on the reader
          card,        \* each card's PIN, tries left and reset counter
          cachedPin,   \* controller.Satochip_PIN
          lastUid,     \* controller.Satochip_Last_UID_SHA1
          view,        \* the view that waits, with the card it connected to
          owner,       \* history: the card cachedPin was last right for
          sent,        \* history: where the last verified PIN came from
          silent,      \* history: wrong cached PINs sent since one was typed
          told         \* history: what a factory reset said it did

cardVars == <<kind, reader, card, cachedPin, lastUid, view, owner, sent, silent, told>>

Kinds == {"legacy", "new", "keycard"}
PinViews == {"manage", "import", "keycardReset", "genuine"}
Menu == [name |-> "menu", card |-> NoCard]
Fresh == [pin |-> NoPin, tries |-> MaxTries, left |-> ResetRounds]

TypeOK ==
    /\ kind \in [Cards -> Kinds]
    /\ reader \in Cards \cup {NoCard}
    /\ card \in [Cards -> [pin : Pins \cup {NoPin}, tries : 0..MaxTries,
                           left : 0..ResetRounds]]
    /\ cachedPin \in Pins \cup {NoPin}
    /\ lastUid \in Cards \cup {NoCard, Blank}
    /\ view \in [name : {"menu"} \cup PinViews \cup PinlessViews
                          \cup {"blockPin", "blockPuk", "rounds"},
                 card : Cards \cup {NoCard}]
    /\ owner \in Cards \cup {NoCard}
    /\ sent \in {"nothing", "typed", "cached", "misdirected"}
    /\ silent \in 0..2
    /\ told \in {"nothing", "reset", "notReset"}

Init ==
    /\ kind \in [Cards -> Kinds]
    /\ reader = NoCard
    /\ card \in [Cards -> {Fresh} \cup {[Fresh EXCEPT !.pin = p] : p \in Pins}]
    /\ cachedPin = NoPin /\ lastUid = NoCard
    /\ view = Menu
    /\ owner = NoCard /\ sent = "nothing" /\ silent = 0
    /\ told = "nothing"

----------------------------------------------------------------------------
(* init_satochip *)

\* The swap check trusts a cached PIN when no card was recorded, or when the
\* recorded id and the id just read are usable and equal.
SameCard(id) == lastUid = NoCard \/ (id # Blank /\ lastUid = id)

\* What is recorded once everything worked: a usable id, else a sentinel the
\* first time, else the earlier record.
Recorded(id) == IF id # Blank THEN id
                ELSE IF lastUid = NoCard THEN Blank ELSE lastUid

\* Mutant: the handler of a failed verification keeps the PIN.
KeepsWrongPin(c) == cachedPin

\* A wrong or blocked PIN: pysatochip raises and the handler drops the cached
\* PIN, the keycard backend answers 63Cx and the view only warns.
AfterWrongPin(c) == IF kind[c] = "keycard" THEN cachedPin ELSE NoPin

\* init_satochip on a card that is set up, for a view that needs the PIN.
OpenVerified(v) ==
    /\ view = Menu /\ v \in PinViews /\ reader # NoCard
    /\ card[reader].pin # NoPin
    /\ v = "keycardReset" => kind[reader] = "keycard"
    /\ \E id \in {reader, Blank}, typed \in Pins :
         LET fromCache == cachedPin # NoPin /\ SameCard(id)
             pin == IF fromCache THEN cachedPin ELSE typed
             right == card[reader].tries > 0 /\ pin = card[reader].pin
         IN /\ sent' = IF ~fromCache THEN "typed"
                       ELSE IF reader = owner THEN "cached" ELSE "misdirected"
            /\ IF right
               THEN /\ card' = [card EXCEPT ![reader].tries = MaxTries,
                                            ![reader].left = ResetRounds]
                    /\ cachedPin' = pin /\ owner' = reader
                    /\ lastUid' = Recorded(id)
                    /\ silent' = IF fromCache THEN silent ELSE 0
                    /\ view' = [name |-> v, card |-> reader]
               ELSE /\ card' = [card EXCEPT
                          ![reader].tries = IF @ > 0 THEN @ - 1 ELSE 0,
                          ![reader].left = ResetRounds]
                    /\ cachedPin' = AfterWrongPin(reader)
                    /\ silent' = IF ~fromCache THEN 0
                                  ELSE IF silent < 2 THEN silent + 1 ELSE 2
                    /\ UNCHANGED <<lastUid, view, owner>>
    /\ UNCHANGED <<kind, reader, told>>

\* init_satochip for a view that connects without a PIN: the card is recorded
\* but the cached PIN is left as it is.
OpenPinless(v) ==
    /\ view = Menu /\ v \in PinlessViews /\ reader # NoCard
    /\ card[reader].pin # NoPin
    /\ v = "unblock" => kind[reader] = "keycard"
    /\ v = "reset" => kind[reader] # "keycard"
    /\ \E id \in {reader, Blank} : lastUid' = Recorded(id)
    /\ card' = [card EXCEPT ![reader].left = ResetRounds]
    /\ view' = [name |-> v, card |-> reader]
    /\ UNCHANGED <<kind, reader, cachedPin, owner, sent, silent, told>>

\* init_satochip on a card that was never set up: the user chooses its PIN.
\* A Keycard is set up only by the view that imports a seed.
OpenSetup(v) ==
    /\ view = Menu /\ v \in PinViews \cup PinlessViews /\ reader # NoCard
    /\ card[reader].pin = NoPin
    /\ IF kind[reader] = "keycard" THEN v = "import"
       ELSE v \notin {"keycardReset", "unblock"}
    /\ \E id \in {reader, Blank}, new \in Pins :
         /\ card' = [card EXCEPT ![reader].pin = new, ![reader].tries = MaxTries,
                                 ![reader].left = ResetRounds]
         /\ lastUid' = Recorded(id) /\ silent' = 0
         /\ IF v \in PinlessViews THEN UNCHANGED <<cachedPin, owner>>
            ELSE cachedPin' = new /\ owner' = reader
    /\ view' = [name |-> v, card |-> reader]
    /\ UNCHANGED <<kind, reader, sent, told>>

----------------------------------------------------------------------------
(* The bodies of the views.  An APDU to a card that left the reader raises, *)
(* so each effect needs the card the view connected to.                     *)

InView(v) == view.name = v /\ reader = view.card

\* Changing the PIN of a Satochip, SeedKeeper or Keycard updates the cache.
ChangePin ==
    /\ InView("manage")
    /\ \E new \in Pins :
         /\ card' = [card EXCEPT ![reader].pin = new]
         /\ cachedPin' = new /\ owner' = reader
    /\ view' = Menu /\ silent' = 0
    /\ UNCHANGED <<kind, reader, lastUid, sent, told>>

\* The check that a card is genuine connects once more, without a PIN, when the
\* first answer was no.
GenuineRetry ==
    /\ view.name = "genuine" /\ reader # NoCard /\ card[reader].pin # NoPin
    /\ \E id \in {reader, Blank} : lastUid' = Recorded(id)
    /\ view' = [view EXCEPT !.card = reader]
    /\ UNCHANGED <<kind, reader, card, cachedPin, owner, sent, silent, told>>

\* Unblocking a Keycard with its PUK sets a new PIN and caches it.
UnblockPin ==
    /\ InView("unblock")
    /\ \E new \in Pins :
         /\ card' = [card EXCEPT ![reader].pin = new, ![reader].tries = MaxTries]
         /\ cachedPin' = new /\ owner' = reader
    /\ view' = Menu /\ silent' = 0
    /\ UNCHANGED <<kind, reader, lastUid, sent, told>>

\* Factory reset of a Keycard: the cached PIN goes, the recorded id stays.
KeycardReset ==
    /\ InView("keycardReset")
    /\ card' = [card EXCEPT ![reader] = Fresh]
    /\ cachedPin' = NoPin /\ owner' = NoCard
    /\ told' = "reset" /\ view' = Menu
    /\ UNCHANGED <<kind, reader, lastUid, sent, silent>>

\* The factory reset view chooses its method by the card's type and version.
ChooseReset ==
    /\ InView("reset")
    /\ view' = [view EXCEPT !.name =
                  IF kind[reader] = "new" THEN "blockPin" ELSE "rounds"]
    /\ told' = "nothing"
    /\ UNCHANGED <<kind, reader, card, cachedPin, lastUid, owner, sent, silent>>

\* Mutant: the round that resets the card is not told apart from the others.
LastRoundUnreported ==
    /\ view.name = "rounds" /\ reader # NoCard /\ card[reader].pin # NoPin
    /\ card' = [card EXCEPT ![reader] = IF @.left > 1 THEN [@ EXCEPT !.left = @ - 1]
                                        ELSE Fresh]
    /\ UNCHANGED <<kind, reader, cachedPin, lastUid, view, owner, sent, silent, told>>

\* The legacy reset sends its APDU to whichever card was put back.  The card
\* counts its insertions down and is reset by the last.
ResetRound ==
    /\ view.name = "rounds" /\ reader # NoCard /\ kind[reader] # "keycard"
    /\ IF card[reader].pin = NoPin                    \* 9C04: setup not done
       THEN view' = Menu /\ told' = "notReset" /\ UNCHANGED card
       ELSE IF card[reader].left > 1
       THEN /\ card' = [card EXCEPT ![reader].left = @ - 1]
            /\ UNCHANGED <<view, told>>
       ELSE card' = [card EXCEPT ![reader] = Fresh] /\ view' = Menu /\ told' = "reset"
    /\ UNCHANGED <<kind, reader, cachedPin, lastUid, owner, sent, silent>>

\* The newer reset first has the user block the PIN with wrong ones.  A right
\* PIN abandons the reset.
BlockPin ==
    /\ InView("blockPin")
    /\ \E p \in Pins :
         IF card[reader].tries > 0 /\ p = card[reader].pin
         THEN /\ card' = [card EXCEPT ![reader].tries = MaxTries]
              /\ view' = Menu /\ told' = "notReset"
         ELSE /\ card' = [card EXCEPT ![reader].tries = IF @ > 0 THEN @ - 1 ELSE 0]
              /\ view' = [view EXCEPT !.name =
                            IF card[reader].tries = 0 THEN "blockPuk" ELSE @]
              /\ UNCHANGED told
    /\ UNCHANGED <<kind, reader, cachedPin, lastUid, owner, sent, silent>>

\* Backing out of the PIN prompt returns a Destination where the caller
\* expects a result, and the caller takes it for success.
BackAtPinPrompt ==
    /\ InView("blockPin")
    /\ told' = "reset" /\ view' = Menu
    /\ UNCHANGED <<kind, reader, card, cachedPin, lastUid, owner, sent, silent>>

\* Then wrong PUKs, the last of which makes the card reset itself.
BlockPuk ==
    /\ InView("blockPuk")
    /\ \/ UNCHANGED <<card, view, told>>
       \/ card' = [card EXCEPT ![reader] = Fresh] /\ view' = Menu /\ told' = "reset"
    /\ UNCHANGED <<kind, reader, cachedPin, lastUid, owner, sent, silent>>

\* Every other way out of a view: it read the card, the card refused, the user
\* backed out or the card had gone.  A reset that is left says it was aborted.
Leave ==
    /\ view # Menu
    /\ told' = IF view.name \in {"blockPin", "blockPuk", "rounds", "reset"}
               THEN "notReset" ELSE told
    /\ view' = Menu
    /\ UNCHANGED <<kind, reader, card, cachedPin, lastUid, owner, sent, silent>>

\* The Home screen ends the session unless the setting keeps PINs.
Home ==
    /\ view = Menu
    /\ cachedPin' = NoPin /\ lastUid' = NoCard /\ owner' = NoCard
    /\ UNCHANGED <<kind, reader, card, view, sent, silent, told>>

\* The user takes the card off the reader or puts another one on it.
SwapCard ==
    /\ reader' \in (Cards \cup {NoCard}) \ {reader}
    /\ UNCHANGED <<kind, card, cachedPin, lastUid, view, owner, sent, silent, told>>

Next ==
    \/ \E v \in PinViews : OpenVerified(v)
    \/ \E v \in PinlessViews : OpenPinless(v)
    \/ \E v \in PinViews \cup PinlessViews : OpenSetup(v)
    \/ ChangePin \/ GenuineRetry \/ UnblockPin \/ KeycardReset
    \/ ChooseReset \/ ResetRound \/ BlockPin \/ BackAtPinPrompt \/ BlockPuk
    \/ Leave \/ Home \/ SwapCard

Spec == Init /\ [][Next]_cardVars

----------------------------------------------------------------------------
(* Properties *)

\* Between two PINs the user types, at most one try of a Satochip or SeedKeeper
\* is spent on a cached PIN that was wrong: the handler drops it.  (A Keycard
\* answers with a status word, which drops nothing.)
SilentTriesBounded == (\A c \in Cards : kind[c] # "keycard") => silent <= 1

\* A cached PIN is only ever sent to the card it was last right for: the swap
\* check of init_satochip exists so that a cached PIN applied to the wrong
\* card cannot burn one of its limited tries.
CachedPinStaysWithItsCard == sent # "misdirected"

\* A card loses its PIN only by a factory reset that the user is told of.
ResetIsTold ==
    [][\A c \in Cards : card[c].pin # NoPin /\ card'[c].pin = NoPin
                          => told' = "reset"]_cardVars

\* The device says that a card was reset to factory only when it was.
SuccessMeansReset ==
    [][told' = "reset" /\ told # "reset"
         => \E c \in Cards : card[c].pin # NoPin /\ card'[c].pin = NoPin]_cardVars
=============================================================================
