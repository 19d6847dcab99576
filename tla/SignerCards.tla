---------------------------- MODULE SignerCards ----------------------------
(***************************************************************************)
(* What Satochip and Keycard cards hold for signing: the seed, the second  *)
(* factor, and the account key the device takes from them as the wallet    *)
(* it checks addresses and change against.                                 *)
(*                                                                         *)
(* The PIN was verified (CardSession).  A view takes the card on the       *)
(* reader.  The import view looks at it, shows a menu, and then sends the  *)
(* seed to the card that is on the reader by then.  A card taken away      *)
(* makes the next command fail, which changes nothing.                     *)
(***************************************************************************)
EXTENDS Naturals

CONSTANTS Signers,  \* the cards
          Seeds,    \* seeds in the device's storage that a card can take
          Paths     \* account derivation paths

CONSTANTS NoSeed, NoKey, NoSigner

VARIABLES backend,   \* "satochip" or "keycard"
          seedOf,    \* the seed on each card
          stuck,     \* Keycards that refuse a new seed until cleared (SW 6985)
          twoFa,     \* whether each card asks for a second factor
          descr,     \* controller.multisig_wallet_descriptor
          importing, \* the card that the open import view was connected with
          said       \* what the last seed import told the user

signerVars == <<backend, seedOf, stuck, twoFa, descr, importing, said>>

NoDescr == [seed |-> NoSeed, path |-> NoKey]
Silent == [told |-> "nothing", card |-> NoSigner, seed |-> NoSeed]

HoldersTypeOK ==
    /\ backend \in [Signers -> {"satochip", "keycard"}]
    /\ seedOf \in [Signers -> Seeds \cup {NoSeed}]
    /\ stuck \subseteq Signers
    /\ twoFa \in [Signers -> BOOLEAN]
    /\ descr \in [seed : Seeds \cup {NoSeed}, path : Paths \cup {NoKey}]
    /\ importing \in Signers \cup {NoSigner}
    /\ said \in [told : {"nothing", "imported", "failed"}, card : Signers \cup {NoSigner},
                 seed : Seeds \cup {NoSeed}]

HoldersInit ==
    /\ backend \in [Signers -> {"satochip", "keycard"}]
    /\ seedOf \in [Signers -> Seeds \cup {NoSeed}]
    /\ stuck \in SUBSET {c \in Signers : backend[c] = "keycard" /\ seedOf[c] = NoSeed}
    /\ twoFa = [c \in Signers |-> FALSE]
    /\ descr = NoDescr /\ importing = NoSigner /\ said = Silent

\* The import view goes no further with a card that reports a seed.
StartImport(c) ==
    /\ importing = NoSigner /\ seedOf[c] = NoSeed
    /\ importing' = c
    /\ UNCHANGED <<backend, seedOf, stuck, twoFa, descr, said>>

\* Back from the menu of seeds, or to a view that loads another seed first.
LeaveImport ==
    /\ importing # NoSigner /\ importing' = NoSigner
    /\ UNCHANGED <<backend, seedOf, stuck, twoFa, descr, said>>

\* Loading a seed into a Keycard.  One that answers 6985 is cleared and tried
\* again, then given the key itself instead of the seed; each may fail.
\* (Clearing fails only with another status word, which ends the import.)
LoadKey(c, s) ==
    \/ c \notin stuck /\ seedOf' = [seedOf EXCEPT ![c] = s] /\ UNCHANGED stuck
    \/ c \in stuck /\ seedOf' = [seedOf EXCEPT ![c] = s] /\ stuck' = stuck \ {c}

LoadFails(c) ==
    \/ UNCHANGED <<seedOf, stuck>>
    \/ c \in stuck /\ backend[c] = "keycard" /\ c = importing
       /\ stuck' = stuck \ {c} /\ UNCHANGED seedOf

\* A pysatochip import takes the seed; it raises for a card that has one (9C17).
LoadSeed(c, s) ==
    seedOf[c] = NoSeed /\ seedOf' = [seedOf EXCEPT ![c] = s] /\ UNCHANGED stuck

\* Mutant: the answer to the import is not looked at, only the status after it.
LoadsOrSeeded(c, s) ==
    \/ c = importing /\ backend[c] = "keycard" /\ LoadKey(c, s)
    \/ backend[importing] = "satochip" /\ backend[c] = "satochip" /\ LoadSeed(c, s)
    \/ seedOf[c] # NoSeed /\ UNCHANGED <<seedOf, stuck>>

\* The card on the reader takes the seed.  The secure channel to a Keycard is
\* that card's alone; pysatochip connects to a card that was exchanged.
Loads(c, s) ==
    \/ c = importing /\ backend[c] = "keycard" /\ LoadKey(c, s)
    \/ backend[importing] = "satochip" /\ backend[c] = "satochip" /\ LoadSeed(c, s)

\* Importing one of the seeds in storage.  The import is reported as done when
\* the card took it and then says, if it can, that it has a key.
ImportSeed(c, s) ==
    /\ importing # NoSigner
    /\ \/ Loads(c, s) /\ said' = [told |-> "imported", card |-> c, seed |-> s]
       \/ Loads(c, s) /\ said' = [told |-> "failed", card |-> c, seed |-> s]
       \/ LoadFails(c) /\ said' = [told |-> "failed", card |-> c, seed |-> s]
    /\ importing' = NoSigner
    /\ UNCHANGED <<backend, twoFa, descr>>

\* Removing the key from a Keycard, which some firmware leaves stuck.
RemoveSeed(c) ==
    /\ importing = NoSigner /\ backend[c] = "keycard" /\ seedOf[c] # NoSeed
    /\ seedOf' = [seedOf EXCEPT ![c] = NoSeed]
    /\ stuck' \in {stuck, stuck \cup {c}}
    /\ said' = Silent
    /\ UNCHANGED <<backend, twoFa, descr, importing>>

\* Enabling the second factor, for good: confirmed once before its key is made
\* and shown, and once more after.
Enable2FA(c) ==
    /\ importing = NoSigner /\ backend[c] = "satochip" /\ ~twoFa[c]
    /\ twoFa' = [twoFa EXCEPT ![c] = TRUE]
    /\ UNCHANGED <<backend, seedOf, stuck, descr, importing, said>>

\* Exporting the xpub of an account for a single signature wallet makes it the
\* wallet descriptor before its details are shown.
ExportXpub(c, p) ==
    /\ importing = NoSigner /\ seedOf[c] # NoSeed
    /\ descr' = [seed |-> seedOf[c], path |-> p]
    /\ UNCHANGED <<backend, seedOf, stuck, twoFa, importing, said>>

\* The account key and the master fingerprint, read from one card.
Account(c, p) == [seed |-> seedOf[c], path |-> p]

\* Loading the account as the wallet, once its details were confirmed.
LoadAccount(c, p) ==
    /\ importing = NoSigner /\ seedOf[c] # NoSeed
    /\ descr' = Account(c, p)
    /\ UNCHANGED <<backend, seedOf, stuck, twoFa, importing, said>>

HoldersNext ==
    \/ \E c \in Signers : \E s \in Seeds : ImportSeed(c, s)
    \/ \E c \in Signers : StartImport(c) \/ RemoveSeed(c) \/ Enable2FA(c)
    \/ LeaveImport
    \/ \E c \in Signers, p \in Paths : ExportXpub(c, p) \/ LoadAccount(c, p)

HoldersSpec == HoldersInit /\ [][HoldersNext]_signerVars

----------------------------------------------------------------------------
(* Properties *)

\* An import that is reported as done put that seed onto the card that is on the
\* reader then, which had none, whatever card was looked at before the menu;
\* and no step puts a seed in the place of another: funds would be lost with it.
ImportIsTrue ==
    [][/\ said'.told = "imported" /\ said' # said =>
            seedOf[said'.card] = NoSeed /\ seedOf'[said'.card] = said'.seed
       /\ \A c \in Signers : seedOf[c] # NoSeed => seedOf'[c] \in {seedOf[c], NoSeed}]_signerVars
=============================================================================
