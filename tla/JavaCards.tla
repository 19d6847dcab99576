----------------------------- MODULE JavaCards -----------------------------
(***************************************************************************)
(* The key that locks a JavaCard, the copies of such keys the device and   *)
(* its storage hold, and the applet packages on the cards: built on the    *)
(* microSD card, installed and uninstalled.                                *)
(***************************************************************************)
EXTENDS Naturals, FiniteSets

CONSTANTS JCards,  \* the JavaCards
          Keys,    \* single keys and key sets
          Applets  \* packages

CONSTANTS DefaultKey, NoKeys, NoCard, NoApplet

VARIABLES cardKey,    \* the key of each card
          packages,   \* the packages on each card
          inReader,   \* the card in the reader
          loadedKeys, \* controller.javacard_keys
          keyFile,    \* the key file on the microSD card
          keyNote,    \* the key on a SeedKeeper
          caps,       \* the CAP files: [from, applet]
          picked      \* a package chosen from a list of a card's packages

jcVars == <<cardKey, packages, inReader, loadedKeys, keyFile, keyNote, caps, picked>>

Built == [from : {"internal", "microsd"}, applet : Applets]

TypeOK ==
    /\ cardKey \in [JCards -> Keys \cup {DefaultKey}]
    /\ packages \in [JCards -> SUBSET Applets]
    /\ inReader \in JCards \cup {NoCard}
    /\ loadedKeys \in Keys \cup {NoKeys} /\ keyFile \in Keys \cup {NoKeys}
    /\ keyNote \in Keys \cup {NoKeys}
    /\ caps \subseteq Built
    /\ picked \in Applets \cup {NoApplet}

Init ==
    /\ cardKey \in [JCards -> Keys \cup {DefaultKey}]
    /\ packages \in [JCards -> SUBSET Applets]
    /\ inReader = NoCard /\ loadedKeys = NoKeys /\ keyFile = NoKeys /\ keyNote = NoKeys
    /\ caps \in SUBSET [from : {"internal"}, applet : Applets]
    /\ picked = NoApplet

Menu == picked = NoApplet

SwapCard ==
    /\ inReader' \in (JCards \cup {NoCard}) \ {inReader}
    /\ UNCHANGED <<cardKey, packages, loadedKeys, keyFile, keyNote, caps, picked>>

keyRest == <<packages, inReader, caps, picked>>

\* Typed, generated, or read from the file or the SeedKeeper.  A key that was
\* loaded is replaced after a warning.
LoadKeys ==
    /\ Menu
    /\ loadedKeys' \in Keys \cup ({keyFile, keyNote} \ {NoKeys})
    /\ UNCHANGED <<cardKey, keyFile, keyNote>> /\ UNCHANGED keyRest

SaveKeysToMicroSD ==
    /\ Menu /\ loadedKeys # NoKeys /\ keyFile' = loadedKeys
    /\ UNCHANGED <<cardKey, loadedKeys, keyNote>> /\ UNCHANGED keyRest

SaveKeysToSeedkeeper ==
    /\ Menu /\ loadedKeys # NoKeys /\ keyNote' = loadedKeys
    /\ UNCHANGED <<cardKey, loadedKeys, keyFile>> /\ UNCHANGED keyRest

ClearKeys ==
    /\ Menu /\ loadedKeys # NoKeys /\ loadedKeys' = NoKeys
    /\ UNCHANGED <<cardKey, keyFile, keyNote>> /\ UNCHANGED keyRest

\* The key that opens a card for its packages: the loaded one, if there is one.
OpeningKey == IF loadedKeys # NoKeys THEN loadedKeys ELSE DefaultKey

\* A card is locked from the default key only.
LockKey == DefaultKey

LockCard ==
    /\ Menu /\ loadedKeys # NoKeys /\ inReader # NoCard
    /\ cardKey[inReader] = LockKey
    /\ cardKey' = [cardKey EXCEPT ![inReader] = loadedKeys]
    /\ UNCHANGED <<loadedKeys, keyFile, keyNote>> /\ UNCHANGED keyRest

\* Unlocking puts the default key back.
UnlockCard ==
    /\ Menu /\ loadedKeys # NoKeys /\ inReader # NoCard
    /\ cardKey[inReader] = loadedKeys
    /\ cardKey' = [cardKey EXCEPT ![inReader] = DefaultKey]
    /\ UNCHANGED <<loadedKeys, keyFile, keyNote>> /\ UNCHANGED keyRest

appletRest == <<cardKey, inReader, loadedKeys, keyFile, keyNote>>

\* The build of the applets that the configuration on the card selects.
BuildApplets ==
    /\ Menu
    /\ \E chosen \in SUBSET Applets :
         caps' = caps \cup [from : {"microsd"}, applet : chosen]
    /\ UNCHANGED <<packages, picked>> /\ UNCHANGED appletRest

\* A failed authentication is not the end of an installation: the commands that
\* follow it are refused.
Opened(c) == cardKey[c] = OpeningKey

\* The card loads a package it does not have.
InstallApplet ==
    /\ Menu /\ inReader # NoCard /\ Opened(inReader)
    /\ \E f \in caps :
         /\ f.applet \notin packages[inReader]
         /\ packages' = [packages EXCEPT ![inReader] = @ \cup {f.applet}]
    /\ UNCHANGED <<caps, picked>> /\ UNCHANGED appletRest

\* The card failed with a status that calls for a rollback: the package of the
\* CAP file is deleted, if the card lets it be.
RollBack ==
    /\ Menu /\ inReader # NoCard /\ Opened(inReader)
    /\ \E f \in caps :
         packages' = [packages EXCEPT ![inReader] = @ \ {f.applet}]
    /\ UNCHANGED <<caps, picked>> /\ UNCHANGED appletRest

\* The list of a card's packages is on the screen and one of them is chosen.
ListPackages ==
    /\ Menu /\ inReader # NoCard /\ Opened(inReader)
    /\ picked' \in packages[inReader]
    /\ UNCHANGED <<packages, caps>> /\ UNCHANGED appletRest

\* The card is opened anew, whichever it is now, and the package deleted.
UninstallApplet ==
    /\ picked # NoApplet
    /\ IF inReader # NoCard /\ Opened(inReader) /\ picked \in packages[inReader]
       THEN packages' = [packages EXCEPT ![inReader] = @ \ {picked}]
       ELSE UNCHANGED packages
    /\ picked' = NoApplet
    /\ UNCHANGED caps /\ UNCHANGED appletRest

Next == SwapCard \/ LoadKeys \/ SaveKeysToMicroSD \/ SaveKeysToSeedkeeper \/ ClearKeys
        \/ LockCard \/ UnlockCard \/ BuildApplets \/ InstallApplet \/ RollBack
        \/ ListPackages \/ UninstallApplet

Spec == Init /\ [][Next]_jcVars

=============================================================================
