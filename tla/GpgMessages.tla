---------------------------- MODULE GpgMessages ----------------------------
(***************************************************************************)
(* Messages and keys under "GPG": what is written and read with the keys   *)
(* of the keyring, and how a message waits on the Controller               *)
(* (gpg_pending_message, resume_main_flow) while its key is loaded.        *)
(*                                                                         *)
(* A view runs in steps (at), from screen to screen; wherever it may be    *)
(* left, it may also have failed.  How keys are made and changed is in     *)
(* GpgKeys, how they get to a card in GpgCard, files are in GpgFiles.  gpg *)
(* and pgpy are external: a message is whom it is for and who signed it,   *)
(* and opens with the secret key it is for.                                *)
(***************************************************************************)
EXTENDS Naturals, Sequences

CONSTANTS
    MessageKeys, NoGpgKey,      \* keys, and None
    Protected,                  \* keys with a passphrase
    Incoming, NoMessage         \* what may come in: [to, from]; and None

AnyMessage == [to : MessageKeys \cup {NoGpgKey}, from : MessageKeys \cup {NoGpgKey}]

ASSUME MessagesAssumption == Incoming \subseteq AnyMessage /\ NoMessage \notin AnyMessage

VARIABLES
    gpgCur, gpgHist,        \* Navigation
    gpgCtl,                 \* attributes of the Controller
    gpgPubs, gpgSecs,       \* the keyring
    gpgAt, msg,             \* of the view: what it does next, and the message at hand
    chosen                  \* history: the message that was loaded last

messageVars == <<gpgCur, gpgHist, gpgCtl, gpgPubs, gpgSecs, gpgAt, msg, chosen>>

-----------------------------------------------------------------------------
GpgHome == "MainMenuView"
GpgTools == "ToolsMenuView"
GpgMenu == "ToolsGPGMenuView"
Pubkeys == {"PubkeyQR", "PubkeyFile", "PubkeySeedkeeper"}
Privkeys == {"PrivkeyQR", "PrivkeyFile", "PrivkeySeedkeeper"}
\* The entries of the menus, and of the menus below them.
MenuEntries == [m \in {GpgTools, GpgMenu, "Message", "Import", "Export", "ImportPubkey", "ImportPrivkey"} |->
    CASE m = GpgTools -> {GpgMenu}
      [] m = GpgMenu -> {"Import", "Export", "Message"}
      [] m = "Message" -> {"EncryptMessage", "DecryptMessage"}
      [] m = "Import" -> {"ImportPubkey", "ImportPrivkey"}
      [] m = "Export" -> {"ExportPubkey", "ExportPrivkey"}
      [] m = "ImportPubkey" -> Pubkeys
      [] m = "ImportPrivkey" -> Privkeys]

GpgViews == DOMAIN MenuEntries \cup {"ImportKeyToCard"} \cup UNION {MenuEntries[m] : m \in DOMAIN MenuEntries}

GpgNav == INSTANCE Navigation WITH
    Views <- GpgViews, MainMenu <- GpgHome, StartupViews <- {}, cur <- gpgCur, hist <- gpgHist

\* The Controller drops the workflow on the way home; the message stays.
ShowsGpg(d, s) ==
    /\ gpgCtl' = IF d = GpgHome THEN [s EXCEPT !.waits = FALSE] ELSE s
    /\ gpgAt' = "start" /\ msg' = NoMessage
GpgGoto(d, s) == GpgNav!Visit(d, FALSE, FALSE) /\ ShowsGpg(d, s)
GpgForward(d, s) == GpgNav!Visit(d, TRUE, FALSE) /\ ShowsGpg(d, s)
GpgBack(s) == GpgNav!GoBack(FALSE) /\ ShowsGpg(IF Len(gpgHist) < 2 THEN GpgHome ELSE gpgHist[Len(gpgHist) - 1], s)
GpgStep(v, from) == gpgCur = v /\ gpgAt = from
StayAt(to) == gpgAt' = to /\ UNCHANGED <<gpgCur, gpgHist, gpgCtl>>
Keyring == <<gpgPubs, gpgSecs>>

-----------------------------------------------------------------------------
(* Menus *)
FromMenu ==
    /\ \/ gpgCur = GpgHome /\ GpgGoto(GpgTools, gpgCtl)
       \/ /\ gpgCur \in DOMAIN MenuEntries
          /\ gpgCur = GpgMenu => ~gpgCtl.waits
          /\ GpgBack(gpgCtl) \/ \E d \in MenuEntries[gpgCur] : GpgGoto(d, gpgCtl)
    /\ UNCHANGED <<Keyring, chosen>>

\* The GPG menu is not shown while a message waits.
ResumeMessage ==
    /\ gpgCur = GpgMenu /\ gpgCtl.waits
    /\ GpgForward("DecryptMessage", [gpgCtl EXCEPT !.waits = FALSE])
    /\ UNCHANGED <<Keyring, chosen>>

-----------------------------------------------------------------------------
(* Writing: to one key or in the clear, by a key or not *)
ChooseRecipient ==
    /\ GpgStep("EncryptMessage", "start")
    /\ \/ GpgBack(gpgCtl)
       \/ \E k \in gpgPubs \cup {NoGpgKey} : msg' = [to |-> k, from |-> NoGpgKey] /\ StayAt("text")
    /\ UNCHANGED <<Keyring, chosen>>

\* Typed, scanned, or read from a SeedKeeper.
WriteText ==
    /\ GpgStep("EncryptMessage", "text")
    /\ GpgBack(gpgCtl) \/ (StayAt("signer") /\ UNCHANGED msg)
    /\ UNCHANGED <<Keyring, chosen>>

ChooseSigner ==
    /\ GpgStep("EncryptMessage", "signer")
    /\ \/ gpgSecs # {} /\ GpgBack(gpgCtl)
       \/ \E k \in gpgSecs \cup {NoGpgKey} : msg' = [msg EXCEPT !.from = k] /\ StayAt("encrypt")
    /\ UNCHANGED <<Keyring, chosen>>

\* With the passphrase of the signing key if it has one.
EncryptText ==
    /\ GpgStep("EncryptMessage", "encrypt")
    /\ GpgBack(gpgCtl) \/ (StayAt("deliver") /\ UNCHANGED msg)
    /\ UNCHANGED <<Keyring, chosen>>

\* As an animated QR code, or to the microSD.
DeliverText ==
    /\ GpgStep("EncryptMessage", "deliver")
    /\ GpgBack(gpgCtl)
    /\ UNCHANGED <<Keyring, chosen>>

-----------------------------------------------------------------------------
(* Reading *)
\* A message that waits is taken before one is asked for.
LoadMessage ==
    /\ GpgStep("DecryptMessage", "start")
    /\ IF gpgCtl.pending # NoMessage
       THEN /\ msg' = gpgCtl.pending /\ gpgCtl' = [gpgCtl EXCEPT !.pending = NoMessage] /\ gpgAt' = "open"
            /\ UNCHANGED <<gpgCur, gpgHist, chosen>>
       ELSE \/ GpgBack(gpgCtl) /\ UNCHANGED chosen
            \/ \E m \in Incoming : msg' = m /\ chosen' = m /\ StayAt("open")
    /\ UNCHANGED Keyring

\* The keys are tried in turn, and each one with a passphrase asks for it,
\* whomever the message is for.
OpenMessage ==
    /\ GpgStep("DecryptMessage", "open")
    /\ \/ msg.to \in gpgSecs \cup {NoGpgKey} /\ StayAt("signature") /\ UNCHANGED msg
       \/ msg.to \notin (gpgSecs \ Protected) \cup {NoGpgKey} /\ StayAt("closed") /\ UNCHANGED msg
       \/ msg.to # NoGpgKey /\ gpgSecs \cap Protected # {} /\ GpgBack(gpgCtl)
    /\ UNCHANGED <<Keyring, chosen>>

\* Mutant: a message that is taken is not put back.
TakenForGood(s) == [s EXCEPT !.waits = TRUE]

\* "Load Key".
WaitsWith(s) == [s EXCEPT !.waits = TRUE, !.pending = msg]

NotOpened ==
    /\ GpgStep("DecryptMessage", "closed")
    /\ GpgBack(gpgCtl) \/ GpgGoto("ImportPrivkey", WaitsWith(gpgCtl))
    /\ UNCHANGED <<Keyring, chosen>>

ReadSignature ==
    /\ GpgStep("DecryptMessage", "signature")
    /\ \/ StayAt("plain") /\ UNCHANGED msg
       \/ msg.from \notin gpgPubs \cup {NoGpgKey} /\ GpgGoto("ImportPubkey", WaitsWith(gpgCtl))
    /\ UNCHANGED <<Keyring, chosen>>

\* The text is shown, and may be saved to a SeedKeeper or shown as a QR code.
UseText ==
    /\ GpgStep("DecryptMessage", "plain")
    /\ GpgBack(gpgCtl)
    /\ UNCHANGED <<Keyring, chosen>>

-----------------------------------------------------------------------------
(* Keys *)
\* What comes in may hold the secret key whichever menu it was chosen from.
ImportKey ==
    \E k \in MessageKeys : gpgPubs' = gpgPubs \cup {k} /\ gpgSecs' \in {gpgSecs, gpgSecs \cup {k}}

\* If the key dates from the future, the clock may be set first.
LoadGpgKey(views) ==
    /\ gpgCur \in views
    /\ \/ GpgBack(gpgCtl) /\ UNCHANGED Keyring
       \/ ImportKey /\ GpgGoto(GpgMenu, gpgCtl)
    /\ UNCHANGED chosen

LoadKeyQR == LoadGpgKey({"PubkeyQR", "PrivkeyQR"})
LoadKeySeedkeeper == LoadGpgKey({"PubkeySeedkeeper", "PrivkeySeedkeeper"})
\* A secret key is in a file under a passphrase.
LoadPrivkeyFile == LoadGpgKey({"PrivkeyFile"})
\* Whatever came of it, what gpg did is counted and the view goes on.
LoadPubkeyFile ==
    /\ gpgCur = "PubkeyFile"
    /\ \/ GpgBack(gpgCtl) /\ UNCHANGED Keyring
       \/ (ImportKey \/ UNCHANGED Keyring) /\ GpgGoto(GpgMenu, gpgCtl)
    /\ UNCHANGED chosen

Exports == [ExportPubkey |-> {"file", "code", "seedkeeper", "card"}, ExportPrivkey |-> {"file", "seedkeeper", "card"}]

\* One of the keys that have a secret, and where it is to go.
ChooseExport ==
    /\ gpgCur \in DOMAIN Exports /\ gpgAt = "start"
    /\ GpgBack(gpgCtl) \/ (gpgSecs # {} /\ \E to \in Exports[gpgCur] : StayAt(to) /\ UNCHANGED msg)
    /\ UNCHANGED <<Keyring, chosen>>

\* As a file, or as an animated QR code.
ShowPubkey ==
    /\ GpgStep("ExportPubkey", "file") \/ GpgStep("ExportPubkey", "code")
    /\ GpgBack(gpgCtl)
    /\ UNCHANGED <<Keyring, chosen>>

\* A public key has no place on an OpenPGP card: that, too, is a SeedKeeper.
KeepPubkey ==
    /\ GpgStep("ExportPubkey", "seedkeeper") \/ GpgStep("ExportPubkey", "card")
    /\ GpgBack(gpgCtl)
    /\ UNCHANGED <<Keyring, chosen>>

\* Under a passphrase.
SavePrivkey ==
    /\ GpgStep("ExportPrivkey", "file")
    /\ GpgBack(gpgCtl)
    /\ UNCHANGED <<Keyring, chosen>>

KeepPrivkey ==
    /\ GpgStep("ExportPrivkey", "seedkeeper")
    /\ GpgBack(gpgCtl)
    /\ UNCHANGED <<Keyring, chosen>>

PrivkeyToCard ==
    /\ GpgStep("ExportPrivkey", "card")
    /\ GpgGoto("ImportKeyToCard", gpgCtl)
    /\ UNCHANGED <<Keyring, chosen>>

\* See GpgCard.
ImportKeyToCard ==
    /\ gpgCur = "ImportKeyToCard"
    /\ GpgBack(gpgCtl) \/ GpgGoto(GpgMenu, gpgCtl)
    /\ UNCHANGED <<Keyring, chosen>>

-----------------------------------------------------------------------------
MessagesInit ==
    /\ gpgCur = GpgHome /\ gpgHist = <<>>
    /\ gpgCtl = [waits |-> FALSE, pending |-> NoMessage]
    /\ gpgPubs = {} /\ gpgSecs = {} /\ gpgAt = "start" /\ msg = NoMessage /\ chosen = NoMessage

MessagesNext ==
    \/ FromMenu \/ ResumeMessage
    \/ ChooseRecipient \/ WriteText \/ ChooseSigner \/ EncryptText \/ DeliverText
    \/ LoadMessage \/ OpenMessage \/ NotOpened \/ ReadSignature \/ UseText
    \/ LoadKeyQR \/ LoadKeySeedkeeper \/ LoadPrivkeyFile \/ LoadPubkeyFile
    \/ ChooseExport \/ ShowPubkey \/ KeepPubkey \/ SavePrivkey \/ KeepPrivkey \/ PrivkeyToCard \/ ImportKeyToCard

MessagesSpec == MessagesInit /\ [][MessagesNext]_messageVars

-----------------------------------------------------------------------------
MessagesTypeOK ==
    /\ GpgNav!TypeOK
    /\ gpgCtl \in [waits : BOOLEAN, pending : Incoming \cup {NoMessage}]
    /\ msg \in AnyMessage \cup {NoMessage}
    /\ gpgSecs \subseteq gpgPubs /\ gpgPubs \subseteq MessageKeys /\ chosen \in Incoming \cup {NoMessage}

(* When a key has been loaded for a message, what is read next is the      *)
(* message that was loaded last.                                           *)
ResumesWithMessage ==
    [][gpgCtl.waits /\ gpgCur \in Pubkeys \cup Privkeys /\ gpgCur' = GpgMenu => gpgCtl'.pending = chosen]_messageVars
=============================================================================
