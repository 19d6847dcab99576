------------------------------ MODULE ScanFlow ------------------------------
(***************************************************************************)
(* From a scanned QR code to the workflow it leads into, and the views that *)
(* decrypt an encrypted QR code (views/scan_views.py), over                *)
(* Controller.storage2, which holds the code that may be decrypted.        *)
(*                                                                         *)
(* The candidate is stored while a code is detected, by the decoder; shown *)
(* and decrypted by views that take it from storage2 later.                *)
(***************************************************************************)
EXTENDS QRCodes

CONSTANTS
    Codes, NoCode,  \* QR codes, and None
    Tests(_),       \* the tests a code passes (QRCodes)
    Inside(_),      \* what is in an encrypted code
    KeyOf(_),       \* the key that decrypts it
    Pieces,         \* what is typed or scanned in one go
    MaxPieces,      \* the length from which a key is refused (200 characters)
    Enabled,        \* which of "wif" and "bip38" the settings enable
    WipeBound       \* bound: auto-wipes in a behaviour

\* What decryption yields are bytes, which are a code of their own.
ASSUME CodesAssumption ==
    /\ MaxPieces \in Nat /\ WipeBound \in Nat
    /\ \A c \in Codes : Inside(c) \in Codes

VARIABLES
    place, trail,   \* Navigation: the view that runs, and the views that "back" leads through
    asks,           \* the code for which the view on screen asks "Decrypt?"
    candidate,      \* storage2.encryptedqr
    agreed,         \* history: the code whose decryption was agreed to last
    pending,        \* SeedStorage.pending_seed: the code it comes from
    preference,     \* SETTING__AMBIGUOUS_QR
    wiped           \* auto-wipes so far

codesVars == <<place, trail, asks, candidate, agreed, pending, preference, wiped>>

DecryptKeys == UNION {[1..k -> Pieces] : k \in 0..(MaxPieces + 1)}

----------------------------------------------------------------------------
(* Destinations *)
Dest(v) == [view |-> v, code |-> NoCode, key |-> <<>>]
With(v, c) == [Dest(v) EXCEPT !.code = c]
Keyed(v, k) == [Dest(v) EXCEPT !.key = k]
ScanAt(v) == place.view = v
ScanHome == Dest("MainMenuView")
CodeScanners == {"ScanView", "ScanPSBTView", "ScanSeedQRView", "ScanSlip39ShareQRView", "ScanWIFQRView",
             "ScanBIP38QRView", "ScanWalletDescriptorView", "ScanAddressView"}
Prompt(c) == With("ScanAmbiguousQRPromptView", c)
AskKey == Dest("ScanEncryptedQREncryptionKeyView")
KeyTyper(k) == Keyed("ScanEncryptedQRTypeEncryptionKeyView", k)
ExitDialog(k) == Keyed("ScanEncryptedQRTypeEncryptionKeyExitDialogView", k)
KeyScanner(k) == Keyed("ScanEncryptedQRScanEncryptionKeyView", k)
KeyReview(k) == Keyed("ScanEncryptedQRReviewEncryptionKeyView", k)
Decrypt(k) == Keyed("ScanDecryptEncryptedQRView", k)
InvalidCode == Dest("ScanInvalidQRTypeView")
DecryptedText(c) == With("ScanDecryptedTextView", c)
ScanError == Dest("ErrorView")
SeedView == Dest("SeedFinalizeView")        \* or a view that asks for a passphrase first
Workflow == Dest("Workflow")                \* any other workflow a code belongs to
Crashed == Dest("UnhandledExceptionView")

KeyViews ==
    {AskKey} \cup UNION {{KeyTyper(k), ExitDialog(k), KeyScanner(k), KeyReview(k), Decrypt(k)} : k \in DecryptKeys}

ScanViews ==
    {Dest(v) : v \in CodeScanners} \cup {InvalidCode, ScanError, SeedView, Workflow, Crashed}
    \cup {Prompt(c) : c \in Codes} \cup {DecryptedText(c) : c \in Codes} \cup KeyViews

ScanNav == INSTANCE Navigation WITH
    Views <- ScanViews, MainMenu <- ScanHome, StartupViews <- {}, cur <- place, hist <- trail

ScanGoto(d) == ScanNav!Visit(d, FALSE, FALSE)
ScanForward(d) == ScanNav!Visit(d, TRUE, FALSE)
ScanRestart(d) == ScanNav!Visit(d, FALSE, TRUE)
CodeBack == ScanNav!GoBack(FALSE)

Answered == asks' = NoCode
Asks(c) == asks' = c /\ UNCHANGED <<place, trail>>
KeepCandidate == UNCHANGED candidate
KeepRest == UNCHANGED <<preference, wiped>>
KeepCodes == KeepCandidate /\ UNCHANGED <<agreed, pending>> /\ KeepRest

CodesInit ==
    /\ place = ScanHome /\ trail = <<>>
    /\ asks = NoCode /\ candidate = NoCode /\ agreed = NoCode /\ pending = NoCode
    /\ preference \in {"compact", "encrypted", "prompt"} /\ wiped = 0

----------------------------------------------------------------------------
(* finalize_mnemonic_seed and finalize_xprv_seed, without the views of the  *)
(* seed that follow (SeedFlow).                                             *)
Loads(c, skip) == pending' = c /\ ScanNav!Visit(SeedView, skip, FALSE)

\* Mutant: a candidate that was never decrypted stays the candidate.
KeepsFirst(c) == IF candidate = NoCode THEN c ELSE candidate

\* store_encrypted_qr_candidate
Stored(c) == c

----------------------------------------------------------------------------
(* Scanning *)
ChooseScanner ==
    /\ ScanAt("MainMenuView")
    /\ \E v \in CodeScanners : ScanGoto(Dest(v))
    /\ Answered /\ KeepCodes

\* ScanView.is_valid_qr_type of the views that expect one thing.
Expected(v, t) ==
    CASE v = "ScanView" -> TRUE
      [] v = "ScanPSBTView" -> t \in {"psbt__ur2", "psbt__specter", "psbt__base64", "psbt__base43", "psbt__bbqr"}
      [] v = "ScanSeedQRView" ->
            t \in Binary \cup {"seed__seedqr", "seed__mnemonic", "seed__four_letter_mnemonic", "seed__xprv"}
      [] v = "ScanSlip39ShareQRView" -> t = "seed__slip39"
      [] v = "ScanWIFQRView" -> t = "wif" /\ t \in Enabled
      [] v = "ScanBIP38QRView" -> t = "bip38" /\ t \in Enabled
      [] v = "ScanWalletDescriptorView" -> t \in {"wallet__specter", "wallet__configfile", "wallet__generic", "output__ur"}
      [] v = "ScanAddressView" -> t = "bitcoin_address"

\* A text or an entropy that is a seed; for a mnemonic with both checksums
\* the user tells what it is, or goes back.
ScannedSeed(t, c) ==
    /\ \/ Loads(c, FALSE)
       \/ t # "seed__compactseedqr" /\ SeedType(Tests(c)) = "ambiguous" /\ CodeBack /\ UNCHANGED pending
    /\ Answered

\* Where ScanView.run leads with a complete code of type t.
Leads(t, c) ==
    CASE t \in {"seed__seedqr", "seed__mnemonic", "seed__four_letter_mnemonic", "seed__compactseedqr"} ->
            ScannedSeed(t, c)
      [] t = "seed__xprv" -> Loads(c, FALSE) /\ Answered
      [] t = "seed__encryptedqr" -> Asks(c) /\ UNCHANGED pending
      [] OTHER ->
            /\ Answered /\ UNCHANGED pending
            /\ CASE t = "seed__ambiguous_qr" -> ScanForward(Prompt(c))
                 [] t \in {"wif", "bip38"} ->
                        IF t \in Enabled THEN ScanForward(Workflow) ELSE ScanGoto(InvalidCode)
                 [] t \in {"psbt__base64", "psbt__base43", "psbt__bbqr", "psbt__specter", "psbt__ur2"} ->
                        ScanForward(Workflow) \/ ScanRestart(ScanHome)      \* it cannot be read
                 [] t \in {"wallet__specter", "wallet__generic", "wallet__configfile", "output__ur", "bitcoin_address"} ->
                        ScanForward(Workflow)
                 [] t = "set_time" -> ScanGoto(ScanHome) \/ ScanGoto(ScanError)
                 [] OTHER -> ScanGoto(Workflow)   \* a share, settings, a message; NotYetImplementedView

\* The view for shares does not look at the type: a code of another type has
\* no words.
ScanShare(t) ==
    /\ place.view = "ScanSlip39ShareQRView" /\ Answered /\ UNCHANGED pending
    /\ IF t = "seed__slip39" THEN ScanGoto(Workflow) ELSE ScanRestart(Crashed)

\* The code is detected, which may store it; then decoded; then the view acts.
ScanCode ==
    \E v \in CodeScanners, c \in Codes :
        LET t == DetectedType(Tests(c), preference)
            o == Outcome("any", Tests(c), preference)
        IN /\ ScanAt(v) /\ asks = NoCode
           /\ candidate' = IF StoresCandidate("any", Tests(c), preference) THEN Stored(c) ELSE candidate
           /\ UNCHANGED agreed /\ KeepRest
           /\ CASE o = "raises" -> ScanRestart(Crashed) /\ Answered /\ UNCHANGED pending
                [] o = "complete" ->
                    IF v = "ScanSlip39ShareQRView" THEN ScanShare(t)
                    ELSE IF Expected(v, t) THEN Leads(t, c)
                    ELSE ScanGoto(ScanError) /\ Answered /\ UNCHANGED pending
                [] o = "invalid" ->
                    \* of a known type: back to the main menu (to the share)
                    /\ Answered /\ UNCHANGED pending
                    /\ IF t = "invalid" THEN ScanGoto(InvalidCode)
                       ELSE IF v = "ScanSlip39ShareQRView"
                       THEN IF t = "seed__slip39" THEN ScanForward(Workflow) ELSE CodeBack
                       ELSE ScanGoto(ScanHome)

\* A key left or right while the camera runs.
LeaveScan ==
    /\ place.view \in CodeScanners /\ asks = NoCode
    /\ IF ScanAt("ScanSlip39ShareQRView") THEN CodeBack ELSE ScanGoto(ScanHome)
    /\ Answered /\ KeepCodes

----------------------------------------------------------------------------
(* The question "Decrypt?", in three views                                  *)
\* The candidate of ScanView is stored already, the others store it now;
\* after "Cancel" only ScanView's is cleared (the others have none).
Agree ==
    /\ asks # NoCode /\ agreed' = asks /\ Answered
    /\ IF place.view \in CodeScanners THEN ScanGoto(AskKey) /\ KeepCandidate
       ELSE ScanForward(AskKey) /\ candidate' = Stored(asks)
    /\ UNCHANGED pending /\ KeepRest

Disagree ==
    /\ asks # NoCode /\ ScanGoto(ScanHome) /\ Answered
    /\ candidate' = IF place.view \in CodeScanners THEN NoCode ELSE candidate
    /\ UNCHANGED <<agreed, pending>> /\ KeepRest

ChooseType ==
    /\ ScanAt("ScanAmbiguousQRPromptView") /\ asks = NoCode
    /\ LET c == place.code
       IN \/ "seed__encryptedqr" \in Tests(c).payload /\ Asks(c) /\ UNCHANGED pending
          \/ "seed__compactseedqr" \in Tests(c).payload /\ Loads(c, FALSE) /\ Answered
          \/ "seed__xprv" \in Tests(c).payload /\ Loads(c, FALSE) /\ Answered
          \/ ScanGoto(ScanHome) /\ Answered /\ UNCHANGED pending
    /\ KeepCandidate /\ UNCHANGED agreed /\ KeepRest

----------------------------------------------------------------------------
(* The key *)
ChooseKeySource ==
    /\ ScanAt("ScanEncryptedQREncryptionKeyView")
    /\ \/ ScanGoto(KeyTyper(<<>>)) /\ KeepCandidate
       \/ ScanGoto(KeyScanner(<<>>)) /\ KeepCandidate
       \/ ScanGoto(ScanHome) /\ candidate' = NoCode
    /\ Answered /\ UNCHANGED <<agreed, pending>> /\ KeepRest

EnterKey ==
    /\ ScanAt("ScanEncryptedQRTypeEncryptionKeyView")
    /\ \E k \in DecryptKeys :
        \/ ScanForward(KeyReview(k))
        \/ IF k = <<>> THEN CodeBack ELSE ScanForward(ExitDialog(k))
    /\ Answered /\ KeepCodes

ConfirmExit ==
    /\ ScanAt("ScanEncryptedQRTypeEncryptionKeyExitDialogView")
    /\ ScanForward(KeyTyper(place.key)) \/ CodeBack
    /\ Answered /\ KeepCodes

\* Anything is a key, but what is no text; what was scanned is appended.
AppendKey ==
    /\ ScanAt("ScanEncryptedQRScanEncryptionKeyView")
    /\ \/ \E p \in Pieces : Len(place.key) <= MaxPieces /\ ScanForward(KeyReview(Append(place.key, p)))
       \/ CodeBack
    /\ Answered /\ KeepCodes

ReviewKey ==
    /\ ScanAt("ScanEncryptedQRReviewEncryptionKeyView")
    /\ IF Len(place.key) > MaxPieces THEN CodeBack
       ELSE \/ CodeBack
            \/ ScanGoto(Decrypt(place.key))
            \/ ScanForward(KeyTyper(place.key))
            \/ ScanForward(KeyScanner(place.key))
    /\ Answered /\ KeepCodes

----------------------------------------------------------------------------
(* Decrypting *)
\* _route_decrypted_payload
Route(c) ==
    LET t == PayloadType(Tests(c), preference)
    IN CASE t \in {"seed__compactseedqr", "seed__xprv"} -> Loads(c, TRUE) /\ Answered
         [] t = "seed__encryptedqr" -> Asks(c) /\ UNCHANGED pending
         [] OTHER -> /\ Answered /\ UNCHANGED pending
                     /\ CASE t = "seed__ambiguous_qr" -> ScanForward(Prompt(c))
                          [] OTHER -> IF Tests(c).utf8 THEN ScanForward(DecryptedText(c))
                                      ELSE ScanGoto(InvalidCode)

\* Without a candidate (it was wiped, or "back" led here after it had been
\* decrypted) nothing can be decrypted; after a wrong key there is another try.
DecryptIt ==
    /\ ScanAt("ScanDecryptEncryptedQRView") /\ asks = NoCode
    /\ IF candidate # NoCode /\ KeyOf(candidate) = place.key
       THEN Route(Inside(candidate)) /\ candidate' = NoCode
       ELSE CodeBack /\ Answered /\ UNCHANGED pending /\ KeepCandidate
    /\ UNCHANGED agreed /\ KeepRest

\* Views that lead home, and the workflows, which lead home or back.
FinishScan ==
    /\ \/ /\ place.view \in {"ScanInvalidQRTypeView", "ScanDecryptedTextView", "UnhandledExceptionView"}
          /\ ScanRestart(ScanHome)
       \/ ScanAt("ErrorView") /\ (ScanNav!GoBack(TRUE) \/ ScanForward(ScanHome))
       \/ place.view \in {"SeedFinalizeView", "Workflow"} /\ (CodeBack \/ ScanRestart(ScanHome))
    /\ pending' = IF place'.view = "MainMenuView" THEN NoCode ELSE pending
    /\ Answered /\ KeepCandidate /\ UNCHANGED agreed /\ KeepRest

ChangeSetting ==
    /\ ScanAt("MainMenuView") /\ preference' \in {"compact", "encrypted", "prompt"}
    /\ UNCHANGED <<place, trail, asks, candidate, agreed, pending, wiped>>

\* The wipe timer, while any screen is on.
ScanWipe ==
    /\ wiped < WipeBound /\ wiped' = wiped + 1
    /\ candidate' = NoCode /\ pending' = NoCode /\ ScanNav!Forget
    /\ UNCHANGED <<asks, agreed, preference>>

CodesNext ==
    \/ ChooseScanner \/ ScanCode \/ LeaveScan
    \/ Agree \/ Disagree \/ ChooseType
    \/ ChooseKeySource \/ EnterKey \/ ConfirmExit \/ AppendKey \/ ReviewKey
    \/ DecryptIt \/ FinishScan \/ ChangeSetting \/ ScanWipe

CodesSpec == CodesInit /\ [][CodesNext]_codesVars

----------------------------------------------------------------------------
CodesTypeOK ==
    /\ place \in ScanViews \cup {ScanHome} /\ \A k \in DOMAIN trail : trail[k] \in ScanViews
    /\ {asks, candidate, agreed, pending} \subseteq Codes \cup {NoCode}
    /\ preference \in {"compact", "encrypted", "prompt"} /\ wiped \in 0..WipeBound

(* While a key is asked for, what it will be tried on is the code that was  *)
(* scanned and agreed to be decrypted, or nothing: never a code that was    *)
(* left over by a scan that led elsewhere (decode_qr.py:735, 1787).         *)
DecryptsAgreed == place \in KeyViews => candidate \in {NoCode, agreed}
=============================================================================
