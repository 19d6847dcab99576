----------------------------- MODULE Workflows -----------------------------
(***************************************************************************)
(* The workflows that need a seed which may have to be loaded first:       *)
(* verifying an address, exploring addresses, signing a message, exporting *)
(* an xpub and importing a seed into a card.  They leave what they wait    *)
(* for on the Controller (resume_main_flow and a few attributes) and the   *)
(* views that end the loading of a seed or of a descriptor lead back.      *)
(*                                                                         *)
(* One action is what a view does from its screen up to the next screen.   *)
(* Transactions (PSBTFlow), the words of a seed (SeedFlow) and auto-wipes  *)
(* (Controller) are left out.  What depends on the settings (lists of one  *)
(* entry, which are skipped, account numbers, warnings) is chosen anew at  *)
(* each step.                                                              *)
(***************************************************************************)
EXTENDS Naturals, Sequences

CONSTANTS
    WorkSeeds, Descriptors, NoSeed, \* seeds, multisig descriptors, and None
    CardSeed,                       \* the seed on a card, and its account's descriptor
    Addresses, NoAddress,           \* addresses, and None
    Kind(_), Owner(_),              \* whom an address is for, whose it is
    Texts, NoText,                  \* messages, and None
    Pages(_),                       \* screens a message takes
    NoData,                         \* None
    MaxDepth                        \* bound: views in the history

VARIABLES
    workCur, workHist,  \* Navigation
    workCtl,            \* the attributes of the Controller
    workLoaded,         \* SeedStorage.seeds
    signed              \* history: the last signature, with what was on screen before it

workVars == <<workCur, workHist, workCtl, workLoaded, signed>>

-----------------------------------------------------------------------------
(* Destinations *)
WorkPlain(v) == [view |-> v, key |-> NoSeed, n |-> 0]
Of(v, k) == [WorkPlain(v) EXCEPT !.key = k]
OnScreen(v) == workCur.view = v
WorkHome == WorkPlain("MainMenuView")
WorkTools == WorkPlain("ToolsMenuView")
SeedsMenu == WorkPlain("SeedsMenuView")
SeedWanted == WorkPlain("LoadSeedView")                   \* any way to load a seed (SeedFlow)
Options(k) == Of("SeedOptionsView", k)
DiscardOf(k) == Of("SeedDiscardView", k)
SelectFor(flow) == WorkPlain(IF flow = "sign_message" THEN "SelectSeed sign" ELSE "SelectSeed verify")
AskSigType == WorkPlain("AddressVerificationSigTypeView")
Search(k) == Of("SeedAddressVerificationView", k)
SearchMore(k) == [Search(k) EXCEPT !.n = 1]         \* from a later index
SearchAll(k) == [Search(k) EXCEPT !.n = 2]          \* use_expanded
SearchExported(k) == [Search(k) EXCEPT !.n = 3]     \* export_for_xpub
Verified == WorkPlain("SeedAddressVerificationSuccessView")
NotInBatch(k) == Of("SeedAddressVerificationSimpleNotFoundView", k)
NotFound(k) == Of("SeedAddressVerificationNotFoundView", k)
Exported == WorkPlain("SeedExportXpubVerification")      \* success or failure
DescriptorWanted == WorkPlain("LoadMultisigWalletDescriptorView")
DescriptorShown == WorkPlain("MultisigWalletDescriptorView")
CardScript == WorkPlain("SatochipLoadDescriptorScriptTypeView")
CardDetails == WorkPlain("SatochipLoadDescriptorDetailsView")
SigType(k) == Of("SeedExportXpubSigTypeView", k)
ScriptType(k, multi) == [Of("SeedExportXpubScriptTypeView", k) EXCEPT !.n = multi]
CustomPath(k, multi) == [Of("SeedExportXpubCustomDerivationView", k) EXCEPT !.n = multi]
AccountThen(d) ==
    [view |-> "AccountNumberView", key |-> d.key, n |-> IF d.view = "AddressType" THEN 2 ELSE d.n]
Export(k, multi) == [Of("SeedExportXpubQRFormatView", k) EXCEPT !.n = multi]   \* to the QR code
VerifyExport(k) == Of("SeedExportXpubVerifyAddressView", k)
ScanExported(k) == Of("ScanXpubAddressView", k)
Explorer == WorkPlain("ToolsAddressExplorerSelectSourceView")
AddressType(k) == Of("AddressType", k)
CustomAddressType(k) == [AddressType(k) EXCEPT !.n = 1]
AddressList == WorkPlain("ToolsAddressExplorerAddressListView")
AddressQR == WorkPlain("ToolsAddressExplorerAddressView")
Confirm(n) == [WorkPlain("SeedSignMessageConfirmMessageView") EXCEPT !.n = n]
ConfirmAddress == WorkPlain("SeedSignMessageConfirmAddressView")
SignedText == WorkPlain("SeedSignMessageSignedMessageQRView")     \* or that the card refused
ImportSeed == WorkPlain("ToolsSatochipImportSeedView")
WorkScanners == {"ScanView", "ScanSeedQRView", "ScanWalletDescriptorView", "ScanAddressView"}
Message == WorkPlain("ScanInvalidQRTypeView")   \* and others that end at home
WrongCode == WorkPlain("ErrorView")
WorkError == WorkPlain("UnhandledExceptionView")

WorkViews ==
    {WorkTools, SeedsMenu, SeedWanted, AskSigType, Verified, Exported, DescriptorWanted, DescriptorShown,
     CardScript, CardDetails, Explorer, AddressList, AddressQR, ConfirmAddress, SignedText,
     ImportSeed, Message, WrongCode, WorkError, SelectFor("sign_message"), SelectFor("singlesig_addr")}
    \cup {WorkPlain(v) : v \in WorkScanners} \cup {Confirm(n) : n \in 0..1}
    \cup UNION {{Options(k), DiscardOf(k), Search(k), SearchMore(k), SearchAll(k), SearchExported(k),
                 NotInBatch(k), NotFound(k), SigType(k), ScriptType(k, 0), ScriptType(k, 1),
                 VerifyExport(k), ScanExported(k), AddressType(k), CustomAddressType(k),
                 AccountThen(AddressType(k))}
                \cup UNION {{CustomPath(k, n), Export(k, n), AccountThen(Export(k, n))} : n \in 0..1}
                : k \in WorkSeeds \cup {NoSeed}}

WorkNav == INSTANCE Navigation WITH
    Views <- WorkViews, MainMenu <- WorkHome, StartupViews <- {}, cur <- workCur, hist <- workHist

-----------------------------------------------------------------------------
(* Showing the next view *)
FreshSession ==
    [resume |-> "none", address |-> NoAddress, multi |-> FALSE, wallet |-> NoSeed,
     explored |-> NoSeed, data |-> NoData, byCard |-> FALSE]

Resuming(s, flow) == [s EXCEPT !.resume = flow]
Resumed(s) == Resuming(s, "none")

\* On the way home the main loop forgets the workflow, but for the descriptor
\* and for the message.
ForgottenAtHome(s) == [FreshSession EXCEPT !.wallet = s.wallet, !.data = s.data]

\* The constructor of ToolsAddressExplorerAddressTypeView.
Exploring(s, k) == [s EXCEPT !.explored = IF k # NoSeed THEN k ELSE s.wallet]

\* The screen of a message splits it into pages, unless that was done.
Paged(s) ==
    IF s.data # NoData /\ s.data.pages = NoText
    THEN [s EXCEPT !.data.pages = s.data.message] ELSE s

\* Mutant: a seed in the data goes before the card.
SeedFirst(s) == IF s.data.seed = NoSeed THEN CardSeed ELSE s.data.seed

\* Whose address is shown, and who signs.
AddressKey(s) == IF s.byCard THEN CardSeed ELSE s.data.seed
SigningKey(s) == IF s.byCard THEN CardSeed ELSE s.data.seed

ShowsNext(d, s) ==
    workCtl' = CASE d = WorkHome -> ForgottenAtHome(s)
             [] d.view = "AddressType" -> Exploring(s, d.key)
             [] d.view = Confirm(0).view -> Paged(s)
             [] OTHER -> s

WorkVisit(d, skip, clear, s) == WorkNav!Visit(d, skip, clear) /\ Len(workHist') <= MaxDepth /\ ShowsNext(d, s)
WorkGoto(d, s) == WorkVisit(d, FALSE, FALSE, s)
WorkForward(d, s) == WorkVisit(d, TRUE, FALSE, s)
WorkRestart(d, s) == WorkVisit(d, FALSE, TRUE, s)

WorkBelow(skip) == LET n == Len(workHist) - IF skip THEN 2 ELSE 1 IN IF n < 1 THEN WorkHome ELSE workHist[n]
WorkBackOver(skip, s) == WorkNav!GoBack(skip) /\ ShowsNext(WorkBelow(skip), s)
WorkBack(s) == WorkBackOver(FALSE, s)
WorkFail == WorkRestart(WorkError, workCtl)

KeepSeeds == UNCHANGED <<workLoaded, signed>>

-----------------------------------------------------------------------------
(* Menus, and loading a seed *)
FromMainMenus ==
    /\ \/ workCur = WorkHome /\ \E d \in {WorkPlain("ScanView"), WorkTools, SeedsMenu} : WorkGoto(d, workCtl)
       \/ workCur = SeedsMenu /\ workLoaded = {} /\ WorkForward(SeedWanted, workCtl)
       \/ /\ workCur = SeedsMenu /\ workLoaded # {}
          /\ \/ WorkBack(workCtl)
             \/ \E d \in {SeedWanted} \cup {Options(k) : k \in workLoaded} : WorkGoto(d, workCtl)
       \/ /\ workCur = WorkTools
          /\ \/ WorkBack(workCtl)
             \/ \E d \in {Explorer, WorkPlain("ScanAddressView"), SeedWanted, ImportSeed} : WorkGoto(d, workCtl)
    /\ KeepSeeds

\* The end of SeedFinalizeView, or "back" out of the views that lead there.
Loading ==
    /\ OnScreen("LoadSeedView")
    /\ \/ \E k \in WorkSeeds :
            /\ workLoaded' = workLoaded \cup {k}
            /\ IF workCtl.resume = "satochip_import_seed"
               THEN WorkRestart(ImportSeed, Resumed(workCtl)) ELSE WorkRestart(Options(k), workCtl)
       \/ WorkBack(workCtl) /\ UNCHANGED workLoaded
    /\ UNCHANGED signed

\* No menu is shown while a workflow waits for the seed.
ResumeWithSeed ==
    /\ OnScreen("SeedOptionsView")
    /\ CASE workCtl.address # NoAddress /\ workCtl.resume = "singlesig_addr" ->
              WorkForward(Search(workCur.key), Resumed(workCtl))
         [] workCtl.resume = "address_explorer" -> WorkForward(ScriptType(workCur.key, 0), workCtl)
         [] workCtl.resume = "sign_message" ->
              IF workCtl.data = NoData THEN WorkFail
              ELSE WorkForward(Confirm(0), [workCtl EXCEPT !.data.seed = workCur.key])
         [] OTHER -> FALSE
    /\ KeepSeeds

Waiting == (workCtl.resume = "singlesig_addr" /\ workCtl.address # NoAddress)
           \/ workCtl.resume \in {"address_explorer", "sign_message"}

NewData(k) == [seed |-> k, message |-> NoText, pages |-> NoText, shown |-> NoSeed]

FromOptions ==
    /\ OnScreen("SeedOptionsView") /\ ~Waiting
    /\ \/ WorkGoto(WorkHome, workCtl)
       \/ WorkGoto(SigType(workCur.key), workCtl)
       \/ WorkGoto(ScriptType(workCur.key, 0), Resuming(workCtl, "address_explorer"))
       \/ WorkGoto(WorkPlain("ScanView"), [Resuming(workCtl, "sign_message") EXCEPT !.data = NewData(workCur.key)])
       \/ WorkGoto(DiscardOf(workCur.key), workCtl)
    /\ KeepSeeds

DiscardSeed ==
    /\ OnScreen("SeedDiscardView")
    /\ \/ WorkForward(Options(workCur.key), workCtl) /\ UNCHANGED workLoaded
       \/ workLoaded' = workLoaded \ {workCur.key} /\ WorkRestart(WorkHome, workCtl)
    /\ UNCHANGED signed

-----------------------------------------------------------------------------
(* Scanning *)
VerifyIn(s, multi) ==
    LET t == [s EXCEPT !.multi = multi]
    IN IF ~multi THEN <<SelectFor("singlesig_addr"), t>>
       ELSE IF s.wallet # NoSeed THEN <<Search(NoSeed), t>>
       ELSE <<DescriptorWanted, Resuming(t, "multisig_addr")>>

ScanAddress ==
    /\ workCur.view \in {"ScanView", "ScanAddressView"}
    /\ \E a \in Addresses :
         LET s == [workCtl EXCEPT !.address = a]
         IN IF Kind(a) = "either" THEN WorkForward(AskSigType, s)
            ELSE LET to == VerifyIn(s, Kind(a) = "multi") IN WorkForward(to[1], to[2])
    /\ KeepSeeds

ChooseSigType ==
    /\ workCur = AskSigType
    /\ \/ WorkBack([workCtl EXCEPT !.address = NoAddress])
       \/ \E multi \in BOOLEAN : LET to == VerifyIn(workCtl, multi) IN WorkGoto(to[1], to[2])
    /\ KeepSeeds

\* What the data of an earlier message holds besides stays.
WithMessage(s, m) ==
    IF s.data = NoData THEN [NewData(NoSeed) EXCEPT !.message = m] ELSE [s.data EXCEPT !.message = m]

\* SeedSignMessageStartView; messages may be disabled, for a path that is not
\* supported or for another network.
ScanMessage ==
    /\ OnScreen("ScanView")
    /\ \/ \E m \in Texts :
            LET s == [workCtl EXCEPT !.data = WithMessage(workCtl, m)]
            IN WorkGoto(IF s.data.seed # NoSeed THEN Confirm(0) ELSE SelectFor("sign_message"), s)
       \/ WorkGoto(Message, workCtl) \/ WorkGoto(Message, Resumed(workCtl))
    /\ KeepSeeds

ScanSeedOrDescriptor ==
    /\ \/ workCur.view \in {"ScanView", "ScanSeedQRView"} /\ WorkGoto(SeedWanted, workCtl)
       \/ /\ workCur.view \in {"ScanView", "ScanWalletDescriptorView"}
          /\ \E w \in Descriptors : WorkForward(DescriptorShown, [workCtl EXCEPT !.wallet = w])
    /\ KeepSeeds

\* The address of the wallet the user exported an xpub to.
ScanExportedAddress ==
    /\ OnScreen("ScanXpubAddressView")
    /\ \/ \E a \in Addresses :
            WorkForward(SearchExported(workCur.key), [workCtl EXCEPT !.address = a, !.multi = FALSE])
       \/ WorkForward(Exported, workCtl)
    /\ KeepSeeds

\* Given up, nothing recognised, no scanner, a code of the wrong type.
NothingScanned ==
    /\ workCur.view \in WorkScanners \cup {"ScanXpubAddressView"}
    /\ \/ WorkGoto(WorkHome, workCtl) \/ WorkGoto(Message, Resumed(workCtl)) \/ WorkForward(WrongCode, workCtl)
       \/ workCur.view # "ScanView" /\ WorkGoto(WrongCode, workCtl)
    /\ KeepSeeds

AfterMessage ==
    /\ \/ workCur \in {Message, WorkError} /\ WorkRestart(WorkHome, workCtl)
       \/ workCur = WrongCode /\ WorkBackOver(TRUE, workCtl)
    /\ KeepSeeds

-----------------------------------------------------------------------------
(* Choosing a seed to verify or to sign with *)
PickSeed ==
    /\ workCur \in {SelectFor("singlesig_addr"), SelectFor("sign_message")}
    /\ LET sign == workCur = SelectFor("sign_message")
           s == Resuming(workCtl, IF sign THEN "sign_message" ELSE "singlesig_addr")
       IN \/ WorkBack(workCtl)
          \/ \E k \in workLoaded :
               IF ~sign THEN WorkGoto(Search(k), workCtl)
               ELSE IF workCtl.data = NoData THEN WorkFail
               ELSE WorkGoto(Confirm(0), [workCtl EXCEPT !.data.seed = k])
          \/ ~sign /\ WorkGoto(CardScript, s)
          \/ sign /\ (\/ WorkBack(s)                    \* no card, or one with 2FA
                      \/ IF workCtl.data = NoData THEN WorkRestart(WorkError, [s EXCEPT !.byCard = TRUE])
                         ELSE WorkGoto(Confirm(0), [s EXCEPT !.byCard = TRUE, !.data.seed = NoSeed]))
          \/ WorkGoto(WorkPlain("ScanView"), s)
          \/ WorkGoto(SeedWanted, s)
    /\ KeepSeeds

-----------------------------------------------------------------------------
(* Verifying an address *)
\* The thread prefers a descriptor; the search of all paths has none.
Searched == IF workCur.n = 2 \/ workCtl.wallet = NoSeed THEN workCur.key ELSE workCtl.wallet

\* Without a seed and a descriptor the thread dies, and the screen stays.
SearchAddress ==
    /\ OnScreen("SeedAddressVerificationView")
    /\ \/ Owner(workCtl.address) = Searched /\ WorkGoto(IF workCur.n = 3 THEN Exported ELSE Verified, workCtl)
       \/ ~workCtl.multi /\ workCur.key # NoSeed /\ Searched # NoSeed
          /\ WorkGoto(CASE workCur.n = 3 -> Exported [] workCur.n = 2 -> NotFound(workCur.key)
                    [] OTHER -> NotInBatch(workCur.key), workCtl)
       \/ WorkGoto(WorkHome, workCtl)
    /\ KeepSeeds

AfterSearch ==
    /\ \/ workCur = Verified /\ WorkGoto(WorkHome, workCtl)
       \/ workCur = Exported /\ WorkGoto(WorkHome, [workCtl EXCEPT !.wallet = NoSeed])
       \/ /\ workCur.view = NotInBatch(NoSeed).view
          /\ \E d \in {WorkHome, SearchMore(workCur.key), SearchAll(workCur.key)} : WorkGoto(d, workCtl)
       \/ /\ workCur.view = NotFound(NoSeed).view
          /\ \E d \in {WorkHome, SearchAll(workCur.key)} : WorkGoto(d, workCtl)
    /\ KeepSeeds

\* From a QR code or a SeedKeeper.
FindDescriptor ==
    /\ workCur = DescriptorWanted
    /\ \/ WorkGoto(WorkPlain("ScanWalletDescriptorView"), workCtl) \/ WorkGoto(WorkHome, workCtl)
       \/ \E w \in Descriptors : WorkForward(DescriptorShown, [workCtl EXCEPT !.wallet = w])
    /\ KeepSeeds

ConfirmDescriptor ==
    /\ workCur = DescriptorShown
    /\ \/ WorkBack([workCtl EXCEPT !.wallet = NoSeed])
       \/ CASE workCtl.resume = "multisig_addr" /\ workCtl.address # NoAddress ->
                   WorkGoto(Search(NoSeed), Resumed(workCtl))
            [] workCtl.resume = "address_explorer" -> WorkGoto(AddressType(NoSeed), Resumed(workCtl))
            [] OTHER -> WorkGoto(WorkHome, workCtl)
    /\ KeepSeeds

CardDescriptor ==
    /\ \/ workCur = CardScript /\ (WorkBack(workCtl) \/ WorkGoto(CardDetails, workCtl))
       \/ /\ workCur = CardDetails
          /\ LET s == [workCtl EXCEPT !.wallet = CardSeed]
             IN \/ WorkBack(workCtl)
                \/ CASE workCtl.resume = "address_explorer" -> WorkForward(DescriptorShown, s)
                     [] workCtl.resume = "singlesig_addr" -> WorkForward(Search(NoSeed), Resumed(s))
                     [] OTHER -> WorkGoto(WorkHome, s)
    /\ KeepSeeds

-----------------------------------------------------------------------------
(* Exploring addresses, and exporting an xpub *)
ChooseSource ==
    /\ workCur = Explorer
    /\ LET s == Resuming(workCtl, "address_explorer")
       IN \/ WorkBack(workCtl)
          \/ \E k \in workLoaded : WorkGoto(ScriptType(k, 0), s)
          \/ workCtl.wallet # NoSeed /\ WorkGoto(AddressType(NoSeed), s)
          \/ \E d \in {CardScript, SeedWanted}
                      \cup {WorkPlain(v) : v \in {"ScanSeedQRView", "ScanWalletDescriptorView"}} : WorkGoto(d, s)
    /\ KeepSeeds

ExportSigType ==
    /\ OnScreen("SeedExportXpubSigTypeView")
    /\ \/ WorkBack(workCtl)
       \/ \E multi \in {0, 1}, skip \in BOOLEAN :
            WorkVisit(ScriptType(workCur.key, multi), skip, FALSE, workCtl)
    /\ KeepSeeds

AfterPath ==
    IF workCtl.resume = "address_explorer" THEN AddressType(workCur.key) ELSE Export(workCur.key, workCur.n)

BackToOptions(s) == IF WorkBelow(FALSE).view = "SeedOptionsView" THEN Resumed(s) ELSE s

ChooseScriptType ==
    /\ OnScreen("SeedExportXpubScriptTypeView")
    /\ \/ WorkBack(BackToOptions(workCtl))
       \/ \E d \in {CustomPath(workCur.key, workCur.n), AccountThen(AfterPath), AfterPath} :
            \E skip \in BOOLEAN : WorkVisit(d, skip, FALSE, workCtl)
    /\ KeepSeeds

ChoosePath ==
    /\ \/ /\ OnScreen("SeedExportXpubCustomDerivationView")
          /\ \/ WorkBack(workCtl)
             \/ WorkGoto(IF workCtl.resume = "address_explorer" THEN CustomAddressType(workCur.key)
                         ELSE Export(workCur.key, workCur.n), workCtl)
       \/ /\ OnScreen("AccountNumberView")
          /\ \/ WorkBack(workCtl)
             \/ WorkGoto(IF workCur.n = 2 THEN AddressType(workCur.key) ELSE Export(workCur.key, workCur.n), workCtl)
    /\ KeepSeeds

\* Format, warning, details and the code; a multisig xpub is not verified.
ExportXpub ==
    /\ \/ OnScreen("SeedExportXpubQRFormatView")
          /\ \/ WorkBack(workCtl)
             \/ WorkGoto(IF workCur.n = 1 THEN WorkHome ELSE VerifyExport(workCur.key), workCtl)
       \/ OnScreen("SeedExportXpubVerifyAddressView") /\ WorkGoto(ScanExported(workCur.key), workCtl)
    /\ KeepSeeds

ChooseAddressType ==
    /\ OnScreen("AddressType")
    /\ IF workCtl.explored = NoSeed THEN WorkFail
       ELSE \/ WorkBack(IF WorkBelow(FALSE).view = "SeedOptionsView"
                        THEN [Resumed(workCtl) EXCEPT !.explored = NoSeed] ELSE workCtl)
            \/ WorkGoto(AddressList, workCtl)
            \/ workCur.n = 1 /\ WorkFail
    /\ KeepSeeds

\* Pages of ten addresses, and each as a QR code.
ListAddresses ==
    /\ \/ workCur = AddressList /\ (WorkBack(workCtl) \/ WorkGoto(AddressQR, workCtl))
       \/ workCur = AddressQR /\ WorkGoto(AddressList, workCtl)
    /\ KeepSeeds

-----------------------------------------------------------------------------
(* Signing a message *)
Unreadable == workCtl.data = NoData \/ (workCtl.data # NoData /\ workCtl.data.pages = NoText)

ConfirmMessage ==
    /\ OnScreen("SeedSignMessageConfirmMessageView")
    /\ IF Unreadable THEN WorkFail
       ELSE IF workCur.n >= Pages(workCtl.data.pages) THEN WorkFail
       ELSE \/ WorkBack(IF workCur.n = 0 THEN [Resumed(workCtl) EXCEPT !.data = NoData] ELSE workCtl)
            \/ IF workCur.n < Pages(workCtl.data.pages) - 1 THEN WorkGoto(Confirm(workCur.n + 1), workCtl)
               ELSE \/ WorkGoto(ConfirmAddress, [workCtl EXCEPT !.data.shown = AddressKey(workCtl)])
                    \/ WorkGoto(Message, [Resumed(workCtl) EXCEPT !.data = NoData])     \* another network
                    \/ workCtl.byCard /\ WorkFail                                        \* no answer
    /\ KeepSeeds

ConfirmSigner ==
    /\ workCur = ConfirmAddress
    /\ \/ WorkBack(workCtl) /\ UNCHANGED signed
       \/ /\ WorkGoto(SignedText, workCtl)
          /\ signed' = [message |-> workCtl.data.message, read |-> workCtl.data.pages,
                        key |-> SigningKey(workCtl), shown |-> workCtl.data.shown]
       \/ workCtl.byCard /\ WorkGoto(SignedText, workCtl) /\ UNCHANGED signed
    /\ UNCHANGED workLoaded

EndSigning ==
    /\ workCur = SignedText
    /\ WorkForward(WorkHome, [Resumed(workCtl) EXCEPT !.data = NoData, !.byCard = FALSE])
    /\ signed' = NoData
    /\ UNCHANGED workLoaded

-----------------------------------------------------------------------------
(* Importing a seed into a card: an import, successful or not, leads back. *)
Import ==
    /\ workCur = ImportSeed
    /\ LET s == Resuming(workCtl, "satochip_import_seed")
       IN \/ WorkBack(workCtl)
          \/ workLoaded # {} /\ WorkBack(s)
          \/ \E d \in {WorkPlain("ScanSeedQRView"), SeedWanted, WorkTools} : WorkGoto(d, s)
    /\ KeepSeeds

-----------------------------------------------------------------------------
WorkInit ==
    /\ workCur = WorkHome /\ workHist = <<>> /\ workCtl = FreshSession
    /\ workLoaded \in {{}, WorkSeeds} /\ signed = NoData

WorkNext ==
    \/ FromMainMenus \/ Loading \/ ResumeWithSeed \/ FromOptions \/ DiscardSeed
    \/ ScanAddress \/ ChooseSigType \/ ScanMessage \/ ScanSeedOrDescriptor
    \/ ScanExportedAddress \/ NothingScanned \/ AfterMessage \/ PickSeed
    \/ SearchAddress \/ AfterSearch \/ FindDescriptor \/ ConfirmDescriptor \/ CardDescriptor
    \/ ChooseSource \/ ExportSigType \/ ChooseScriptType \/ ChoosePath \/ ExportXpub
    \/ ChooseAddressType \/ ListAddresses
    \/ ConfirmMessage \/ ConfirmSigner \/ EndSigning \/ Import

WorkSpec == WorkInit /\ [][WorkNext]_workVars

-----------------------------------------------------------------------------
Flows == {"none", "singlesig_addr", "multisig_addr", "address_explorer", "sign_message",
          "satochip_import_seed"}
Data ==
    [seed : WorkSeeds \cup {NoSeed}, message : Texts \cup {NoText},
     pages : Texts \cup {NoText}, shown : WorkSeeds \cup {CardSeed, NoSeed}]

Sessions ==
    [resume : Flows, address : Addresses \cup {NoAddress}, multi : BOOLEAN,
     wallet : Descriptors \cup {CardSeed, NoSeed},
     explored : WorkSeeds \cup Descriptors \cup {CardSeed, NoSeed},
     data : Data \cup {NoData}, byCard : BOOLEAN]

WorkTypeOK == WorkNav!TypeOK /\ workCtl \in Sessions /\ workLoaded \subseteq WorkSeeds

(* The address that was confirmed is the address of the key that signs.    *)
ConfirmedIsSigner == signed # NoData => signed.key = signed.shown

(* The addresses on screen are those of the seed, or of the descriptor,     *)
(* that the explorer was opened for.                                        *)
ExploresChosen ==
    workCur = AddressList =>
        \E i \in DOMAIN workHist :
            /\ workHist[i].view = "AddressType"
            /\ workCtl.explored = IF workHist[i].key # NoSeed THEN workHist[i].key ELSE workCtl.wallet

(* A workflow that waited for a key serves the key it was chosen for.       *)
ServesChosen == ConfirmedIsSigner /\ ExploresChosen

(* The text that was read is the text that is signed.                       *)
ReadIsSigned == signed # NoData => signed.message = signed.read

(* A single-sig address is looked for in the seed that was chosen.          *)
SearchesChosen == OnScreen("SeedAddressVerificationView") /\ workCur.key # NoSeed => Searched = workCur.key

(* "Back" out of the address explorer to the options of a seed shows them,  *)
(* and does not lead into the explorer again.                               *)
ExplorerIsLeft ==
    [][workCur.view \in {ScriptType(NoSeed, 0).view, CustomPath(NoSeed, 0).view,
                        "AccountNumberView", "AddressType"}
       /\ (workCur.view = "SeedOptionsView")' => workCtl'.resume # "address_explorer"]_workVars
=============================================================================
