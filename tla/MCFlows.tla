------------------------------ MODULE MCFlows ------------------------------
(***************************************************************************)
(* Components that share no state on small instances: a behaviour runs one *)
(* of them, part, while the others keep one of their initial states, so    *)
(* that the numbers of states add up.  The components this module extends  *)
(* bring their own variables and properties, the others are instances.     *)
(***************************************************************************)
EXTENDS PSBTFlow, CardSigner, AddressSearch, GpgFiles, GpgMessages, Slip39Flow, Workflows, ScanFlow,
        PsbtParser, GpgKeys, GpgCard, QRAnimation, TLC

CONSTANTS a1, a2, a3, b1                    \* SLIP-39 shares
CONSTANTS singleSig, multiSig, oddSig       \* transactions
CONSTANTS OtherKey                           \* a key that was not derived
CONSTANTS singleAddr, multiAddr, longText, shortText
CONSTANTS g1, g2                            \* OpenPGP keys
CONSTANTS sub1, sub2, sub3

VARIABLES part
VARIABLES navCur, navHist

Places == INSTANCE Navigation WITH
    Views <- {"A", "B", "C", "D"}, MainMenu <- "MainMenuView", StartupViews <- {"B"},
    cur <- navCur, hist <- navHist

\* A 3-of-n backup and a 1-of-1 backup.
MCShares == {a1, a2, a3, b1}
MCSet == [s \in MCShares |-> IF s = b1 THEN "b" ELSE "a"]
MCNeeded == [s \in MCShares |-> IF s = b1 THEN 1 ELSE 3]

\* A transaction from one key, with a risk and an OP_RETURN, that one seed and
\* the card sign, and a multisig transaction whose change shows with the
\* descriptor only, that another seed and the card sign.  To the WIF the
\* change of the one is a payment, and it refuses the other.  In the odd one
\* the first seed finds change of no value, and an empty OP_RETURN after
\* another; the second one change that does not name it; the card change
\* whose address the claimed path does not give.
FirstSeed == CHOOSE s \in Seeds : TRUE
MCReading(p, k, w) ==
    LET none == [verdict |-> "ok", dests |-> 1, changes |-> 0, valued |-> {}, unnamed |-> {},
                 opReturns |-> <<>>, multisig |-> FALSE, policy |-> TRUE, risky |-> FALSE,
                 unidentified |-> FALSE, derived |-> TRUE]
        change == [none EXCEPT !.changes = 1, !.valued = {0}]
        cannot == [none EXCEPT !.verdict = "cannot_sign"]
    IN CASE p = singleSig /\ k \in Wifs ->
              [none EXCEPT !.dests = 2, !.opReturns = <<"data">>, !.risky = TRUE, !.policy = FALSE]
         [] p = singleSig /\ k \in {FirstSeed, CardKey} ->
              [change EXCEPT !.opReturns = <<"data">>, !.risky = TRUE]
         [] p = multiSig /\ k \in Wifs -> [none EXCEPT !.verdict = "refused"]
         [] p = multiSig /\ k \notin Wifs \cup {FirstSeed} /\ w = NoWallet ->
              [none EXCEPT !.dests = 2, !.multisig = TRUE, !.unidentified = TRUE]
         [] p = multiSig /\ k \notin Wifs \cup {FirstSeed} /\ w # NoWallet -> [change EXCEPT !.multisig = TRUE]
         [] p = oddSig /\ k = FirstSeed -> [none EXCEPT !.changes = 1, !.opReturns = <<"data", "empty">>]
         [] p = oddSig /\ k = CardKey -> [change EXCEPT !.derived = FALSE]
         [] p = oddSig /\ k \in Seeds \ {FirstSeed} -> [change EXCEPT !.unnamed = {0}]
         [] OTHER -> cannot
MCConfirms(w, p) == p = multiSig

\* One seed and one descriptor; an address of each, of which the second one
\* does not show for which kind of wallet it is.
MCSeeds == {CHOOSE s \in Seeds : TRUE}
MCAddresses == {singleAddr, multiAddr}
MCKind(a) == IF a = singleAddr THEN "single" ELSE "either"
MCOwner(a) == IF a = singleAddr THEN CHOOSE s \in Seeds : TRUE ELSE CHOOSE w \in Wallets : TRUE
MCTexts == {longText, shortText}
MCPages(m) == IF m = longText THEN 2 ELSE 1

\* A message for the key with a passphrase, signed or not, and one that is
\* signed in the clear.
MCIncoming == {[to |-> g1, from |-> NoGpgKey], [to |-> g1, from |-> g2], [to |-> NoGpgKey, from |-> g2]}

\* The second key signs for a project; the name of the manifest may be of
\* another one, too.
MCProjects(n) == IF n = "file" THEN {"p"} ELSE {"p", "q"}
MCTrusted(p) == IF p = "p" THEN Shipped ELSE {}

\* A primary key, and subkeys of which the first one has two uses and the
\* third one the same use as the first.
MCSubkeys == <<sub1, sub2, sub3>>
MCCaps(k) == IF k = sub1 THEN {"s", "a"} ELSE IF k = sub2 THEN {"e"} ELSE {"s"}

\* Transactions that PsbtSamples lists.
Samples == INSTANCE PsbtSamples
MCTransactions == Samples!Samples
MCMultisigWallets == {Samples!wallet}
MCAccount == <<1>>

\* Codes that ScanSamples lists.
Qr == INSTANCE ScanSamples
MCScanned == Qr!ScanCodes
MCFragmentCount(u) == IF u = "huge" THEN 5 ELSE 4

MCCodes == DOMAIN Qr!Tested
MCTests(c) == Qr!Tested[c]
MCInside(c) == IF c \in DOMAIN Qr!Contents THEN Qr!Contents[c] ELSE c
MCKeyOf(c) == IF c = "either" THEN <<>> ELSE <<"k">>

navVars == <<navCur, navHist>>
flowVars == <<part, vars, navVars, shareVars, signVars, ringVars, workVars, searchVars,
              messageVars, fileVars, cardVars, scanVars, codesVars, parserVars>>

FlowsInit ==
    /\ part \in {"navigation", "slip39", "review", "signer", "keys", "work", "search", "messages",
                "files", "gpgcard", "camera", "scan", "parser"}
    /\ Places!Init /\ (part # "navigation" => navCur = "MainMenuView")
    /\ Init
    /\ SharesInit /\ (part # "slip39" => scannerAvailable)
    /\ FilesInit /\ MessagesInit
    /\ WorkInit /\ (part # "work" => workLoaded = {})
    /\ RingInit /\ (part # "keys" => gpgVersion = "v4")
    /\ CardInit /\ (part # "gpgcard" => pin = DefaultPin)
    /\ ScanInit /\ (part # "camera" => mode = "any")
    /\ CodesInit /\ (part # "scan" => preference = "prompt")
    /\ SearchInit
    /\ part # "search" => kind = "batch" /\ match = [index |-> 0, change |-> FALSE]
    /\ SignerInit
    /\ part # "signer" => /\ cardKind = "satochip" /\ derivs = [n \in Ins |-> Pubs] /\ own = Pubs
                          /\ need = 1 /\ limitSet = 1
    /\ IF part = "parser" THEN ParserInit
       ELSE /\ tx = NoPsbt /\ signKey = "seed" /\ descriptor = NoDescriptor /\ stage = "version"
            /\ verdict = "ok" /\ policy = NoPolicy /\ prefixes = {} /\ maxIndex = -1 /\ scope = 1
            /\ kinds = <<>> /\ risks = {}

rest(p) ==
    /\ IF p = "navigation" THEN TRUE ELSE UNCHANGED navVars
    /\ IF p = "slip39" THEN TRUE ELSE UNCHANGED shareVars
    /\ IF p = "review" THEN TRUE ELSE UNCHANGED vars
    /\ IF p = "signer" THEN TRUE ELSE UNCHANGED signVars
    /\ IF p = "keys" THEN TRUE ELSE UNCHANGED ringVars
    /\ IF p = "work" THEN TRUE ELSE UNCHANGED workVars
    /\ IF p = "search" THEN TRUE ELSE UNCHANGED searchVars
    /\ IF p = "messages" THEN TRUE ELSE UNCHANGED messageVars
    /\ IF p = "files" THEN TRUE ELSE UNCHANGED fileVars
    /\ IF p = "gpgcard" THEN TRUE ELSE UNCHANGED cardVars
    /\ IF p = "camera" THEN TRUE ELSE UNCHANGED scanVars
    /\ IF p = "scan" THEN TRUE ELSE UNCHANGED codesVars
    /\ IF p = "parser" THEN TRUE ELSE UNCHANGED parserVars
    /\ UNCHANGED part

FlowsNext ==
    \/ part = "navigation" /\ Places!Next /\ rest("navigation")
    \/ part = "slip39" /\ SharesNext /\ rest("slip39")
    \/ part = "review" /\ Next /\ rest("review")
    \/ part = "signer" /\ SignerNext /\ rest("signer")
    \/ part = "keys" /\ RingNext /\ rest("keys")
    \/ part = "work" /\ WorkNext /\ rest("work")
    \/ part = "search" /\ SearchNext /\ rest("search")
    \/ part = "messages" /\ MessagesNext /\ rest("messages")
    \/ part = "files" /\ FilesNext /\ rest("files")
    \/ part = "gpgcard" /\ CardNext /\ rest("gpgcard")
    \/ part = "camera" /\ ScanNext /\ rest("camera")
    \/ part = "scan" /\ CodesNext /\ rest("scan")
    \/ part = "parser" /\ ParserNext /\ rest("parser")

FlowsSpec == FlowsInit /\ [][FlowsNext]_flowVars

Symmetry == Permutations(Ins) \cup Permutations(Pubs)

----------------------------------------------------------------------------
\* The types of the component that runs.
TypesOK ==
    CASE part = "navigation" -> Places!TypeOK
      [] part = "slip39" -> SharesTypeOK
      [] part = "review" -> TypeOK
      [] part = "signer" -> SignerTypeOK
      [] part = "keys" -> RingTypeOK
      [] part = "work" -> WorkTypeOK
      [] part = "search" -> SearchTypeOK
      [] part = "messages" -> MessagesTypeOK
      [] part = "files" -> FilesTypeOK
      [] part = "gpgcard" -> CardTypeOK
      [] part = "camera" -> ScanTypeOK
      [] part = "scan" -> CodesTypeOK
      [] part = "parser" -> ParserTypeOK
=============================================================================
