------------------------------ MODULE PSBTFlow ------------------------------
(***************************************************************************)
(* Reviewing and signing a transaction: the PSBT views with the scanner,   *)
(* the microSD loader and the seed views that lead into them, over the     *)
(* attributes of the Controller through which they talk to each other.     *)
(*                                                                         *)
(* One action is what a view does from its screen up to the next screen.   *)
(* A view takes what it needs from the Controller before its screen        *)
(* (local), so that an auto-wipe may come in between.                      *)
(***************************************************************************)
EXTENDS Naturals, Sequences

CONSTANTS
    Psbts, NoPsbt,      \* transactions, and None
    Seeds, Wifs,        \* keys in the form of a Seed, of a WIFKey
    CardKey, NoKey,        \* the key on a card, and None
    Wallets, NoWallet,  \* multisig descriptors, and None
    NoParser,           \* None
    Reading(_, _, _),   \* what PSBTParser makes of a psbt, for a key and a descriptor
    Confirms(_, _),     \* a descriptor owns the change outputs of a psbt
    MaxOutputs,         \* bound: recipients, and change outputs, of a psbt
    MaxWipes            \* bound: auto-wipes in a behaviour

VARIABLES
    cur, hist,      \* Navigation
    ctl,            \* the attributes of the Controller
    loaded,         \* SeedStorage.seeds
    local,          \* psbt, parser and seeds, as the view on screen took them from there
    seen,           \* history: the outputs that were on screen, and in whose reading
    wipes           \* auto-wipes so far

vars == <<cur, hist, ctl, loaded, local, seen, wipes>>

Keys == Seeds \cup Wifs

\* A reading lists no more outputs than there are destinations for, and None is not one.
ASSUME ReadingAssumption ==
    /\ MaxOutputs \in Nat /\ MaxWipes \in Nat
    /\ \A p \in Psbts, k \in Keys \cup {CardKey}, w \in Wallets \cup {NoWallet} :
         LET r == Reading(p, k, w)
         IN {r.dests, r.changes} \subseteq 0..MaxOutputs /\ r.valued \subseteq 0..(r.changes - 1)
    /\ NoParser \notin [psbt : Psbts \cup {NoPsbt}, key : Keys \cup {CardKey, NoKey},
                       wallet : Wallets \cup {NoWallet}]

-----------------------------------------------------------------------------
(* Destinations *)
Plain(v) == [view |-> v, n |-> 0, key |-> NoKey]
At(v) == cur.view = v
Home == Plain("MainMenuView")
Tools == Plain("ToolsMenuView")
LoadPsbt == Plain("ToolsSatochipLoadPsbtView")
Select == Plain("PSBTSelectSeedView")
Overview == Plain("PSBTOverviewView")
IdentifyChange == Plain("PSBTIdentifyChangeView")
RiskWarning == Plain("PSBTRiskWarningView")
Unsupported == Plain("PSBTUnsupportedScriptTypeWarningView")
NoChange == Plain("PSBTNoChangeWarningView")
Math == Plain("PSBTMathView")
Address(i) == [Plain("PSBTAddressDetailsView") EXCEPT !.n = i]
Change(i) == [Plain("PSBTChangeDetailsView") EXCEPT !.n = i]
OpReturn == Plain("PSBTOpReturnView")
Finalize == Plain("PSBTFinalizeView")
SignedQR == Plain("PSBTSignedQRDisplayView")
SigningError == Plain("PSBTSigningErrorView")
NotVerified == Plain("PSBTAddressVerificationFailedView")
NotImplemented == Plain("NotYetImplementedView")
Rejected == Plain("PSBTRefusalView")
CannotSign == Plain("PSBTSeedCannotSignView")
TypeKey == Plain("PSBTWIFEntryView")            \* and the two BIP38 views
LoadSeed == Plain("LoadSeedView")               \* any way to load a seed (SeedFlow)
SeedOptions(k) == [Plain("SeedOptionsView") EXCEPT !.key = k]
Scanners == {"ScanView", "ScanPSBTView", "ScanWIFQRView", "ScanWalletDescriptorView"}
WrongType == Plain("ErrorView")
InvalidQR == Plain("ScanInvalidQRTypeView")
LoadDescriptor == Plain("LoadMultisigWalletDescriptorView")
Descriptor == Plain("MultisigWalletDescriptorView")
Error == Plain("UnhandledExceptionView")

Destinations ==
    {Tools, LoadPsbt, Select, Overview, IdentifyChange, RiskWarning, Unsupported, NoChange,
     Math, OpReturn, Finalize, SignedQR, SigningError, NotVerified, NotImplemented, Rejected,
     CannotSign, TypeKey, LoadSeed, WrongType, InvalidQR, LoadDescriptor, Descriptor, Error}
    \cup {Plain(v) : v \in Scanners} \cup {SeedOptions(k) : k \in Seeds}
    \cup {Address(i) : i \in 0..MaxOutputs} \cup {Change(i) : i \in 0..MaxOutputs}

Nav == INSTANCE Navigation WITH Views <- Destinations, MainMenu <- Home, StartupViews <- {}

-----------------------------------------------------------------------------
(* Parsers *)
\* Nothing is parsed without a key (unless all inputs are multisig, for a card).
\* Of the change outputs, valued are those with an amount, and unnamed those
\* that do not claim the fingerprint of the key.
Nothing ==
    [verdict |-> "ok", dests |-> 0, changes |-> 0, valued |-> {}, unnamed |-> {}, opReturns |-> <<>>,
     multisig |-> FALSE, policy |-> FALSE, risky |-> FALSE, unidentified |-> FALSE, derived |-> TRUE]

Parser(p, k, w) == [psbt |-> p, key |-> k, wallet |-> w]
CardParser(p) == Parser(p, CardKey, NoWallet)

Read(q) == IF q.psbt = NoPsbt \/ q.key = NoKey THEN Nothing ELSE Reading(q.psbt, q.key, q.wallet)

\* PSBTParser.seed, None for a card.
SeedOf(q) == IF q = NoParser \/ q.key = CardKey THEN NoKey ELSE q.key

MustParse(s) == s.parser = NoParser \/ SeedOf(s.parser) # s.psbtSeed

\* change_amount adds the change up: what pays nothing does not count.
HasChange(q) == Read(q).valued # {}

\* Of several OP_RETURN outputs the parser keeps the last, and an empty one
\* counts for none.
ShowsData(q) ==
    LET kept == Read(q).opReturns IN kept # <<>> /\ kept[Len(kept)] = "data"

\* What the review can show, and what no way through it may leave out.
Outputs(q) ==
    {Address(i) : i \in 0..(Read(q).dests - 1)} \cup {Change(i) : i \in 0..(Read(q).changes - 1)}
    \cup (IF ShowsData(q) THEN {OpReturn} ELSE {})

Owed(q) == Outputs(q) \ {Change(i) : i \in (0..(Read(q).changes - 1)) \ Read(q).valued}

-----------------------------------------------------------------------------
(* Showing the next view: the main loop, its constructor, and run() up to   *)
(* the screen.                                                              *)
Fresh ==
    [psbt |-> NoPsbt, parser |-> NoParser, psbtSeed |-> NoKey, byCard |-> FALSE,
     path |-> NoPsbt, warned |-> FALSE, time |-> NoPsbt, wallet |-> NoWallet, resume |-> FALSE]

\* On the way home the loop resets the transaction, the menu the file.
AtHome(s) == [Fresh EXCEPT !.time = s.time, !.wallet = s.wallet]

\* The overview parses, unless that was done with the same key.
Parsed(s) ==
    LET q == Parser(s.psbt, s.psbtSeed, s.wallet)
    IN IF MustParse(s) /\ Read(q).verdict = "ok" THEN [s EXCEPT !.parser = q] ELSE s

Shows(d, s) ==
    LET t == IF d = Home THEN AtHome(s) ELSE IF d = Overview THEN Parsed(s) ELSE s
    IN /\ ctl' = t
       /\ local' = [psbt |-> t.psbt, parser |-> t.parser, seeds |-> loaded]
       /\ seen' = IF t.parser = NoParser THEN {}
                  ELSE IF d \in Outputs(t.parser) THEN seen \cup {<<d, t.parser>>} ELSE seen

Visit(d, skip, clear, s) == Nav!Visit(d, skip, clear) /\ Shows(d, s)
Goto(d, s) == Visit(d, FALSE, FALSE, s)
Forward(d, s) == Visit(d, TRUE, FALSE, s)
Restart(d, s) == Visit(d, FALSE, TRUE, s)

Below(skip) == LET n == Len(hist) - IF skip THEN 2 ELSE 1 IN IF n < 1 THEN Home ELSE hist[n]
BackOver(skip, s) == Nav!GoBack(skip) /\ Shows(Below(skip), s)
Back(s) == BackOver(FALSE, s)
Fail == Restart(Error, ctl)

Keep == UNCHANGED <<loaded, wipes>>

NoFile(s) == [s EXCEPT !.path = NoPsbt, !.warned = FALSE]
NoTx(s) == [s EXCEPT !.psbt = NoPsbt, !.parser = NoParser, !.psbtSeed = NoKey, !.byCard = FALSE]

-----------------------------------------------------------------------------
(* Getting a transaction *)
FromHome ==
    /\ cur = Home
    /\ \E d \in {Plain("ScanView"), Tools, LoadSeed} : Goto(d, ctl)
    /\ Keep

FromTools == At("ToolsMenuView") /\ (Goto(LoadPsbt, ctl) \/ Back(ctl)) /\ Keep

\* With seeds loaded a warning comes first; a file that cannot be read leads
\* to the list again.
ReadPsbtFile ==
    /\ At("ToolsSatochipLoadPsbtView")
    /\ LET s == [NoFile(ctl) EXCEPT !.warned = loaded # {}]
       IN \/ Back(NoFile(ctl)) \/ Back(s) \/ Goto(LoadPsbt, s)
          \/ \E p \in Psbts, t \in {TRUE, FALSE} :
               Forward(Select, [NoTx(s) EXCEPT !.psbt = p, !.path = p,
                                               !.time = IF t THEN p ELSE NoPsbt])
    /\ Keep

\* Mutant: the last transaction's reading is left to the next one.
ScannedOverReading(p) == [ctl EXCEPT !.psbt = p, !.time = NoPsbt]

WithScanned(p) == [ctl EXCEPT !.psbt = p, !.parser = NoParser, !.time = NoPsbt]

ScanPsbt ==
    /\ cur.view \in {"ScanView", "ScanPSBTView"}
    /\ Restart(Home, ctl) \/ \E p \in Psbts : Forward(Select, WithScanned(p))
    /\ Keep

ScanKey ==
    /\ cur.view \in {"ScanView", "ScanWIFQRView"}
    /\ \E k \in Wifs : Forward(Overview, [ctl EXCEPT !.psbtSeed = k])
    /\ Keep

ScanDescriptor ==
    /\ cur.view \in {"ScanView", "ScanWalletDescriptorView"}
    /\ \E w \in Wallets : Forward(Descriptor, [ctl EXCEPT !.wallet = w])
    /\ Keep

\* Given up, nothing recognised, a code of the wrong type, no scanner.
ScanNothing ==
    /\ cur.view \in Scanners
    /\ \/ Goto(Home, ctl) \/ Goto(InvalidQR, [ctl EXCEPT !.resume = FALSE])
       \/ Forward(WrongType, ctl)
       \/ cur.view # "ScanView" /\ Goto(WrongType, ctl)
    /\ Keep

AfterError ==
    /\ \/ At("ErrorView") /\ BackOver(TRUE, ctl)
       \/ At("ScanInvalidQRTypeView") /\ Restart(Home, ctl)
       \/ At("UnhandledExceptionView") /\ Restart(Home, ctl)
    /\ Keep

-----------------------------------------------------------------------------
(* Choosing who signs *)
Matches(p, k) == Reading(p, k, NoWallet).verdict # "cannot_sign"

\* With a key that can sign no screen is shown.
IsKnown == ctl.psbtSeed # NoKey /\ Matches(local.psbt, ctl.psbtSeed)

SelectKnown ==
    /\ At("PSBTSelectSeedView") /\ local.psbt # NoPsbt /\ IsKnown
    /\ Goto(Overview, ctl)
    /\ Keep

Choosing == At("PSBTSelectSeedView") /\ local.psbt # NoPsbt /\ ~IsKnown

\* A transaction from a microSD card comes with a warning, once.
Warned(s) == IF s.path = NoPsbt THEN s ELSE [s EXCEPT !.warned = TRUE]
Declined(s) == s.path # NoPsbt /\ ~s.warned /\ Goto(Select, s)

SelectSeed ==
    /\ Choosing
    /\ \/ Back(IF ctl.path = NoPsbt THEN ctl ELSE NoFile(ctl))
       \/ local.seeds # {} /\ Declined(ctl)
       \/ \E k \in local.seeds : Goto(Overview, [Warned(ctl) EXCEPT !.psbtSeed = k])
    /\ Keep

SelectOther ==
    /\ Choosing
    /\ LET s == [ctl EXCEPT !.resume = TRUE]
       IN \/ Declined(s)
          \/ \E d \in {LoadSeed, TypeKey, Plain("ScanWIFQRView")} : Goto(d, Warned(s))
    /\ Keep

Refuses(verdict, s) ==
    IF verdict = "cannot_sign" THEN Forward(CannotSign, s) ELSE Visit(Rejected, TRUE, TRUE, s)

SelectNothing == At("PSBTSelectSeedView") /\ local.psbt = NoPsbt /\ Fail /\ Keep

\* A card that is not there, needs 2FA or gives no key leads to the list again.
SelectCard ==
    /\ Choosing
    /\ LET s == [ctl EXCEPT !.resume = TRUE]
           q == CardParser(s.psbt)
           refused == [s EXCEPT !.parser = NoParser, !.byCard = FALSE]
       IN \/ Restart(Select, s)
          \/ s.psbt = NoPsbt /\ Restart(Error, s)
          \/ /\ s.psbt # NoPsbt /\ Read(q).verdict = "ok"
             /\ \/ Goto(Overview, [s EXCEPT !.parser = q, !.psbtSeed = NoKey, !.byCard = TRUE])
                \/ ~Read(q).multisig /\ Restart(Select, refused)
          \/ /\ s.psbt # NoPsbt /\ Read(q).verdict # "ok" /\ ~Read(q).multisig
             /\ Refuses(Read(q).verdict, refused)
    /\ Keep

TypeWIF ==
    /\ At("PSBTWIFEntryView")
    /\ \/ Back(ctl) \/ Goto(Select, ctl)
       \/ \E k \in Wifs : Goto(Overview, [ctl EXCEPT !.psbtSeed = k])
    /\ Keep

\* Whichever way it is entered, the history is cleared when a seed is loaded.
FinishSeed ==
    /\ At("LoadSeedView")
    /\ \/ Back(ctl) /\ UNCHANGED loaded
       \/ \E k \in Seeds : Restart(SeedOptions(k), ctl) /\ loaded' = loaded \cup {k}
    /\ UNCHANGED wipes

SeedMenu ==
    /\ At("SeedOptionsView")
    /\ IF ctl.psbt # NoPsbt /\ Matches(ctl.psbt, cur.key) /\ ctl.resume
       THEN Forward(Overview, [ctl EXCEPT !.resume = FALSE, !.psbtSeed = cur.key])
       ELSE Goto(Plain("ScanPSBTView"), [ctl EXCEPT !.psbtSeed = cur.key]) \/ Goto(Home, ctl)
    /\ Keep

IsRefused == MustParse(ctl) /\ Read(Parser(ctl.psbt, ctl.psbtSeed, ctl.wallet)).verdict # "ok"

Refuse ==
    /\ At("PSBTOverviewView") /\ IsRefused
    /\ Refuses(Read(Parser(ctl.psbt, ctl.psbtSeed, ctl.wallet)).verdict, ctl)
    /\ Keep

AfterRefusal ==
    /\ \/ At("PSBTRefusalView") /\ Restart(Home, NoTx(ctl))
       \/ At("PSBTSeedCannotSignView") /\ Restart(Select, [NoTx(ctl) EXCEPT !.psbt = ctl.psbt])
    /\ Keep

-----------------------------------------------------------------------------
(* The review *)
PostOverview(q) ==
    IF Read(q).risky THEN RiskWarning
    ELSE IF ~Read(q).policy THEN Unsupported
    ELSE IF HasChange(q) THEN Math ELSE NoChange

ReviewOverview ==
    /\ At("PSBTOverviewView") /\ ~IsRefused
    /\ \/ Back([ctl EXCEPT !.psbtSeed = NoKey])
       \/ Goto(IF Read(local.parser).unidentified THEN IdentifyChange ELSE PostOverview(local.parser), ctl)
    /\ Keep

ReviewUnidentified ==
    /\ At("PSBTIdentifyChangeView")
    /\ IF local.parser = NoParser THEN Goto(Home, ctl)
       ELSE \/ Back(ctl) \/ Forward(PostOverview(local.parser), ctl)
            \/ ctl.wallet = NoWallet /\ Goto(LoadDescriptor, [ctl EXCEPT !.resume = TRUE])
    /\ Keep

ReviewRisks ==
    /\ At("PSBTRiskWarningView")
    /\ IF local.parser = NoParser THEN Goto(Home, ctl)
       ELSE Back(ctl) \/ Forward(IF ~Read(local.parser).policy THEN Unsupported
                                 ELSE IF HasChange(local.parser) THEN Math ELSE NoChange, ctl)
    /\ Keep

ReviewWarning ==
    /\ \/ At("PSBTUnsupportedScriptTypeWarningView") /\ (Back(ctl) \/ Forward(Address(0), ctl))
       \/ At("PSBTNoChangeWarningView") /\ (Back(ctl) \/ Forward(Math, ctl))
    /\ Keep

ReviewMath ==
    /\ At("PSBTMathView")
    /\ IF local.parser = NoParser THEN Goto(Home, ctl)
       ELSE Back(ctl) \/ Goto(IF Read(local.parser).dests > 0 THEN Address(0) ELSE Change(0), ctl)
    /\ Keep

\* What comes after the addresses, after the change.
AfterChange(q) == IF ShowsData(q) THEN OpReturn ELSE Finalize
AfterAddresses(q) == IF HasChange(q) THEN Change(0) ELSE AfterChange(q)

\* Mutant: the last address is not shown.
ReviewAddressShort ==
    /\ At("PSBTAddressDetailsView")
    /\ IF local.parser = NoParser \/ cur.n >= Read(local.parser).dests THEN Fail
       ELSE \/ Back(ctl)
            \/ Goto(IF cur.n + 2 < Read(local.parser).dests THEN Address(cur.n + 1)
                    ELSE AfterAddresses(local.parser), ctl)
    /\ Keep

ReviewAddress ==
    /\ At("PSBTAddressDetailsView")
    /\ IF local.parser = NoParser \/ cur.n >= Read(local.parser).dests THEN Fail
       ELSE \/ Back(ctl)
            \/ Goto(IF cur.n + 1 < Read(local.parser).dests THEN Address(cur.n + 1)
                    ELSE AfterAddresses(local.parser), ctl)
    /\ Keep

\* The address of a multisig wallet is verified with its descriptor, or not at all.
ReviewChange ==
    /\ At("PSBTChangeDetailsView")
    /\ LET q == local.parser
           next == IF cur.n + 1 < Read(q).changes THEN Change(cur.n + 1) ELSE AfterChange(q)
       IN IF q = NoParser THEN Goto(Home, ctl)
          ELSE IF cur.n >= Read(q).changes THEN Fail
          ELSE IF cur.n \in Read(q).unnamed THEN Goto(NotImplemented, ctl)
          ELSE IF Read(q).multisig
          THEN IF ctl.wallet # NoWallet /\ ~Confirms(ctl.wallet, q.psbt)
               THEN Forward(Change(cur.n), [ctl EXCEPT !.wallet = NoWallet])
               ELSE \/ Back(ctl) \/ Goto(next, ctl)
                    \/ ctl.wallet = NoWallet /\ Goto(LoadDescriptor, [ctl EXCEPT !.resume = TRUE])
          ELSE IF Read(q).derived THEN Back(ctl) \/ Goto(next, ctl)
          ELSE Visit(NotVerified, FALSE, TRUE, ctl)
    /\ Keep

ReviewOpReturn ==
    /\ At("PSBTOpReturnView")
    /\ IF local.parser = NoParser THEN Fail ELSE Back(ctl) \/ Goto(Finalize, ctl)
    /\ Keep

Discard == At("PSBTAddressVerificationFailedView") /\ Restart(Home, ctl) /\ Keep
GiveUp == At("NotYetImplementedView") /\ Goto(Home, ctl) /\ Keep

\* The descriptor of a multisig wallet.  "Return" has the transaction read
\* again when some of its change was not identified.
ChooseDescriptor ==
    /\ At("LoadMultisigWalletDescriptorView")
    /\ \/ Goto(Plain("ScanWalletDescriptorView"), ctl)
       \/ IF ctl.resume THEN Back(ctl) ELSE Goto(Home, ctl)
    /\ Keep

UseDescriptor ==
    /\ At("MultisigWalletDescriptorView")
    /\ \/ Back([ctl EXCEPT !.wallet = NoWallet])
       \/ IF ~ctl.resume THEN Goto(Home, ctl)
          ELSE IF ctl.parser # NoParser /\ Read(ctl.parser).unidentified
          THEN Forward(Overview, [ctl EXCEPT !.resume = FALSE, !.parser = NoParser])
          ELSE Goto(Change(0), [ctl EXCEPT !.resume = FALSE])
    /\ Keep

-----------------------------------------------------------------------------
(* Signing *)
\* A card that fails or adds nothing leads to the same screen again; a key
\* is taken from the parser that the view found.
Sign ==
    /\ At("PSBTFinalizeView")
    /\ IF local.psbt = NoPsbt \/ (~ctl.byCard /\ local.parser = NoParser) THEN Goto(Home, ctl)
       ELSE \/ Back(ctl)
            \/ IF ctl.byCard
               THEN \/ Goto(Finalize, ctl)
                    \/ Goto(SignedQR, [ctl EXCEPT !.psbt = local.psbt, !.byCard = FALSE])
               ELSE IF local.parser.key \in {CardKey, NoKey} THEN Fail
               ELSE \/ Goto(SigningError, ctl)
                    \/ Goto(SignedQR, [ctl EXCEPT !.psbt = local.psbt, !.byCard = FALSE])
    /\ Keep

\* The file, if there is one, is written before the QR code is shown.
ShowSigned == At("PSBTSignedQRDisplayView") /\ Restart(Home, NoFile(ctl)) /\ Keep

SigningFailed ==
    /\ At("PSBTSigningErrorView")
    /\ IF local.parser = NoParser THEN Goto(Home, ctl)
       ELSE Back(ctl) \/ Restart(Select, [ctl EXCEPT !.psbtSeed = NoKey])
    /\ Keep

-----------------------------------------------------------------------------
\* The inactivity wipe, while a screen waits (see Controller for the rest).
AutoWipe ==
    /\ wipes < MaxWipes /\ wipes' = wipes + 1
    /\ ~(At("PSBTSelectSeedView") /\ IsKnown) /\ ~(At("PSBTOverviewView") /\ IsRefused)
    /\ ctl' = [NoTx(ctl) EXCEPT !.wallet = NoWallet, !.resume = FALSE]
    /\ loaded' = {}
    /\ Nav!Forget
    /\ UNCHANGED <<local, seen>>

Load == FromHome \/ FromTools \/ ReadPsbtFile \/ ScanPsbt \/ ScanKey \/ ScanDescriptor
        \/ ScanNothing \/ AfterError
ChooseKey == SelectKnown \/ SelectSeed \/ SelectOther \/ SelectNothing \/ SelectCard \/ TypeWIF
             \/ FinishSeed \/ SeedMenu \/ Refuse \/ AfterRefusal
Review == ReviewOverview \/ ReviewUnidentified \/ ReviewRisks \/ ReviewWarning \/ ReviewMath
          \/ ReviewAddress \/ ReviewChange \/ ReviewOpReturn \/ Discard \/ GiveUp
          \/ ChooseDescriptor \/ UseDescriptor

Init ==
    /\ cur = Home /\ hist = <<>> /\ ctl = Fresh /\ loaded = {}
    /\ local = [psbt |-> NoPsbt, parser |-> NoParser, seeds |-> {}]
    /\ seen = {} /\ wipes = 0

Next == Load \/ ChooseKey \/ Review \/ Sign \/ ShowSigned \/ SigningFailed \/ AutoWipe

Spec == Init /\ [][Next]_vars

-----------------------------------------------------------------------------
Parsers == [psbt : Psbts \cup {NoPsbt}, key : Keys \cup {CardKey, NoKey}, wallet : Wallets \cup {NoWallet}]
           \cup {NoParser}

Attributes ==
    [psbt : Psbts \cup {NoPsbt}, parser : Parsers, psbtSeed : Keys \cup {NoKey}, byCard : BOOLEAN,
     path : Psbts \cup {NoPsbt}, warned : BOOLEAN, time : Psbts \cup {NoPsbt},
     wallet : Wallets \cup {NoWallet}, resume : BOOLEAN]

TypeOK ==
    /\ Nav!TypeOK
    /\ ctl \in Attributes
    /\ loaded \subseteq Seeds /\ local.seeds \subseteq Seeds
    /\ local.psbt \in Psbts \cup {NoPsbt} /\ local.parser \in Parsers
    /\ seen \subseteq Destinations \X Parsers
    /\ wipes \in 0..MaxWipes

(* What is shown, and what it is measured against, belongs to the           *)
(* transaction that would be signed: the parser reads this psbt and no      *)
(* earlier one (psbt_parser is reset wherever psbt is set), and the time    *)
(* its lock times are compared with is that of its own file, or unknown.    *)
ReadingIsCurrent ==
    ctl.psbt # NoPsbt =>
        /\ ctl.parser # NoParser => ctl.parser.psbt = ctl.psbt
        /\ ctl.time \in {NoPsbt, ctl.psbt}

(* A signature is made only of a transaction of which the user has seen     *)
(* every recipient, every change output with an amount and the payload the  *)
(* parser kept of its OP_RETURNs, in a reading of that very transaction:    *)
(* whatever way led to PSBTFinalizeView.  Change of no value is not owed:   *)
(* it is signed unseen when none of the change has a value, and so are an   *)
(* empty OP_RETURN and all but the last of several.                         *)
SignedWasReviewed ==
    [][cur' = SignedQR /\ cur # SignedQR =>
         /\ local.parser # NoParser /\ local.parser.psbt = local.psbt
         /\ Read(local.parser) # Nothing
         /\ \A o \in Owed(local.parser) : <<o, local.parser>> \in seen]_vars

(* "Return to transaction" after loading a descriptor has the transaction   *)
(* read again with it: an overview that was not refused shows a reading.    *)
ReadAgain == At("PSBTOverviewView") /\ ctl.psbt # NoPsbt /\ ~IsRefused => Read(ctl.parser) # Nothing
=============================================================================
