----------------------------- MODULE Slip39Flow -----------------------------
(***************************************************************************)
(* Entering the shares of a SLIP-39 backup, word by word, by camera or     *)
(* from a SeedKeeper card, and combining them into the pending Seed: the   *)
(* SLIP-39 half of SeedStorage with the views that call it.                *)
(***************************************************************************)
EXTENDS Naturals, Sequences

CONSTANTS
    Shares,             \* valid shares
    Set,                \* the backup a share belongs to
    Needed,             \* how many shares its first share says are needed
    NoShare,            \* None
    ShareLengths,       \* the numbers of words on offer
    DefaultLength       \* ... and the one that is used when none is known

ASSUME SharesAssumption ==
    /\ ShareLengths \subseteq Nat \ {0} /\ DefaultLength \in ShareLengths
    /\ \E n \in ShareLengths : \A m \in ShareLengths : m <= n

VARIABLES
    shareCur, shareHist,      \* Navigation
    share,          \* _pending_slip39_share
    shares,         \* _pending_slip39_shares
    length,         \* _slip39_share_length; 0 stands for None, which it is treated as
    first,          \* _slip39_first_share
    scannerAvailable    \* DecodeQR.is_qr_scanner_available(), for good

shareVars == <<shareCur, shareHist, share, shares, length, first, scannerAvailable>>

NoWord == "none"
Typed == "typed"

(* Mutant: one place too many. *)
BlankOneMore(n) == [i \in 1..(n + 1) |-> NoWord]

Blank(n) == [i \in 1..n |-> NoWord]

-----------------------------------------------------------------------------
SharePlain(v) == [view |-> v, word |-> 0, length |-> 0, scan |-> FALSE]
Entry(i) == [SharePlain("SeedSlip39ShareEntryView") EXCEPT !.word = i]
ShareInvalid(n, scan) == [SharePlain("SeedSlip39ShareInvalidView") EXCEPT !.length = n, !.scan = scan]

ShareHome == SharePlain("MainMenuView")
ShareLoad == SharePlain("LoadSeedView")
ShareError == SharePlain("UnhandledExceptionView")
Start == SharePlain("SeedSlip39MnemonicStartView")
Scan == SharePlain("ScanSlip39ShareQRView")
Card == SharePlain("SeedSlip39LoadFromSeedkeeperView")
MoreShares == SharePlain("SeedSlip39MoreSharesView")
ScannerError == SharePlain("ErrorView")
UnknownCode == SharePlain("ScanInvalidQRTypeView")
ShareFinalize == SharePlain("SeedFinalizeView")

MaxLength == CHOOSE n \in ShareLengths : \A m \in ShareLengths : m <= n
ShareViews ==
    {ShareLoad, ShareError, Start, Scan, Card, MoreShares, ShareFinalize, ScannerError, UnknownCode}
    \cup {Entry(i) : i \in 0..(MaxLength - 1)}
    \cup {ShareInvalid(n, scan) : n \in ShareLengths \cup {0}, scan \in BOOLEAN}

ShareNav == INSTANCE Navigation WITH
    Views <- ShareViews, MainMenu <- ShareHome, StartupViews <- {}, cur <- shareCur, hist <- shareHist

(* The main menu and the start of the share entry discard all shares when   *)
(* they are shown, and so also when the user goes back to them.            *)
Discards(d) == d \in {ShareHome, Start}

Keeps(sh, shs, n, f) == share' = sh /\ shares' = shs /\ length' = n /\ first' = f
Arrive(d, sh, shs, n, f) == IF Discards(d) THEN Keeps(<<>>, <<>>, 0, NoShare) ELSE Keeps(sh, shs, n, f)
ArriveSame(d) == Arrive(d, share, shares, length, first)

(* Where "back" leads, from a view that is skipped or not. *)
Previous(skip) ==
    LET n == Len(shareHist) - (IF skip THEN 2 ELSE 1) IN IF n < 1 THEN ShareHome ELSE shareHist[n]

ShareGoto(d) == ShareNav!Visit(d, FALSE, FALSE) /\ ArriveSame(d)
ShareBack == ShareNav!GoBack(FALSE) /\ ArriveSame(Previous(FALSE))
ShareFail == ShareNav!Visit(ShareError, FALSE, TRUE) /\ ArriveSame(ShareError)

-----------------------------------------------------------------------------
(* SeedStorage.init_pending_slip39_share, with a number of words or None.   *)
InitShare(n) == IF n = 0 THEN (IF length = 0 THEN DefaultLength ELSE length) ELSE n

(* finalize_current_slip39_share and add_slip39_share_mnemonic *)
FirstShare(s) == IF first = NoShare THEN s ELSE first

StartShares ==
    /\ shareCur = Start
    /\ \/ ShareBack \/ ShareGoto(Scan) \/ ShareGoto(Card)
       \/ \E n \in ShareLengths :
            ShareNav!Visit(Entry(0), FALSE, FALSE) /\ Keeps(Blank(n), shares, n, first)

AtEntry == shareCur.view = "SeedSlip39ShareEntryView"
UpdatedShare == [share EXCEPT ![shareCur.word + 1] = Typed]

EntryBack == AtEntry /\ ShareBack

(* "index is too high" *)
WordRefused == AtEntry /\ shareCur.word >= Len(share) /\ ShareFail

WordTyped ==
    /\ AtEntry /\ shareCur.word < Len(share) - 1
    /\ ShareNav!Visit(Entry(shareCur.word + 1), FALSE, FALSE)
    /\ Keeps(UpdatedShare, shares, length, first)

LastWord == AtEntry /\ shareCur.word = Len(share) - 1

(* Mutant: the words are emptied, but not taken away, when they were added. *)
ShareTypedBlank(s) ==
    /\ LastWord
    /\ ShareNav!Visit(MoreShares, FALSE, FALSE)
    /\ Keeps(Blank(Len(share)), Append(shares, s), length, FirstShare(s))

ShareTyped(s) ==
    /\ LastWord
    /\ ShareNav!Visit(MoreShares, FALSE, FALSE)
    /\ Keeps(<<>>, Append(shares, s), length, FirstShare(s))

(* An invalid share is emptied before the view asks for its length.        *)
InvalidShareTyped ==
    /\ LastWord
    /\ ShareNav!Visit(ShareInvalid(0, FALSE), TRUE, FALSE)
    /\ Keeps(<<>>, shares, 0, first)

(* "Try Again" *)
RetryTyped ==
    /\ shareCur.view = "SeedSlip39ShareInvalidView" /\ ~shareCur.scan
    /\ ShareNav!Visit(Entry(0), TRUE, FALSE)
    /\ Keeps(Blank(shareCur.length), shares, shareCur.length, first)

RetryScan ==
    /\ shareCur.view = "SeedSlip39ShareInvalidView" /\ shareCur.scan
    /\ ShareNav!Visit(Scan, TRUE, FALSE)
    /\ ArriveSame(Scan)

(* Without a scanner there is nothing but the error, and its way back       *)
(* passes over the view that asked for the scan.                           *)
NoScanner ==
    \/ /\ shareCur = Scan /\ ~scannerAvailable
       /\ ShareNav!Visit(ScannerError, TRUE, FALSE) /\ ArriveSame(ScannerError)
    \/ /\ shareCur = ScannerError
       /\ ShareNav!GoBack(TRUE) /\ ArriveSame(Previous(TRUE))

Scans == shareCur = Scan /\ scannerAvailable
ScanBack == (Scans \/ shareCur = Card) /\ ShareBack

(* A share from the camera, or from the card, comes with all its words.    *)
ShareScanned(s, n) ==
    /\ Scans
    /\ ShareNav!Visit(MoreShares, FALSE, FALSE)
    /\ Keeps(<<>>, Append(shares, s), n, FirstShare(s))

(* The decoder only completes with a valid share, and so no pending share   *)
(* is begun for an invalid one.                                            *)
InvalidShareScanned ==
    /\ Scans
    /\ ShareNav!Visit(ShareInvalid(DefaultLength, TRUE), TRUE, FALSE)
    /\ Keeps(share, shares, length, first)

(* A code of no known type ends the entry.  So does one of another type     *)
(* (get_slip39_share is None), and a camera that does not answer.          *)
OtherScanned == Scans /\ (ShareGoto(UnknownCode) \/ ShareFail)

ShareFromCard(s, n) ==
    /\ shareCur = Card
    /\ ShareNav!Visit(MoreShares, TRUE, FALSE)
    /\ Keeps(share, Append(shares, s), n, FirstShare(s))

InvalidShareFromCard(n) ==
    /\ shareCur = Card
    /\ ShareNav!Visit(ShareInvalid(n, FALSE), TRUE, FALSE)
    /\ Keeps(share, shares, length, first)

-----------------------------------------------------------------------------
AsksForMore == Needed[first] > Len(shares)

AddShare ==
    /\ shareCur = MoreShares /\ AsksForMore
    /\ \/ /\ ShareNav!Visit(Entry(0), FALSE, FALSE)
          /\ Keeps(Blank(InitShare(0)), shares, InitShare(0), first)
       \/ ShareGoto(Scan) \/ ShareGoto(Card)

(* The back button's code is taken for the index of a button. *)
MoreSharesBack == shareCur = MoreShares /\ ShareFail

(* What shamir_mnemonic combines: different shares of one backup.          *)
Combinable ==
    /\ \A i, j \in DOMAIN shares : Set[shares[i]] = Set[shares[j]]
    /\ \A i, j \in DOMAIN shares : shares[i] = shares[j] => i = j
    /\ Len(shares) >= Needed[shares[1]]

Combine ==
    /\ shareCur = MoreShares /\ ~AsksForMore
    /\ IF Combinable
       THEN ShareNav!Visit(ShareFinalize, FALSE, FALSE) /\ Keeps(<<>>, <<>>, 0, NoShare)
       ELSE ShareFail

-----------------------------------------------------------------------------
(* The surrounding views, as far as they matter here. *)
Elsewhere ==
    \/ shareCur = ShareHome /\ ShareGoto(ShareLoad)
    \/ shareCur = ShareLoad /\ (ShareBack \/ ShareGoto(Start))
    \/ shareCur \in {ShareError, ShareFinalize, UnknownCode} /\ ShareNav!Visit(ShareHome, FALSE, TRUE) /\ ArriveSame(ShareHome)

SharesInit ==
    /\ ShareNav!Init
    /\ share = <<>> /\ shares = <<>> /\ length = 0 /\ first = NoShare
    /\ scannerAvailable \in BOOLEAN

ShareStep ==
    \/ Elsewhere \/ StartShares
    \/ EntryBack \/ WordRefused \/ WordTyped \/ InvalidShareTyped
    \/ RetryTyped \/ RetryScan \/ ScanBack \/ NoScanner \/ OtherScanned
    \/ \E s \in Shares : ShareTyped(s)
    \/ InvalidShareScanned \/ \E n \in ShareLengths : InvalidShareFromCard(n)
    \/ \E s \in Shares, n \in ShareLengths : ShareScanned(s, n) \/ ShareFromCard(s, n)
    \/ AddShare \/ MoreSharesBack \/ Combine

SharesNext == ShareStep /\ UNCHANGED scannerAvailable

SharesSpec == SharesInit /\ [][SharesNext]_shareVars

-----------------------------------------------------------------------------
SharesTypeOK ==
    /\ ShareNav!TypeOK
    /\ share \in Seq({NoWord, Typed}) /\ Len(share) \in ShareLengths \cup {0}
    /\ shares \in Seq(Shares)
    /\ length \in ShareLengths \cup {0}
    /\ first \in Shares \cup {NoShare}
    /\ scannerAvailable \in BOOLEAN

(* While words of a share are held, every view of their entry that the      *)
(* stack leads to, the one on screen among them, has a place for its word   *)
(* and all words before it typed: no way back, retry, other share or error  *)
(* leads to the middle of a share that was begun anew.  (When none are held *)
(* every word is refused: WordRefused.)                                    *)
ContinuesShare(d) ==
    d.view = "SeedSlip39ShareEntryView" =>
        d.word < Len(share) /\ \A i \in 1..d.word : share[i] = Typed
EntryContinues == share # <<>> => \A k \in DOMAIN shareHist : ContinuesShare(shareHist[k])
=============================================================================
