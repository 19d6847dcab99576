----------------------------- MODULE PSBTProofs -----------------------------
(***************************************************************************)
(* Transactions: what is reviewed, what is signed, and by which keys.      *)
(*                                                                         *)
(* The review of a transaction, for any transactions, keys, descriptors    *)
(* and readings of them.  That every output was on screen when a signature *)
(* is made rests on the order in which views may lie in the history: the   *)
(* views of a review lie above an overview, and none of them below a view  *)
(* that leads to one, so that a review is never resumed in the reading of  *)
(* another key or descriptor.  Each of them says what was shown before it. *)
(*                                                                         *)
(* A card that signs, for any inputs, keys and number of repetitions: that *)
(* every input is signed in the end is not inductive.  It rests on what is *)
(* still to do, and within an input on the keys that were not tried yet    *)
(* and on the answers so far, of which one is drawn at random.             *)
(*                                                                         *)
(* The parser, for any transactions: that an output shown as change is     *)
(* ours is not inductive.  It rests on the policy being the first input's, *)
(* on the places being those of keys that the inputs commit to, and on     *)
(* every output shown as change having passed the checks on its claims.    *)
(***************************************************************************)
EXTENDS PSBTFlow, CardSigner, PsbtParser, FiniteSetTheorems, WellFoundedInduction, SequenceTheorems, TLAPS

-----------------------------------------------------------------------------
(* The review *)

\* Views that come before a review, and views of a review.
PreparingViews == {"ToolsMenuView", "ToolsSatochipLoadPsbtView", "ScanView", "ScanPSBTView",
    "ScanWIFQRView", "PSBTSelectSeedView", "PSBTWIFEntryView", "LoadSeedView", "SeedOptionsView",
    "PSBTOverviewView"}
ReviewViews == {"PSBTIdentifyChangeView", "PSBTRiskWarningView",
    "PSBTUnsupportedScriptTypeWarningView", "PSBTNoChangeWarningView", "PSBTMathView",
    "PSBTAddressDetailsView", "PSBTChangeDetailsView", "PSBTOpReturnView", "PSBTFinalizeView",
    "PSBTSignedQRDisplayView", "PSBTSigningErrorView", "LoadMultisigWalletDescriptorView",
    "ScanWalletDescriptorView", "MultisigWalletDescriptorView"}

Prepares(d) == d.view \in PreparingViews
Reviews(d) == d.view \in ReviewViews

\* What was on screen, of those that S says: the first n addresses, n change outputs.
SawAddresses(S, n, q) == \A i \in 0..(n - 1) : <<Address(i), q>> \in S
SawChange(S, n, q) == \A i \in 0..(n - 1) : <<Change(i), q>> \in S
SawBoth(S, q) ==
    SawAddresses(S, Read(q).dests, q) /\ (HasChange(q) => SawChange(S, Read(q).changes, q))

\* What a view of the review can rely on.
Reviewed(d, q, S) ==
    /\ d.view = "PSBTIdentifyChangeView" => Read(q).unidentified
    /\ d.view = "PSBTAddressDetailsView" => SawAddresses(S, d.n, q)
    /\ d.view = "PSBTChangeDetailsView" => SawAddresses(S, Read(q).dests, q) /\ SawChange(S, d.n, q)
    /\ d.view = "PSBTOpReturnView" => SawBoth(S, q) /\ ShowsData(q)
    /\ d.view \in {"PSBTFinalizeView", "PSBTSigningErrorView"} =>
         /\ SawBoth(S, q) /\ (ShowsData(q) => <<OpReturn, q>> \in S)
         /\ Read(q) # Nothing
    /\ d.view \in {"LoadMultisigWalletDescriptorView", "ScanWalletDescriptorView",
                   "MultisigWalletDescriptorView"} =>
         Read(q).unidentified \/ SawAddresses(S, Read(q).dests, q)

Synced == local.psbt = ctl.psbt /\ local.parser = ctl.parser
Wiped == ctl.psbt = NoPsbt /\ ctl.parser = NoParser /\ ~ctl.byCard /\ hist = <<>>
Consistent(p, q) == (q # NoParser => q.psbt = p) /\ (p # NoPsbt => ctl.time \in {NoPsbt, p})
Belongs == (Synced \/ Wiped) /\ Consistent(ctl.psbt, ctl.parser) /\ Consistent(local.psbt, local.parser)

Ordered ==
    /\ \A i, j \in DOMAIN hist : i < j /\ Prepares(hist[j]) => ~Reviews(hist[i])
    /\ ctl.parser # NoParser =>
         /\ hist # <<>>
         /\ \A i \in DOMAIN hist : Reviews(hist[i]) => \E j \in 1..(i - 1) : hist[j] = Overview
    /\ \A i \in DOMAIN hist : hist[i] = SignedQR => cur = SignedQR
    /\ \A i \in DOMAIN hist : hist[i].view = "ScanView" => cur.view \in {"ScanView", "ScanInvalidQRTypeView"}
    /\ cur.view \in {"ScanView", "MainMenuView"} => ctl.parser = NoParser /\ ~ctl.byCard

ByCard ==
    ctl.byCard /\ ctl.parser = NoParser =>
        /\ At("PSBTOverviewView") => IsRefused
        /\ ~Reviews(cur)
        /\ \A i \in DOMAIN hist : ~Reviews(hist[i])

Shown ==
    /\ local.parser # NoParser =>
         /\ Reviewed(cur, local.parser, seen)
         /\ cur \in Outputs(local.parser) => <<cur, local.parser>> \in seen
    /\ ctl.parser # NoParser => \A i \in DOMAIN hist : Reviewed(hist[i], ctl.parser, seen)

ReviewInv == TypeOK /\ Nav!EndsWithCurrent /\ Nav!NoRepeats /\ Belongs /\ Ordered /\ ByCard /\ Shown

-----------------------------------------------------------------------------
(* Destinations *)

AllViews == Destinations \cup {Home}

(* The argument of a destination goes with its view.                        *)
LEMMA Kinds ==
    ASSUME NEW d \in AllViews
    PROVE  \/ \E v : /\ d = Plain(v)
                      /\ v \notin {"PSBTAddressDetailsView", "PSBTChangeDetailsView", "SeedOptionsView"}
           \/ \E k \in Seeds : d = SeedOptions(k)
           \/ \E i \in 0..MaxOutputs : d = Address(i) \/ d = Change(i)
<1>1. CASE d \in {Tools, LoadPsbt, Select, Overview, IdentifyChange, RiskWarning, Unsupported, NoChange,
                  Math, OpReturn, Finalize, SignedQR, SigningError, NotVerified, NotImplemented, Rejected,
                  CannotSign, TypeKey, LoadSeed, WrongType, InvalidQR, LoadDescriptor, Descriptor, Error, Home}
  BY <1>1 DEF Tools, LoadPsbt, Select, Overview, IdentifyChange, RiskWarning, Unsupported, NoChange,
              Math, OpReturn, Finalize, SignedQR, SigningError, NotVerified, NotImplemented, Rejected,
              CannotSign, TypeKey, LoadSeed, WrongType, InvalidQR, LoadDescriptor, Descriptor, Error, Home
<1>2. CASE d \in {Plain(v) : v \in Scanners}
  BY <1>2 DEF Scanners
<1> QED
  BY <1>1, <1>2 DEF AllViews, Destinations

LEMMA ViewOf ==
    /\ \A v : Plain(v) = [view |-> v, n |-> 0, key |-> NoKey]
    /\ \A k : SeedOptions(k) = [view |-> "SeedOptionsView", n |-> 0, key |-> k]
    /\ \A i : Address(i) = [view |-> "PSBTAddressDetailsView", n |-> i, key |-> NoKey]
    /\ \A i : Change(i) = [view |-> "PSBTChangeDetailsView", n |-> i, key |-> NoKey]
BY DEF Plain, SeedOptions, Address, Change

LEMMA ByView ==
    ASSUME NEW d \in AllViews
    PROVE  /\ d.view = "MainMenuView" => d = Home
           /\ d.view = "PSBTOverviewView" => d = Overview
           /\ d.view = "ScanView" => d = Plain("ScanView")
           /\ d.view = "PSBTSignedQRDisplayView" => d = SignedQR
           /\ d.view = "PSBTOpReturnView" => d = OpReturn
           /\ d.view = "PSBTAddressDetailsView" => d = Address(d.n) /\ d.n \in 0..MaxOutputs
           /\ d.view = "PSBTChangeDetailsView" => d = Change(d.n) /\ d.n \in 0..MaxOutputs
           /\ d.view = "SeedOptionsView" => d.key \in Seeds
<1>1. CASE \E v : /\ d = Plain(v)
                  /\ v \notin {"PSBTAddressDetailsView", "PSBTChangeDetailsView", "SeedOptionsView"}
  BY <1>1, ViewOf DEF Home, Overview, SignedQR, OpReturn
<1>2. CASE \E k \in Seeds : d = SeedOptions(k)
  BY <1>2, ViewOf
<1>3. CASE \E i \in 0..MaxOutputs : d = Address(i) \/ d = Change(i)
  BY <1>3, ViewOf
<1> QED
  BY <1>1, <1>2, <1>3, Kinds

LEMMA OutputsAreViews ==
    ASSUME NEW q \in Parsers \ {NoParser}
    PROVE  /\ Read(q).dests \in 0..MaxOutputs /\ Read(q).changes \in 0..MaxOutputs
           /\ Outputs(q) \subseteq Destinations
<1>1. Read(q).dests \in 0..MaxOutputs /\ Read(q).changes \in 0..MaxOutputs
  <2>1. CASE q.psbt = NoPsbt \/ q.key = NoKey
    BY <2>1, ReadingAssumption DEF Read, Nothing
  <2>2. CASE q.psbt # NoPsbt /\ q.key # NoKey
    <3>1. q.psbt \in Psbts /\ q.key \in Keys \cup {CardKey} /\ q.wallet \in Wallets \cup {NoWallet}
      BY <2>2 DEF Parsers
    <3> QED
      BY <2>2, <3>1, ReadingAssumption DEF Read
  <2> QED
    BY <2>1, <2>2
<1>2. /\ {Address(i) : i \in 0..(Read(q).dests - 1)} \subseteq {Address(i) : i \in 0..MaxOutputs}
      /\ {Change(i) : i \in 0..(Read(q).changes - 1)} \subseteq {Change(i) : i \in 0..MaxOutputs}
  BY <1>1, ReadingAssumption
<1> QED
  BY <1>1, <1>2 DEF Outputs, Destinations

-----------------------------------------------------------------------------
(* The history, by the laws that NavigationProofs has of any.               *)
Laws == INSTANCE NavigationProofs WITH Views <- Destinations, MainMenu <- Home, StartupViews <- {}

LEMMA NavHasLaws ==
    /\ \A d, skip, clear : Nav!Visit(d, skip, clear) => Laws!Visit(d, skip, clear)
    /\ \A skip : Nav!GoBack(skip) => Laws!GoBack(skip)
    /\ \A skip : Laws!Below(skip) = Below(skip)
BY DEF Nav!Visit, Nav!GoBack, Nav!Enter, Nav!Unwound, Nav!Occurs, Nav!FirstIndex, Nav!WithoutLast,
       Laws!Visit, Laws!GoBack, Laws!Enter, Laws!Unwound, Laws!Occurs, Laws!FirstIndex, Laws!WithoutLast,
       Laws!Below, Below

-----------------------------------------------------------------------------
(* Showing a view *)

ParserOf(s) == Parser(s.psbt, s.psbtSeed, s.wallet)

\* The reading is of the transaction, and the time is that of its file.
Matched(s) ==
    /\ s.parser # NoParser => s.parser.psbt = s.psbt
    /\ s.psbt # NoPsbt => s.time \in {NoPsbt, s.psbt}

LEMMA ParserIsTyped ==
    ASSUME NEW s \in Attributes
    PROVE  ParserOf(s) \in Parsers \ {NoParser} /\ ParserOf(s).psbt = s.psbt
<1>1. /\ s.psbt \in Psbts \cup {NoPsbt} /\ s.psbtSeed \in Keys \cup {NoKey}
      /\ s.wallet \in Wallets \cup {NoWallet}
  BY DEF Attributes
<1>2. ParserOf(s) \in [psbt : Psbts \cup {NoPsbt}, key : Keys \cup {CardKey, NoKey},
                      wallet : Wallets \cup {NoWallet}]
  BY <1>1 DEF ParserOf, Parser
<1> QED
  BY <1>2, ReadingAssumption DEF Parsers, ParserOf, Parser

LEMMA ParsedIs ==
    ASSUME NEW s \in Attributes, Matched(s)
    PROVE  /\ Parsed(s) \in Attributes /\ Matched(Parsed(s))
           /\ Parsed(s).byCard = s.byCard
           /\ ParserOf(Parsed(s)) = ParserOf(s)
           /\ Parsed(s).parser = NoParser =>
                s.parser = NoParser /\ Read(ParserOf(s)).verdict # "ok"
<1> DEFINE q == ParserOf(s)
<1>1. q \in Parsers \ {NoParser} /\ q.psbt = s.psbt
  BY ParserIsTyped
<1>2. Parsed(s) = IF MustParse(s) /\ Read(q).verdict = "ok" THEN [s EXCEPT !.parser = q] ELSE s
  BY DEF Parsed, ParserOf
<1> HIDE DEF q
<1>3. CASE MustParse(s) /\ Read(q).verdict = "ok"
  <2>1. Parsed(s) = [s EXCEPT !.parser = q]
    BY <1>2, <1>3
  <2> QED
    BY <1>1, <2>1 DEF Attributes, Matched, ParserOf
<1>4. CASE ~(MustParse(s) /\ Read(q).verdict = "ok")
  <2>1. Parsed(s) = s
    BY <1>2, <1>4
  <2>2. s.parser = NoParser => Read(q).verdict # "ok"
    BY <1>4 DEF MustParse
  <2> QED
    BY <2>1, <2>2 DEF q
<1> QED
  BY <1>3, <1>4

LEMMA HomeIs ==
    ASSUME NEW s \in Attributes
    PROVE  /\ AtHome(s) \in Attributes /\ Matched(AtHome(s))
           /\ AtHome(s).parser = NoParser /\ ~AtHome(s).byCard
BY DEF AtHome, Fresh, Attributes, Matched, Parsers

LEMMA ShowsWhat ==
    ASSUME NEW s \in Attributes, NEW d \in AllViews, Matched(s), Shows(d, s), seen \subseteq Destinations \X Parsers
    PROVE  /\ ctl' \in Attributes /\ Matched(ctl')
           /\ local' = [psbt |-> ctl'.psbt, parser |-> ctl'.parser, seeds |-> loaded]
           /\ d = Home => ctl'.parser = NoParser /\ ~ctl'.byCard
           /\ d \notin {Home, Overview} => ctl' = s
           /\ d = Overview => /\ ctl'.byCard = s.byCard
                              /\ ctl'.parser = NoParser => s.parser = NoParser /\ IsRefused'
           /\ ctl'.parser # NoParser =>
                seen \subseteq seen' /\ (d \in Outputs(ctl'.parser) => <<d, ctl'.parser>> \in seen')
           /\ seen' \subseteq Destinations \X Parsers
<1> DEFINE t == IF d = Home THEN AtHome(s) ELSE IF d = Overview THEN Parsed(s) ELSE s
<1>1. /\ ctl' = t
      /\ local' = [psbt |-> t.psbt, parser |-> t.parser, seeds |-> loaded]
      /\ seen' = IF t.parser = NoParser THEN {}
                 ELSE IF d \in Outputs(t.parser) THEN seen \cup {<<d, t.parser>>} ELSE seen
  BY DEF Shows
<1>2. Home # Overview
  BY ViewOf DEF Home, Overview
<1>3. t \in Attributes /\ Matched(t)
  BY HomeIs, ParsedIs
<1>4. /\ d = Home => t.parser = NoParser /\ ~t.byCard
      /\ d \notin {Home, Overview} => t = s
      /\ d = Overview => t = Parsed(s)
  BY <1>2, HomeIs
<1> HIDE DEF t
<1>5. t.parser # NoParser =>
        /\ seen \subseteq seen' /\ (d \in Outputs(t.parser) => <<d, t.parser>> \in seen')
  BY <1>1
<1>6. seen' \subseteq Destinations \X Parsers
  <2>1. t.parser \in Parsers
    BY <1>3 DEF Attributes
  <2>2. t.parser # NoParser => Outputs(t.parser) \subseteq Destinations
    BY <2>1, OutputsAreViews
  <2> QED
    BY <1>1, <2>1, <2>2
<1>7. d = Overview /\ t.parser = NoParser => s.parser = NoParser /\ IsRefused'
  <2> SUFFICES ASSUME d = Overview, t.parser = NoParser PROVE s.parser = NoParser /\ IsRefused'
    OBVIOUS
  <2>1. s.parser = NoParser /\ Read(ParserOf(t)).verdict # "ok"
    BY <1>4, ParsedIs
  <2>2. MustParse(t)
    BY DEF MustParse
  <2> QED
    BY <1>1, <2>1, <2>2 DEF IsRefused, MustParse, ParserOf, SeedOf, Parser, Read
<1>8. d = Overview => t.byCard = s.byCard
  BY <1>4, ParsedIs
<1> QED
  BY <1>1, <1>3, <1>4, <1>5, <1>6, <1>7, <1>8
-----------------------------------------------------------------------------
(* Arriving at a view *)

NoReview(n) == \A i \in 1..n : ~Reviews(hist[i])

\* What it takes to land at d, on top of n views, with the attributes s.
May(d, n, s) ==
    /\ Matched(s)
    /\ s.parser \in {ctl.parser, NoParser} \/ d = Overview
    /\ Prepares(d) => NoReview(n)
    /\ Reviews(d) /\ s.parser # NoParser =>
         (\E j \in 1..n : hist[j] = Overview) /\ Reviewed(d, s.parser, seen)
    /\ s.byCard /\ s.parser = NoParser => ~Reviews(d) /\ NoReview(n)
    /\ d.view = "ScanView" => s.parser = NoParser /\ ~s.byCard
    /\ d.view \notin {"ScanView", "ScanInvalidQRTypeView"} => \A i \in 1..n : hist[i].view # "ScanView"
    /\ \A i \in 1..n : hist[i] # SignedQR

LEMMA NotReviewed ==
    ASSUME NEW d, ~Reviews(d), NEW q, NEW S
    PROVE  Reviewed(d, q, S)
BY DEF Reviews, ReviewViews, Reviewed

LEMMA ReviewedStays ==
    ASSUME NEW d, NEW q, NEW S, NEW T, S \subseteq T, Reviewed(d, q, S)
    PROVE  Reviewed(d, q, T)
BY DEF Reviewed, SawBoth, SawAddresses, SawChange

LEMMA Arrive ==
    ASSUME ReviewInv, NEW d \in AllViews, NEW s \in Attributes, NEW n \in 0..Len(hist),
           Laws!Lands(d, n), Shows(d, s), May(d, n, s),
           loaded' \subseteq Seeds, wipes' \in 0..MaxWipes
    PROVE  ReviewInv'
<1>1. /\ hist \in Seq(Destinations) /\ Laws!Distinct(hist) /\ seen \subseteq Destinations \X Parsers
      /\ loaded \subseteq Seeds
  BY DEF ReviewInv, TypeOK, Nav!TypeOK, Nav!NoRepeats, Laws!Distinct
<1>2. Len(hist) \in Nat /\ DOMAIN hist = 1..Len(hist) /\ n \in Nat
  BY <1>1
<1>3. /\ ctl' \in Attributes /\ Matched(ctl')
      /\ local' = [psbt |-> ctl'.psbt, parser |-> ctl'.parser, seeds |-> loaded]
      /\ d = Home => ctl'.parser = NoParser /\ ~ctl'.byCard
      /\ d \notin {Home, Overview} => ctl' = s
      /\ d = Overview => /\ ctl'.byCard = s.byCard
                         /\ ctl'.parser = NoParser => s.parser = NoParser /\ IsRefused'
      /\ ctl'.parser # NoParser =>
           seen \subseteq seen' /\ (d \in Outputs(ctl'.parser) => <<d, ctl'.parser>> \in seen')
      /\ seen' \subseteq Destinations \X Parsers
  BY <1>1, ShowsWhat DEF May
<1>4. /\ ~Reviews(Home) /\ ~Reviews(Overview) /\ Prepares(Overview) /\ ~Prepares(Home)
      /\ Home.view = "MainMenuView" /\ Overview.view = "PSBTOverviewView"
      /\ ~(Reviews(d) /\ Prepares(d))
  BY ViewOf DEF Home, Overview, Reviews, Prepares, ReviewViews, PreparingViews
<1>5. cur' = d
  BY DEF Laws!Lands
<1>6. CASE d = Home
  <2>1. hist' = << >> /\ DOMAIN hist' = {}
    BY <1>6 DEF Laws!Lands
  <2>2. TypeOK' /\ Nav!EndsWithCurrent' /\ Nav!NoRepeats'
    BY <1>1, <1>3, <1>5, <2>1 DEF TypeOK, Nav!TypeOK, Nav!EndsWithCurrent, Nav!NoRepeats, AllViews, Attributes
  <2>3. Belongs' /\ Ordered' /\ ByCard' /\ Shown'
    BY <1>3, <1>4, <1>5, <1>6, <2>1 DEF Belongs, Synced, Consistent, Matched, Ordered, ByCard, Shown, At
  <2> QED
    BY <2>2, <2>3 DEF ReviewInv
<1>7. CASE d # Home
  <2>1. /\ hist' \in Seq(Destinations) /\ Len(hist') = n + 1 /\ DOMAIN hist' = 1..(n + 1)
        /\ \A i \in 1..n : hist'[i] = hist[i] /\ hist[i] # d
        /\ hist'[n + 1] = d
        /\ \A i \in 1..(n + 1) : i = n + 1 \/ i \in 1..n
        /\ 1..n \subseteq 1..Len(hist)
    <3>1. /\ hist' \in Seq(Destinations) /\ Len(hist') = n + 1
          /\ \A i \in 1..n : hist'[i] = hist[i] /\ hist[i] # d
          /\ hist'[n + 1] = d
      BY <1>7 DEF Laws!Lands
    <3> QED
      BY <1>2, <3>1
  <2>2. TypeOK' /\ Nav!EndsWithCurrent'
    BY <1>1, <1>2, <1>3, <1>5, <2>1 DEF TypeOK, Nav!TypeOK, Nav!EndsWithCurrent, AllViews, Attributes
  <2>3. Nav!NoRepeats'
    BY <1>1, <1>2, <2>1 DEF Nav!NoRepeats, Laws!Distinct
  <2>4. Belongs'
    BY <1>3 DEF Belongs, Synced, Consistent, Matched
  <2>5. d # Overview => ctl' = s /\ (s.parser # NoParser => s.parser = ctl.parser)
    BY <1>3, <1>7 DEF May
  <2>6. d = Overview => NoReview(n)
    BY <1>4 DEF May
  <2>7. Ordered'
    <3>1. \A i, j \in DOMAIN hist' : i < j /\ Prepares(hist'[j]) => ~Reviews(hist'[i])
      BY <1>2, <2>1 DEF ReviewInv, Ordered, May, NoReview
    <3>2. ctl'.parser # NoParser =>
            \A i \in DOMAIN hist' : Reviews(hist'[i]) => \E j \in 1..(i - 1) : hist'[j] = Overview
      <4> SUFFICES ASSUME ctl'.parser # NoParser, NEW i \in DOMAIN hist', Reviews(hist'[i])
                   PROVE  \E j \in 1..(i - 1) : hist'[j] = Overview
        OBVIOUS
      <4>1. d # Overview
        BY <1>4, <2>1, <2>6 DEF NoReview
      <4>2. ctl' = s /\ s.parser = ctl.parser /\ ctl.parser # NoParser /\ s.parser # NoParser
        BY <2>5, <4>1
      <4>3. CASE i = n + 1
        <5>1. \E j \in 1..n : hist[j] = Overview
          BY <2>1, <4>2, <4>3 DEF May
        <5> QED
          BY <1>2, <2>1, <4>3, <5>1
      <4>4. CASE i \in 1..n
        <5>1. PICK j \in 1..(i - 1) : hist[j] = Overview
          BY <1>2, <2>1, <4>2, <4>4 DEF ReviewInv, Ordered
        <5> QED
          BY <1>2, <2>1, <4>4, <5>1
      <4> QED
        BY <2>1, <4>3, <4>4
    <3>3. \A i \in DOMAIN hist' : hist'[i] = SignedQR => cur' = SignedQR
      BY <1>5, <2>1 DEF May
    <3>4. \A i \in DOMAIN hist' : hist'[i].view = "ScanView" => cur'.view \in {"ScanView", "ScanInvalidQRTypeView"}
      BY <1>5, <2>1 DEF May
    <3>5. cur'.view \in {"ScanView", "MainMenuView"} => ctl'.parser = NoParser /\ ~ctl'.byCard
      <4>1. d.view # "MainMenuView"
        BY <1>7, ByView
      <4>2. d.view = "ScanView" => d # Overview
        BY <1>4
      <4> QED
        BY <1>5, <2>5, <4>1, <4>2 DEF May
    <3>6. hist' # << >>
      BY <1>2, <2>1
    <3> QED
      BY <3>1, <3>2, <3>3, <3>4, <3>5, <3>6 DEF Ordered
  <2>8. ByCard'
    <3> SUFFICES ASSUME ctl'.byCard, ctl'.parser = NoParser
                 PROVE  /\ cur'.view = "PSBTOverviewView" => IsRefused'
                        /\ ~Reviews(cur') /\ \A i \in DOMAIN hist' : ~Reviews(hist'[i])
      BY DEF ByCard, At
    <3>1. s.byCard /\ s.parser = NoParser
      BY <1>3, <1>7
    <3>2. ~Reviews(d) /\ NoReview(n)
      BY <3>1 DEF May
    <3>3. cur'.view = "PSBTOverviewView" => IsRefused'
      <4>1. cur'.view = "PSBTOverviewView" => d = Overview
        BY <1>5, ByView
      <4> QED
        BY <1>3, <4>1
    <3> QED
      BY <1>5, <2>1, <3>2, <3>3 DEF NoReview
  <2>9. Shown'
    <3> SUFFICES ASSUME ctl'.parser # NoParser
                 PROVE  /\ Reviewed(d, ctl'.parser, seen')
                        /\ d \in Outputs(ctl'.parser) => <<d, ctl'.parser>> \in seen'
                        /\ \A i \in 1..n : Reviewed(hist[i], ctl'.parser, seen')
      <4>1. local'.parser = ctl'.parser
        BY <1>3
      <4> QED
        BY <1>5, <2>1, <4>1 DEF Shown
    <3>1. Reviewed(d, ctl'.parser, seen')
      <4>1. CASE ~Reviews(d)
        BY <4>1, NotReviewed
      <4>2. CASE Reviews(d)
        <5>1. ctl' = s /\ s.parser # NoParser
          BY <1>4, <2>5, <4>2
        <5>2. Reviewed(d, s.parser, seen)
          BY <4>2, <5>1 DEF May
        <5> QED
          BY <1>3, <5>1, <5>2, ReviewedStays
      <4> QED
        BY <4>1, <4>2
    <3>2. ASSUME NEW i \in 1..n PROVE Reviewed(hist[i], ctl'.parser, seen')
      <4>1. CASE ~Reviews(hist[i])
        BY <4>1, NotReviewed
      <4>2. CASE Reviews(hist[i])
        <5>1. d # Overview
          BY <2>6, <4>2 DEF NoReview
        <5>2. ctl'.parser = ctl.parser /\ ctl.parser # NoParser
          BY <2>5, <5>1
        <5>3. Reviewed(hist[i], ctl.parser, seen)
          BY <1>2, <2>1, <5>2 DEF ReviewInv, Shown
        <5> QED
          BY <1>3, <5>2, <5>3, ReviewedStays
      <4> QED
        BY <4>1, <4>2
    <3> QED
      BY <1>3, <3>1, <3>2
  <2> QED
    BY <2>2, <2>3, <2>4, <2>7, <2>8, <2>9 DEF ReviewInv
<1> QED
  BY <1>6, <1>7
-----------------------------------------------------------------------------
(* Ways to arrive *)

\* The attributes that the invariant speaks of are kept.
Same(s) ==
    /\ s \in Attributes
    /\ s.psbt = ctl.psbt /\ s.parser = ctl.parser /\ s.byCard = ctl.byCard /\ s.time = ctl.time

Kept == loaded' \subseteq Seeds /\ wipes' \in 0..MaxWipes

LEMMA InvFacts ==
    ASSUME ReviewInv
    PROVE  /\ Laws!Tidy /\ ctl \in Attributes /\ Matched(ctl) /\ cur \in AllViews
           /\ Len(hist) \in Nat /\ DOMAIN hist = 1..Len(hist)
           /\ hist # << >> => Len(hist) >= 1 /\ hist[Len(hist)] = cur
           /\ \A i \in 1..Len(hist) : hist[i] \in AllViews
           /\ \A i, j \in 1..Len(hist) : hist[i] = hist[j] => i = j
           /\ Keep => Kept
<1>1. Laws!Tidy /\ ctl \in Attributes /\ cur \in AllViews /\ loaded \subseteq Seeds /\ wipes \in 0..MaxWipes
  BY DEF ReviewInv, TypeOK, Nav!TypeOK, AllViews, Laws!Tidy, Nav!NoRepeats, Laws!Distinct
<1>2. Matched(ctl)
  BY DEF ReviewInv, Belongs, Consistent, Matched
<1>3. /\ Len(hist) \in Nat /\ DOMAIN hist = 1..Len(hist)
      /\ \A i \in 1..Len(hist) : hist[i] \in AllViews
      /\ hist # << >> => Len(hist) >= 1
  BY <1>1, EmptySeq DEF Laws!Tidy, AllViews
<1> QED
  BY <1>1, <1>2, <1>3 DEF Laws!Tidy, Laws!Distinct, Kept, Keep, ReviewInv, Nav!EndsWithCurrent

LEMMA ScanViewIsLast ==
    ASSUME ReviewInv, NEW i \in 1..Len(hist), hist[i].view = "ScanView"
    PROVE  cur.view = "ScanInvalidQRTypeView" \/ (cur.view = "ScanView" /\ i = Len(hist))
<1>1. cur.view \in {"ScanView", "ScanInvalidQRTypeView"}
  BY InvFacts DEF ReviewInv, Ordered
<1>2. hist # << >>
  BY InvFacts
<1>3. CASE cur.view = "ScanView"
  <2>1. cur = hist[i]
    BY <1>3, InvFacts, ByView
  <2>2. Len(hist) \in 1..Len(hist) /\ hist[Len(hist)] = cur
    BY <1>2, InvFacts
  <2>3. i = Len(hist)
    BY <2>1, <2>2, InvFacts
  <2> QED
    BY <1>3, <2>3
<1> QED
  BY <1>1, <1>3

LEMMA BackKeeps ==
    ASSUME ReviewInv, NEW skip \in BOOLEAN, NEW s, Same(s), BackOver(skip, s), Kept,
           cur.view \notin {"ScanView", "ScanInvalidQRTypeView", "PSBTSignedQRDisplayView"}
    PROVE  ReviewInv'
<1>1. PICK d \in AllViews, n \in 0..Len(hist) :
        /\ d = Below(skip) /\ Laws!Lands(d, n) /\ Shows(d, s)
        /\ d = Home \/ (n < Len(hist) /\ hist[n + 1] = d)
  BY InvFacts, NavHasLaws, Laws!BackLands DEF AllViews, BackOver
<1>2. n \in Nat /\ Len(hist) \in Nat /\ 1..n \subseteq 1..Len(hist) /\ DOMAIN hist = 1..Len(hist)
  BY InvFacts
<1>3. ~Prepares(Home) /\ ~Reviews(Home) /\ Home.view = "MainMenuView" /\ SignedQR.view = "PSBTSignedQRDisplayView"
  BY ViewOf DEF Home, SignedQR, Prepares, Reviews, PreparingViews, ReviewViews
<1>4. d = Home \/ (n + 1 \in 1..Len(hist) /\ hist[n + 1] = d /\ \A i \in 1..n : i < n + 1)
  BY <1>1, <1>2
<1>5. \A i \in 1..Len(hist) : hist[i].view # "ScanView"
  BY ScanViewIsLast
<1>6. \A i \in 1..Len(hist) : hist[i] # SignedQR
  BY <1>2, <1>3 DEF ReviewInv, Ordered
<1>7. May(d, n, s)
  <2>1. Matched(s)
    BY InvFacts DEF Same, Matched
  <2>2. Prepares(d) => NoReview(n)
    BY <1>2, <1>3, <1>4 DEF ReviewInv, Ordered, NoReview
  <2>3. Reviews(d) /\ s.parser # NoParser =>
         (\E j \in 1..n : hist[j] = Overview) /\ Reviewed(d, s.parser, seen)
    <3> SUFFICES ASSUME Reviews(d), s.parser # NoParser
                 PROVE  (\E j \in 1..n : hist[j] = Overview) /\ Reviewed(d, s.parser, seen)
      OBVIOUS
    <3>1. n + 1 \in 1..Len(hist) /\ hist[n + 1] = d /\ s.parser = ctl.parser /\ ctl.parser # NoParser
      BY <1>3, <1>4 DEF Same
    <3>2. Reviewed(d, s.parser, seen)
      BY <1>2, <3>1 DEF ReviewInv, Shown
    <3>3. \E j \in 1..((n + 1) - 1) : hist[j] = Overview
      BY <1>2, <3>1 DEF ReviewInv, Ordered
    <3> QED
      BY <1>2, <3>2, <3>3
  <2>4. s.byCard /\ s.parser = NoParser => ~Reviews(d) /\ NoReview(n)
    BY <1>2, <1>3, <1>4 DEF ReviewInv, ByCard, NoReview, Same
  <2>5. d.view # "ScanView"
    BY <1>3, <1>4, <1>5
  <2> QED
    BY <1>2, <1>5, <1>6, <2>1, <2>2, <2>3, <2>4, <2>5 DEF May, Same
<1> QED
  BY <1>1, <1>7, Arrive DEF Kept, Same

(* With a cleared history, or at home.                                      *)
LEMMA AfreshKeeps ==
    ASSUME ReviewInv, NEW skip \in BOOLEAN, NEW clear \in BOOLEAN, NEW d \in AllViews, NEW s \in Attributes,
           Visit(d, skip, clear, s), Kept,
           clear \/ d = Home,
           ~Reviews(d), d.view # "ScanView", Matched(s),
           s.parser \in {ctl.parser, NoParser} \/ d = Overview
    PROVE  ReviewInv'
<1>1. Laws!Lands(d, 0) /\ Shows(d, s)
  BY InvFacts, NavHasLaws, Laws!ClearLands DEF AllViews, Visit
<1>2. 0 \in 0..Len(hist)
  BY InvFacts
<1>3. May(d, 0, s)
  BY DEF May, NoReview
<1> QED
  BY <1>1, <1>2, <1>3, Arrive DEF Kept

(* From a view that leads to a review, or aside from any view.              *)
LEMMA TurnKeeps ==
    ASSUME ReviewInv, NEW skip \in BOOLEAN, NEW d \in AllViews, NEW s \in Attributes,
           Visit(d, skip, FALSE, s), Kept,
           \/ cur = Home \/ Prepares(cur)
           \/ ~Prepares(d) /\ s.byCard = ctl.byCard /\ s.parser = ctl.parser,
           skip = TRUE \/ cur.view # "ScanView" \/ d.view = "ScanInvalidQRTypeView",
           cur.view \notin {"ScanInvalidQRTypeView", "PSBTSignedQRDisplayView"},
           Reviews(d) => s.parser = NoParser /\ ~s.byCard,
           d.view = "ScanView" => s.parser = NoParser /\ ~s.byCard,
           Matched(s),
           s.parser \in {ctl.parser, NoParser} \/ d = Overview
    PROVE  ReviewInv'
<1>0. hist = << >> => Len(hist) = 0
  OBVIOUS
<1>1. PICK n \in 0..Len(hist) :
        /\ Laws!Lands(d, n) /\ Shows(d, s)
        /\ skip = TRUE => n < Len(hist) \/ n = 0
  <2>1. CASE skip = TRUE
    <3>1. Nav!Visit(d, TRUE, FALSE) /\ Shows(d, s)
      BY <2>1 DEF Visit
    <3>2. PICK n \in 0..Len(hist) : Laws!Lands(d, n) /\ (hist # << >> => n < Len(hist))
      BY <3>1, InvFacts, NavHasLaws, Laws!ForwardLands DEF AllViews
    <3>3. n < Len(hist) \/ n = 0
      BY <1>0, <3>2
    <3> QED
      BY <3>1, <3>2, <3>3
  <2>2. CASE skip = FALSE
    <3>1. Nav!Visit(d, FALSE, FALSE) /\ Shows(d, s)
      BY <2>2 DEF Visit
    <3>2. \E n \in 0..Len(hist) : Laws!Lands(d, n)
      BY <3>1, InvFacts, NavHasLaws, Laws!GotoLands DEF AllViews
    <3> QED
      BY <2>2, <3>1, <3>2
  <2> QED
    BY <2>1, <2>2
<1>2. n \in Nat /\ Len(hist) \in Nat /\ 1..n \subseteq 1..Len(hist) /\ DOMAIN hist = 1..Len(hist)
  BY InvFacts
<1>3. /\ SignedQR.view = "PSBTSignedQRDisplayView" /\ Home \notin Destinations
      /\ Prepares(cur) => ~Reviews(cur)
  <2>1. \A e \in Destinations : e # Home
    BY ViewOf DEF Home, Destinations, Tools, LoadPsbt, Select, Overview, IdentifyChange, RiskWarning,
       Unsupported, NoChange, Math, OpReturn, Finalize, SignedQR, SigningError, NotVerified, NotImplemented,
       Rejected, CannotSign, TypeKey, LoadSeed, WrongType, InvalidQR, LoadDescriptor, Descriptor, Error, Scanners
  <2> QED
    BY <2>1, ViewOf DEF SignedQR, Prepares, Reviews, PreparingViews, ReviewViews
<1>4. \A i \in 1..n : hist[i] # SignedQR
  BY <1>2, <1>3 DEF ReviewInv, Ordered
<1>5. d.view \notin {"ScanView", "ScanInvalidQRTypeView"} => \A i \in 1..n : hist[i].view # "ScanView"
  <2> SUFFICES ASSUME d.view # "ScanInvalidQRTypeView", NEW i \in 1..n, hist[i].view = "ScanView" PROVE FALSE
    OBVIOUS
  <2>1. cur.view = "ScanView" /\ i = Len(hist)
    BY <1>2, ScanViewIsLast
  <2> QED
    BY <1>1, <1>2, <2>1
<1>6. cur = Home \/ Prepares(cur) => NoReview(n)
  <2>1. CASE hist = << >>
    BY <1>2, <2>1 DEF NoReview
  <2>2. CASE hist # << >>
    <3>1. Len(hist) \in 1..Len(hist) /\ hist[Len(hist)] = cur /\ cur \in Destinations
      BY <1>2, <2>2, InvFacts DEF Laws!Tidy
    <3>2. Prepares(cur) => \A i \in 1..Len(hist) : i < Len(hist) => ~Reviews(hist[i])
      BY <1>2, <3>1 DEF ReviewInv, Ordered
    <3> QED
      BY <1>2, <1>3, <3>1, <3>2 DEF NoReview
  <2> QED
    BY <2>1, <2>2
<1>7. May(d, n, s)
  <2>1. Prepares(d) => NoReview(n)
    BY <1>6
  <2>2. s.byCard /\ s.parser = NoParser => ~Reviews(d) /\ NoReview(n)
    BY <1>2, <1>6 DEF ReviewInv, ByCard, NoReview
  <2> QED
    BY <1>4, <1>5, <2>1, <2>2 DEF May
<1> QED
  BY <1>1, <1>7, Arrive DEF Kept

(* From the overview, or a view of the review, to one of the review.        *)
LEMMA ReviewKeeps ==
    ASSUME ReviewInv, NEW skip \in BOOLEAN, NEW d \in AllViews, NEW s \in Attributes,
           Visit(d, skip, FALSE, s), Kept,
           Reviews(cur) \/ (cur = Overview /\ skip = FALSE /\ ~IsRefused),
           cur.view # "PSBTSignedQRDisplayView",
           Reviews(d), s.parser = ctl.parser, s.byCard => ctl.byCard, Matched(s),
           ctl.parser # NoParser => Reviewed(d, ctl.parser, seen)
    PROVE  ReviewInv'
<1>1. PICK n \in 0..Len(hist) :
        /\ Laws!Lands(d, n)
        /\ hist # << >> => \/ n < Len(hist) /\ hist[n + 1] = d
                           \/ n = Len(hist)
                           \/ n = Len(hist) - 1 /\ cur # Overview
  <2>1. CASE skip = TRUE
    <3>1. cur # Overview
      BY <2>1, ViewOf DEF Reviews, ReviewViews, Overview
    <3>2. Nav!Visit(d, TRUE, FALSE)
      BY <2>1 DEF Visit
    <3>3. PICK n \in 0..Len(hist) :
            Laws!Lands(d, n) /\ (hist # << >> => n < Len(hist) /\ (n = Len(hist) - 1 \/ hist[n + 1] = d))
      BY <3>2, InvFacts, NavHasLaws, Laws!ForwardLands DEF AllViews
    <3> QED
      BY <3>1, <3>3
  <2>2. CASE skip = FALSE
    <3>0. Nav!Visit(d, FALSE, FALSE)
      BY <2>2 DEF Visit
    <3>1. PICK n \in 0..Len(hist) : Laws!Lands(d, n) /\ (n = Len(hist) \/ hist[n + 1] = d)
      BY <3>0, InvFacts, NavHasLaws, Laws!GotoLands DEF AllViews
    <3>2. Len(hist) \in Nat
      BY InvFacts
    <3>3. n = Len(hist) \/ n < Len(hist)
      BY <3>2
    <3> QED
      BY <3>1, <3>3
  <2> QED
    BY <2>1, <2>2
<1>2. n \in Nat /\ Len(hist) \in Nat /\ 1..n \subseteq 1..Len(hist) /\ DOMAIN hist = 1..Len(hist)
  BY InvFacts
<1>3. /\ SignedQR.view = "PSBTSignedQRDisplayView" /\ Overview.view = "PSBTOverviewView"
      /\ Reviews(d) => ~Prepares(d) /\ d.view # "ScanView"
      /\ cur.view \notin {"ScanView", "ScanInvalidQRTypeView"}
  BY ViewOf DEF SignedQR, Overview, Prepares, Reviews, PreparingViews, ReviewViews
<1>4. \A i \in 1..n : hist[i] # SignedQR
  BY <1>2, <1>3 DEF ReviewInv, Ordered
<1>5. \A i \in 1..n : hist[i].view # "ScanView"
  BY <1>2, <1>3, ScanViewIsLast
<1>6. s.parser # NoParser => \E j \in 1..n : hist[j] = Overview
  <2> SUFFICES ASSUME ctl.parser # NoParser PROVE \E j \in 1..n : hist[j] = Overview
    OBVIOUS
  <2>1. /\ Len(hist) >= 1 /\ hist[Len(hist)] = cur /\ hist # << >>
        /\ \A i \in 1..Len(hist) : Reviews(hist[i]) => \E j \in 1..(i - 1) : hist[j] = Overview
    BY <1>2, InvFacts DEF ReviewInv, Ordered
  <2>2. CASE n < Len(hist) /\ hist[n + 1] = d
    <3>1. \E j \in 1..((n + 1) - 1) : hist[j] = Overview
      BY <1>2, <2>1, <2>2
    <3> QED
      BY <1>2, <3>1
  <2>3. CASE Reviews(cur) /\ (n = Len(hist) - 1 \/ n = Len(hist))
    <3>1. Len(hist) \in 1..Len(hist)
      BY <1>2, <2>1
    <3>2. PICK j \in 1..(Len(hist) - 1) : hist[j] = Overview
      BY <2>1, <2>3, <3>1
    <3>3. j \in 1..n
      <4>1. j \in Int /\ 1 <= j /\ j <= Len(hist) - 1
        BY <1>2
      <4>2. n \in Int /\ Len(hist) \in Int
        BY <1>2
      <4>3. n = Len(hist) - 1 \/ n = Len(hist)
        BY <2>3
      <4> QED
        BY <4>1, <4>2, <4>3
    <3> QED
      BY <3>2, <3>3
  <2>4. CASE cur = Overview /\ n = Len(hist)
    BY <1>2, <2>1, <2>4
  <2> QED
    BY <1>1, <2>1, <2>2, <2>3, <2>4
<1>7. ~(s.byCard /\ s.parser = NoParser)
  BY <1>3 DEF ReviewInv, ByCard, At
<1>8. May(d, n, s)
  BY <1>3, <1>4, <1>5, <1>6, <1>7 DEF May
<1> QED
  BY <1>1, <1>8, Arrive DEF Kept, Visit
-----------------------------------------------------------------------------
(* Getting a transaction *)

LeadingViews == {Tools, LoadPsbt, Select, Overview, TypeKey, LoadSeed, Plain("ScanPSBTView"), Plain("ScanWIFQRView")}
OtherViews == {Home, NotVerified, NotImplemented, Rejected, CannotSign, WrongType, InvalidQR, Error}

LEMMA ViewFacts ==
    /\ \A d \in LeadingViews \cup OtherViews : d \in AllViews /\ ~Reviews(d) /\ d.view # "ScanView"
    /\ \A d \in OtherViews : ~Prepares(d)
    /\ Plain("ScanView") \in AllViews /\ ~Reviews(Plain("ScanView"))
    /\ InvalidQR.view = "ScanInvalidQRTypeView" /\ Home.view = "MainMenuView"
    /\ \A k \in Seeds : SeedOptions(k) \in AllViews /\ ~Reviews(SeedOptions(k)) /\ SeedOptions(k).view # "ScanView"
<1>1. LeadingViews \cup OtherViews \subseteq AllViews
  BY DEF LeadingViews, OtherViews, AllViews, Destinations, Scanners
<1>2. /\ \A d \in LeadingViews : ~Reviews(d) /\ d.view # "ScanView"
      /\ \A d \in OtherViews : ~Reviews(d) /\ ~Prepares(d) /\ d.view # "ScanView"
  BY ViewOf DEF LeadingViews, OtherViews, Reviews, Prepares, ReviewViews, PreparingViews, Home, NotVerified,
     NotImplemented, Rejected, CannotSign, WrongType, InvalidQR, Error, Tools, LoadPsbt, Select, Overview, TypeKey, LoadSeed
<1>3. Plain("ScanView") \in AllViews /\ \A k \in Seeds : SeedOptions(k) \in AllViews
  BY DEF AllViews, Destinations, Scanners
<1>4. /\ ~Reviews(Plain("ScanView")) /\ InvalidQR.view = "ScanInvalidQRTypeView" /\ Home.view = "MainMenuView"
      /\ \A k \in Seeds : ~Reviews(SeedOptions(k)) /\ SeedOptions(k).view # "ScanView"
  BY ViewOf DEF Reviews, ReviewViews, InvalidQR, Home
<1> QED
  BY <1>1, <1>2, <1>3, <1>4

LEMMA SameOf ==
    ASSUME ReviewInv
    PROVE  /\ Same(ctl) /\ Same(NoFile(ctl))
           /\ \A b \in BOOLEAN : Same([NoFile(ctl) EXCEPT !.warned = b])
           /\ \A b \in BOOLEAN : Same([ctl EXCEPT !.resume = b]) /\ Same(Warned([ctl EXCEPT !.resume = b]))
           /\ \A k \in Keys \cup {NoKey} : /\ Same([ctl EXCEPT !.psbtSeed = k])
                                         /\ Same([Warned(ctl) EXCEPT !.psbtSeed = k])
                                         /\ Same([ctl EXCEPT !.resume = FALSE, !.psbtSeed = k])
           /\ \A w \in Wallets \cup {NoWallet} : Same([ctl EXCEPT !.wallet = w])
<1>1. ctl \in Attributes
  BY InvFacts
<1>2. Same(ctl) /\ Same(NoFile(ctl)) /\ \A b \in BOOLEAN : Same([NoFile(ctl) EXCEPT !.warned = b])
  BY <1>1 DEF Same, Attributes, NoFile
<1>3. \A b \in BOOLEAN : Same([ctl EXCEPT !.resume = b]) /\ Same(Warned([ctl EXCEPT !.resume = b]))
  BY <1>1 DEF Same, Attributes, Warned
<1>4. Same(Warned(ctl))
  BY <1>1 DEF Same, Attributes, Warned
<1>5. ASSUME NEW k \in Keys \cup {NoKey}
      PROVE  /\ Same([ctl EXCEPT !.psbtSeed = k])
             /\ Same([Warned(ctl) EXCEPT !.psbtSeed = k])
             /\ Same([ctl EXCEPT !.resume = FALSE, !.psbtSeed = k])
  <2>1. ASSUME NEW s, Same(s) PROVE Same([s EXCEPT !.psbtSeed = k])
    BY <2>1 DEF Same, Attributes
  <2>2. Same([ctl EXCEPT !.resume = FALSE, !.psbtSeed = k])
    BY <1>1 DEF Same, Attributes
  <2> QED
    BY <1>2, <1>4, <2>1, <2>2
<1>6. \A w \in Wallets \cup {NoWallet} : Same([ctl EXCEPT !.wallet = w])
  BY <1>1 DEF Same, Attributes
<1> QED
  BY <1>2, <1>3, <1>5, <1>6

LEMMA SameIs ==
    ASSUME ReviewInv, NEW s, Same(s)
    PROVE  /\ s \in Attributes /\ Matched(s) /\ s.parser = ctl.parser /\ s.byCard = ctl.byCard
BY InvFacts DEF Same, Matched

(* The attributes of a transaction that has just come.                      *)
LEMMA NewTransaction ==
    ASSUME NEW s \in Attributes, NEW p \in Psbts \cup {NoPsbt},
           s.psbt = p, s.parser = NoParser, s.time \in {NoPsbt, p}
    PROVE  Matched(s)
BY DEF Matched

(* What the view on screen relies on was shown in the Controller's reading.  *)
LEMMA CurReviewed ==
    ASSUME ReviewInv, ctl.parser # NoParser
    PROVE  /\ local.parser = ctl.parser /\ Reviewed(cur, ctl.parser, seen)
           /\ cur \in Outputs(ctl.parser) => <<cur, ctl.parser>> \in seen
BY DEF ReviewInv, Belongs, Synced, Wiped, Shown

LEMMA FromHomeKeeps == ASSUME ReviewInv, FromHome PROVE ReviewInv'
<1>1. PICK d \in {Plain("ScanView"), Tools, LoadSeed} : Goto(d, ctl) /\ cur = Home
  BY DEF FromHome
<1>2. Kept
  BY InvFacts DEF FromHome
<1>3. ctl.parser = NoParser /\ ~ctl.byCard /\ cur.view = "MainMenuView"
  BY <1>1, ViewFacts DEF ReviewInv, Ordered
<1>4. d \in AllViews /\ ~Reviews(d)
  BY ViewFacts DEF LeadingViews
<1> QED
  BY <1>1, <1>2, <1>3, <1>4, SameOf, SameIs, TurnKeeps DEF Goto

(* Going on, or back, with what the invariant speaks of unchanged.          *)
LEMMA GoesOn ==
    ASSUME ReviewInv, Kept, Prepares(cur), NEW d \in LeadingViews \cup OtherViews, NEW s, Same(s),
           \/ Goto(d, s) /\ cur.view # "ScanView"
           \/ Forward(d, s)
    PROVE  ReviewInv'
<1>1. cur.view \notin {"ScanInvalidQRTypeView", "PSBTSignedQRDisplayView"}
  BY DEF Prepares, PreparingViews
<1> QED
  BY <1>1, ViewFacts, SameIs, TurnKeeps DEF Goto, Forward

LEMMA GoesBack ==
    ASSUME ReviewInv, Kept, cur.view \notin {"ScanView", "ScanInvalidQRTypeView", "PSBTSignedQRDisplayView"},
           NEW s, Same(s), Back(s)
    PROVE  ReviewInv'
BY BackKeeps DEF Back

LEMMA StartsOver ==
    ASSUME ReviewInv, Kept, NEW d \in LeadingViews \cup OtherViews, NEW s, Same(s),
           \/ Goto(d, s) /\ d = Home
           \/ Restart(d, s)
    PROVE  ReviewInv'
BY ViewFacts, SameIs, AfreshKeeps DEF Goto, Restart

LEMMA LoadKeeps == ASSUME ReviewInv, Load PROVE ReviewInv'
<1>0. Keep => Kept
  BY InvFacts
<1>1. CASE FromHome
  BY <1>1, FromHomeKeeps
<1>2. CASE FromTools
  <2>1. Prepares(cur) /\ cur.view # "ScanView" /\ Kept
    BY <1>0, <1>2 DEF FromTools, At, Prepares, PreparingViews
  <2>2. LoadPsbt \in LeadingViews
    BY DEF LeadingViews
  <2> QED
    BY <1>2, <2>1, <2>2, SameOf, GoesOn, GoesBack DEF FromTools, At
<1>3. CASE ReadPsbtFile
  <2>1. Prepares(cur) /\ cur.view = "ToolsSatochipLoadPsbtView" /\ Kept
    BY <1>0, <1>3 DEF ReadPsbtFile, At, Prepares, PreparingViews
  <2> DEFINE s == [NoFile(ctl) EXCEPT !.warned = loaded # {}]
             u(p, t) == [NoTx(s) EXCEPT !.psbt = p, !.path = p, !.time = IF t THEN p ELSE NoPsbt]
  <2>2. Same(NoFile(ctl)) /\ Same(s)
    BY SameOf
  <2>3. ASSUME NEW p \in Psbts, NEW t \in {TRUE, FALSE}
        PROVE  /\ u(p, t) \in Attributes /\ u(p, t).parser = NoParser
               /\ u(p, t).psbt = p /\ u(p, t).time \in {NoPsbt, p}
    <3>1. s \in Attributes
      BY <2>2 DEF Same
    <3> HIDE DEF s
    <3> QED
      BY <3>1 DEF NoTx, Attributes, Parsers
  <2>4. \/ Back(NoFile(ctl)) \/ Back(s) \/ Goto(LoadPsbt, s)
        \/ \E p \in Psbts, t \in {TRUE, FALSE} : Forward(Select, u(p, t))
    BY <1>3 DEF ReadPsbtFile
  <2>5. LoadPsbt \in LeadingViews /\ Select \in LeadingViews
    BY DEF LeadingViews
  <2> HIDE DEF s, u
  <2>6. ASSUME NEW p \in Psbts, NEW t \in {TRUE, FALSE}, Forward(Select, u(p, t)) PROVE ReviewInv'
    <3>1. Matched(u(p, t))
      BY <2>3, NewTransaction
    <3> QED
      BY <2>1, <2>3, <2>5, <2>6, <3>1, ViewFacts, TurnKeeps DEF Forward
  <2> QED
    BY <2>1, <2>2, <2>4, <2>5, <2>6, GoesOn, GoesBack
<1>4. CASE ScanPsbt
  <2>1. Prepares(cur) /\ cur.view \in {"ScanView", "ScanPSBTView"} /\ Kept
    BY <1>0, <1>4 DEF ScanPsbt, Prepares, PreparingViews
  <2>2. Home \in OtherViews /\ Select \in LeadingViews
    BY DEF OtherViews, LeadingViews
  <2>3. ASSUME NEW p \in Psbts, Forward(Select, WithScanned(p)) PROVE ReviewInv'
    <3>1. /\ WithScanned(p) \in Attributes /\ WithScanned(p).parser = NoParser
          /\ WithScanned(p).psbt = p /\ WithScanned(p).time = NoPsbt
      BY InvFacts DEF WithScanned, Attributes, Parsers
    <3>2. Matched(WithScanned(p))
      BY <3>1, NewTransaction
    <3> QED
      BY <2>1, <2>2, <2>3, <3>1, <3>2, ViewFacts, TurnKeeps DEF Forward
  <2> QED
    BY <1>4, <2>1, <2>2, <2>3, SameOf, StartsOver DEF ScanPsbt
<1>5. CASE ScanKey
  <2>1. Prepares(cur) /\ Kept /\ Overview \in LeadingViews
    BY <1>0, <1>5 DEF ScanKey, Prepares, PreparingViews, LeadingViews
  <2>2. PICK k \in Wifs : Forward(Overview, [ctl EXCEPT !.psbtSeed = k])
    BY <1>5 DEF ScanKey
  <2> QED
    BY <2>1, <2>2, SameOf, GoesOn DEF Keys
<1>6. CASE ScanDescriptor
  <2>1. PICK w \in Wallets : Forward(Descriptor, [ctl EXCEPT !.wallet = w])
    BY <1>6 DEF ScanDescriptor
  <2> DEFINE s == [ctl EXCEPT !.wallet = w]
  <2>2. /\ s \in Attributes /\ Matched(s) /\ s.parser = ctl.parser /\ s.byCard = ctl.byCard /\ Kept
    BY <1>0, <1>6, SameOf, SameIs DEF ScanDescriptor
  <2> HIDE DEF s
  <2>3. Descriptor \in AllViews /\ Reviews(Descriptor) /\ Descriptor.view = "MultisigWalletDescriptorView"
    BY ViewOf DEF Descriptor, AllViews, Destinations, Reviews, ReviewViews
  <2>4. Visit(Descriptor, TRUE, FALSE, s)
    BY <2>1 DEF Forward, s
  <2>5. CASE cur.view = "ScanView"
    <3>1. ctl.parser = NoParser /\ ~ctl.byCard /\ Prepares(cur)
      BY <2>5 DEF ReviewInv, Ordered, Prepares, PreparingViews
    <3> QED
      BY <2>2, <2>3, <2>4, <2>5, <3>1, TurnKeeps
  <2>6. CASE cur.view = "ScanWalletDescriptorView"
    <3>1. Reviews(cur)
      BY <2>6 DEF Reviews, ReviewViews
    <3>2. ctl.parser # NoParser => Reviewed(Descriptor, ctl.parser, seen)
      BY <2>3, <2>6, CurReviewed DEF Reviewed
    <3> QED
      BY <2>2, <2>3, <2>4, <2>6, <3>1, <3>2, ReviewKeeps
  <2> QED
    BY <1>6, <2>5, <2>6 DEF ScanDescriptor
<1>7. CASE ScanNothing
  <2>1. cur.view \in Scanners /\ Kept /\ {Home, InvalidQR, WrongType} \subseteq OtherViews
    BY <1>0, <1>7 DEF ScanNothing, OtherViews
  <2>2. /\ cur.view \notin {"ScanInvalidQRTypeView", "PSBTSignedQRDisplayView"}
    BY <2>1 DEF Scanners
  <2>3. CASE Goto(Home, ctl)
    BY <2>1, <2>3, SameOf, StartsOver
  <2>4. CASE Goto(InvalidQR, [ctl EXCEPT !.resume = FALSE])
    BY <2>1, <2>2, <2>4, ViewFacts, SameOf, SameIs, TurnKeeps DEF Goto
  <2>5. CASE Forward(WrongType, ctl)
    BY <2>1, <2>2, <2>5, ViewFacts, SameOf, SameIs, TurnKeeps DEF Forward
  <2>6. CASE cur.view # "ScanView" /\ Goto(WrongType, ctl)
    BY <2>1, <2>2, <2>6, ViewFacts, SameOf, SameIs, TurnKeeps DEF Goto
  <2> QED
    BY <1>7, <2>3, <2>4, <2>5, <2>6 DEF ScanNothing
<1>8. CASE AfterError
  <2>1. Home \in OtherViews
    BY DEF OtherViews
  <2> QED
    BY <1>0, <1>8, <2>1, SameOf, StartsOver, BackKeeps DEF AfterError, At
<1> QED
  BY <1>1, <1>2, <1>3, <1>4, <1>5, <1>6, <1>7, <1>8 DEF Load
-----------------------------------------------------------------------------
(* Choosing who signs *)

LEMMA RefusesKeeps ==
    ASSUME ReviewInv, Kept, Prepares(cur), NEW v, NEW s \in Attributes, Matched(s),
           s.parser \in {ctl.parser, NoParser}, Refuses(v, s)
    PROVE  ReviewInv'
<1>1. CannotSign \in OtherViews /\ Rejected \in OtherViews
  BY DEF OtherViews
<1>2. cur.view \notin {"ScanInvalidQRTypeView", "PSBTSignedQRDisplayView"}
  BY DEF Prepares, PreparingViews
<1>3. CASE Forward(CannotSign, s)
  BY <1>1, <1>2, <1>3, ViewFacts, TurnKeeps DEF Forward
<1>4. CASE Visit(Rejected, TRUE, TRUE, s)
  BY <1>1, <1>4, ViewFacts, AfreshKeeps
<1> QED
  BY <1>3, <1>4 DEF Refuses

LEMMA SelectCardKeeps == ASSUME ReviewInv, SelectCard PROVE ReviewInv'
<1> DEFINE s == [ctl EXCEPT !.resume = TRUE]
           q == CardParser(s.psbt)
           turnedDown == [s EXCEPT !.parser = NoParser, !.byCard = FALSE]
           known == [s EXCEPT !.parser = q, !.psbtSeed = NoKey, !.byCard = TRUE]
<1>1. Kept /\ Prepares(cur) /\ cur.view = "PSBTSelectSeedView"
  BY InvFacts DEF SelectCard, Choosing, At, Prepares, PreparingViews
<1>2. Same(s) /\ s \in Attributes
  BY SameOf DEF Same
<1>3. turnedDown \in Attributes /\ turnedDown.parser = NoParser /\ Matched(turnedDown)
  <2>1. turnedDown \in Attributes /\ turnedDown.parser = NoParser /\ turnedDown.psbt = ctl.psbt /\ turnedDown.time = ctl.time
    BY InvFacts DEF Attributes, Parsers
  <2> QED
    BY <2>1, InvFacts DEF Matched
<1>4. known \in Attributes /\ Matched(known)
  <2>1. q \in Parsers /\ q.psbt = ctl.psbt
    BY InvFacts DEF CardParser, Parser, Parsers, Attributes
  <2>2. known \in Attributes /\ known.parser = q /\ known.psbt = ctl.psbt /\ known.time = ctl.time
    BY <2>1, InvFacts DEF Attributes
  <2> QED
    BY <2>1, <2>2, InvFacts DEF Matched
<1>5. \/ Restart(Select, s) \/ Restart(Error, s) \/ Goto(Overview, known) \/ Restart(Select, turnedDown)
      \/ Refuses(Read(q).verdict, turnedDown)
  BY DEF SelectCard
<1> HIDE DEF s, q, turnedDown, known
<1>6. {Select, Overview, Error} \subseteq LeadingViews \cup OtherViews
  BY DEF LeadingViews, OtherViews
<1>7. CASE Restart(Select, s) \/ Restart(Error, s)
  BY <1>1, <1>2, <1>6, <1>7, StartsOver
<1>8. CASE Goto(Overview, known)
  BY <1>1, <1>4, <1>6, <1>8, ViewFacts, TurnKeeps DEF Goto
<1>9. CASE Restart(Select, turnedDown)
  BY <1>1, <1>3, <1>6, <1>9, ViewFacts, AfreshKeeps DEF Restart
<1>10. CASE Refuses(Read(q).verdict, turnedDown)
  BY <1>1, <1>3, <1>10, RefusesKeeps
<1> QED
  BY <1>5, <1>7, <1>8, <1>9, <1>10

LEMMA SelectKeeps ==
    ASSUME ReviewInv, SelectKnown \/ SelectSeed \/ SelectOther \/ SelectNothing
    PROVE  ReviewInv'
<1>1. Kept /\ Prepares(cur) /\ cur.view = "PSBTSelectSeedView"
  BY InvFacts DEF SelectKnown, SelectSeed, SelectOther, SelectNothing, Choosing, At, Prepares, PreparingViews
<1>2. /\ {Overview, Select, Error} \subseteq LeadingViews \cup OtherViews
      /\ {LoadSeed, TypeKey, Plain("ScanWIFQRView")} \subseteq LeadingViews
  BY DEF LeadingViews, OtherViews
<1>3. CASE SelectKnown
  BY <1>1, <1>2, <1>3, SameOf, GoesOn DEF SelectKnown
<1>4. CASE SelectSeed
  <2>1. local.seeds \subseteq Keys
    BY DEF ReviewInv, TypeOK, Keys
  <2>2. \A k \in local.seeds : Same([Warned(ctl) EXCEPT !.psbtSeed = k])
    BY <2>1, SameOf
  <2>3. Same(IF ctl.path = NoPsbt THEN ctl ELSE NoFile(ctl))
    BY SameOf
  <2> QED
    BY <1>1, <1>2, <1>4, <2>2, <2>3, SameOf, GoesOn, GoesBack DEF SelectSeed, Declined
<1>5. CASE SelectOther
  <2> DEFINE s == [ctl EXCEPT !.resume = TRUE]
  <2>1. Same(s) /\ Same(Warned(s))
    BY SameOf
  <2>2. Declined(s) \/ \E d \in {LoadSeed, TypeKey, Plain("ScanWIFQRView")} : Goto(d, Warned(s))
    BY <1>5 DEF SelectOther
  <2> HIDE DEF s
  <2> QED
    BY <1>1, <1>2, <2>1, <2>2, GoesOn DEF Declined
<1>6. CASE SelectNothing
  BY <1>1, <1>2, <1>6, SameOf, StartsOver DEF SelectNothing, Fail
<1> QED
  BY <1>3, <1>4, <1>5, <1>6

LEMMA ChooseKeyKeeps == ASSUME ReviewInv, ChooseKey PROVE ReviewInv'
<1>0. Keep => Kept
  BY InvFacts
<1>1. {Overview, Select, Home, Plain("ScanPSBTView")} \subseteq LeadingViews \cup OtherViews /\ Home \in OtherViews
  BY DEF LeadingViews, OtherViews
<1>2. CASE TypeWIF
  <2>1. Prepares(cur) /\ cur.view = "PSBTWIFEntryView" /\ Kept
    BY <1>0, <1>2 DEF TypeWIF, At, Prepares, PreparingViews
  <2>2. \A k \in Wifs : Same([ctl EXCEPT !.psbtSeed = k])
    BY SameOf DEF Keys
  <2> QED
    BY <1>1, <1>2, <2>1, <2>2, SameOf, GoesOn, GoesBack DEF TypeWIF
<1>3. CASE FinishSeed
  <2>1. cur.view = "LoadSeedView" /\ Kept
    BY <1>3 DEF FinishSeed, At, Kept, ReviewInv, TypeOK
  <2>2. CASE Back(ctl)
    BY <2>1, <2>2, SameOf, GoesBack
  <2>3. CASE \E k \in Seeds : Restart(SeedOptions(k), ctl)
    BY <2>1, <2>3, ViewFacts, SameOf, SameIs, AfreshKeeps DEF Restart
  <2> QED
    BY <1>3, <2>2, <2>3 DEF FinishSeed
<1>4. CASE SeedMenu
  <2>1. Prepares(cur) /\ cur.view = "SeedOptionsView" /\ Kept
    BY <1>0, <1>4 DEF SeedMenu, At, Prepares, PreparingViews
  <2>2. cur.key \in Keys
    BY <2>1, InvFacts, ByView DEF Keys
  <2>3. Same([ctl EXCEPT !.psbtSeed = cur.key]) /\ Same([ctl EXCEPT !.resume = FALSE, !.psbtSeed = cur.key])
    BY <2>2, SameOf
  <2> QED
    BY <1>1, <1>4, <2>1, <2>3, SameOf, GoesOn DEF SeedMenu
<1>5. CASE Refuse
  <2>1. Prepares(cur) /\ Kept
    BY <1>0, <1>5 DEF Refuse, At, Prepares, PreparingViews
  <2> QED
    BY <1>5, <2>1, InvFacts, RefusesKeeps DEF Refuse
<1>6. CASE AfterRefusal
  <2> DEFINE none == NoTx(ctl)
             kept == [NoTx(ctl) EXCEPT !.psbt = ctl.psbt]
  <2>1. /\ none \in Attributes /\ none.parser = NoParser /\ none.psbt = NoPsbt
        /\ kept \in Attributes /\ kept.parser = NoParser /\ kept.psbt = ctl.psbt /\ kept.time = ctl.time
    BY InvFacts DEF NoTx, Attributes, Parsers
  <2>2. Matched(none) /\ Matched(kept)
    BY <2>1, InvFacts DEF Matched
  <2>3. Restart(Home, none) \/ Restart(Select, kept)
    BY <1>6 DEF AfterRefusal
  <2>4. Kept
    BY <1>0, <1>6 DEF AfterRefusal
  <2> HIDE DEF none, kept
  <2> QED
    BY <1>1, <2>1, <2>2, <2>3, <2>4, ViewFacts, AfreshKeeps DEF Restart
<1> QED
  BY <1>2, <1>3, <1>4, <1>5, <1>6, SelectKeeps, SelectCardKeeps DEF ChooseKey
-----------------------------------------------------------------------------
(* The review *)

LEMMA ReviewDestinations ==
    /\ \A d \in {IdentifyChange, RiskWarning, Unsupported, NoChange, Math, OpReturn, Finalize, SignedQR,
                 SigningError, LoadDescriptor, Descriptor, Plain("ScanWalletDescriptorView")} :
         d \in AllViews /\ Reviews(d)
    /\ \A i \in 0..MaxOutputs : /\ Address(i) \in AllViews /\ Reviews(Address(i))
                               /\ Change(i) \in AllViews /\ Reviews(Change(i))
    /\ 0 \in 0..MaxOutputs
    /\ Overview \in AllViews
<1>1. \A d \in {IdentifyChange, RiskWarning, Unsupported, NoChange, Math, OpReturn, Finalize, SignedQR,
                 SigningError, LoadDescriptor, Descriptor, Plain("ScanWalletDescriptorView")} : d \in AllViews
  BY DEF AllViews, Destinations, Scanners
<1>2. \A d \in {IdentifyChange, RiskWarning, Unsupported, NoChange, Math, OpReturn, Finalize, SignedQR,
                 SigningError, LoadDescriptor, Descriptor, Plain("ScanWalletDescriptorView")} : Reviews(d)
  BY ViewOf DEF Reviews, ReviewViews, IdentifyChange, RiskWarning, Unsupported, NoChange, Math, OpReturn,
     Finalize, SignedQR, SigningError, LoadDescriptor, Descriptor
<1>3. \A i \in 0..MaxOutputs : Address(i) \in AllViews /\ Change(i) \in AllViews
  BY DEF AllViews, Destinations
<1>4. \A i \in 0..MaxOutputs : Reviews(Address(i)) /\ Reviews(Change(i))
  BY ViewOf DEF Reviews, ReviewViews
<1>5. 0 \in 0..MaxOutputs /\ Overview \in AllViews
  BY ReadingAssumption DEF AllViews, Destinations
<1> QED
  BY <1>1, <1>2, <1>3, <1>4, <1>5

(* The warnings and the sum rely on nothing; the first address on nothing   *)
(* either.                                                                  *)
LEMMA RelyOnNothing ==
    ASSUME NEW q, NEW S
    PROVE  /\ \A d \in {RiskWarning, Unsupported, NoChange, Math, SignedQR, Address(0)} : Reviewed(d, q, S)
           /\ \A d \in {LoadDescriptor, Descriptor, Plain("ScanWalletDescriptorView")} :
                Read(q).unidentified \/ SawAddresses(S, Read(q).dests, q) => Reviewed(d, q, S)
           /\ Read(q).unidentified => Reviewed(IdentifyChange, q, S)
           /\ SawAddresses(S, 0, q) /\ SawChange(S, 0, q)
<1>1. SawAddresses(S, 0, q) /\ SawChange(S, 0, q)
  BY DEF SawAddresses, SawChange
<1>2. \A d \in {RiskWarning, Unsupported, NoChange, Math, SignedQR} : Reviewed(d, q, S)
  BY ViewOf DEF Reviewed, RiskWarning, Unsupported, NoChange, Math, SignedQR
<1>3. Reviewed(Address(0), q, S)
  BY <1>1, ViewOf DEF Reviewed
<1>4. \A d \in {LoadDescriptor, Descriptor, Plain("ScanWalletDescriptorView")} :
        Read(q).unidentified \/ SawAddresses(S, Read(q).dests, q) => Reviewed(d, q, S)
  BY ViewOf DEF Reviewed, LoadDescriptor, Descriptor
<1>5. Read(q).unidentified => Reviewed(IdentifyChange, q, S)
  BY ViewOf DEF Reviewed, IdentifyChange
<1> QED
  BY <1>1, <1>2, <1>3, <1>4, <1>5

(* After the addresses, and after the change, of which there were some.     *)
LEMMA AfterOutputs ==
    ASSUME NEW q \in Parsers \ {NoParser}, NEW S, SawAddresses(S, Read(q).dests, q),
           Read(q).dests > 0 \/ Read(q).changes > 0
    PROVE  /\ AfterChange(q) \in AllViews /\ Reviews(AfterChange(q))
           /\ SawBoth(S, q) => Reviewed(AfterChange(q), q, S)
           /\ AfterAddresses(q) \in AllViews /\ Reviews(AfterAddresses(q))
           /\ Reviewed(AfterAddresses(q), q, S)
<1>1. Read(q).dests \in 0..MaxOutputs /\ Read(q).changes \in 0..MaxOutputs
  BY OutputsAreViews
<1>2. Read(q) # Nothing
  BY DEF Nothing
<1>3. AfterChange(q) \in AllViews /\ Reviews(AfterChange(q))
  BY ReviewDestinations DEF AfterChange
<1>4. SawBoth(S, q) => Reviewed(AfterChange(q), q, S)
  <2> SUFFICES ASSUME SawBoth(S, q) PROVE Reviewed(AfterChange(q), q, S)
    OBVIOUS
  <2>1. CASE ShowsData(q)
    <3>1. AfterChange(q) = OpReturn /\ OpReturn.view = "PSBTOpReturnView"
      BY <2>1, ViewOf DEF AfterChange, OpReturn
    <3> QED
      BY <2>1, <3>1 DEF Reviewed
  <2>2. CASE ~ShowsData(q)
    <3>1. AfterChange(q) = Finalize /\ Finalize.view = "PSBTFinalizeView"
      BY <2>2, ViewOf DEF AfterChange, Finalize
    <3> QED
      BY <1>2, <2>2, <3>1 DEF Reviewed
  <2> QED
    BY <2>1, <2>2
<1>5. CASE HasChange(q)
  <2>1. AfterAddresses(q) = Change(0)
    BY <1>5 DEF AfterAddresses
  <2>2. Reviewed(Change(0), q, S)
    BY ViewOf, RelyOnNothing DEF Reviewed
  <2> QED
    BY <1>3, <1>4, <2>1, <2>2, ReviewDestinations
<1>6. CASE ~HasChange(q)
  <2>1. AfterAddresses(q) = AfterChange(q)
    BY <1>6 DEF AfterAddresses
  <2>2. SawBoth(S, q)
    BY <1>6 DEF SawBoth
  <2> QED
    BY <1>3, <1>4, <2>1, <2>2
<1> QED
  BY <1>5, <1>6

(* On to the next view of the review, or away from it.                      *)
LEMMA ReviewGoesOn ==
    ASSUME ReviewInv, Kept, Reviews(cur), cur.view # "PSBTSignedQRDisplayView",
           NEW d \in AllViews, Reviews(d), NEW s, Same(s), Goto(d, s) \/ Forward(d, s),
           ctl.parser # NoParser => Reviewed(d, ctl.parser, seen)
    PROVE  ReviewInv'
BY SameIs, ReviewKeeps DEF Goto, Forward

LEMMA ReviewEnds ==
    ASSUME ReviewInv, Kept, Goto(Home, ctl) \/ Restart(Home, ctl) \/ Fail
    PROVE  ReviewInv'
<1>1. Home \in OtherViews /\ Error \in OtherViews
  BY DEF OtherViews
<1> QED
  BY <1>1, SameOf, StartsOver DEF Fail

LEMMA ReviewsIt ==
    ASSUME cur.view \in ReviewViews
    PROVE  Reviews(cur) /\ cur.view \notin {"ScanView", "ScanInvalidQRTypeView"}
BY DEF Reviews, ReviewViews

LEMMA LeavesReview ==
    ASSUME ReviewInv, Kept, cur.view \in ReviewViews, cur.view # "PSBTSignedQRDisplayView",
           Goto(NotImplemented, ctl)
    PROVE  ReviewInv'
<1>1. NotImplemented \in OtherViews
  BY DEF OtherViews
<1> QED
  BY <1>1, ReviewsIt, ViewFacts, SameOf, SameIs, TurnKeeps DEF Goto

LEMMA PostOverviewIs ==
    ASSUME NEW q
    PROVE  PostOverview(q) \in {RiskWarning, Unsupported, NoChange, Math}
BY DEF PostOverview

LEMMA ReviewStartKeeps ==
    ASSUME ReviewInv, ReviewOverview \/ ReviewUnidentified \/ ReviewRisks \/ ReviewWarning
    PROVE  ReviewInv'
<1> DEFINE q == local.parser
<1>1. Kept
  BY InvFacts DEF ReviewOverview, ReviewUnidentified, ReviewRisks, ReviewWarning
<1>2. CASE ReviewOverview
  <2>1. cur = Overview /\ ~IsRefused /\ cur.view = "PSBTOverviewView"
    BY <1>2, InvFacts, ByView DEF ReviewOverview, At
  <2>2. CASE Back([ctl EXCEPT !.psbtSeed = NoKey])
    BY <1>1, <2>1, <2>2, SameOf, GoesBack
  <2>3. CASE Goto(IF Read(q).unidentified THEN IdentifyChange ELSE PostOverview(q), ctl)
    <3>1. PICK d : /\ d = IF Read(q).unidentified THEN IdentifyChange ELSE PostOverview(q)
                   /\ Goto(d, ctl)
      BY <2>3
    <3>2. d \in AllViews /\ Reviews(d) /\ Reviewed(d, q, seen)
      <4>1. CASE Read(q).unidentified
        BY <3>1, <4>1, ReviewDestinations, RelyOnNothing
      <4>2. CASE ~Read(q).unidentified
        BY <3>1, <4>2, ReviewDestinations, RelyOnNothing, PostOverviewIs
      <4> QED
        BY <4>1, <4>2
    <3>3. ctl.parser # NoParser => Reviewed(d, ctl.parser, seen)
      BY <3>2, CurReviewed
    <3> QED
      BY <1>1, <2>1, <3>1, <3>2, <3>3, SameOf, SameIs, ReviewKeeps DEF Goto
  <2> QED
    BY <1>2, <2>2, <2>3 DEF ReviewOverview
<1>3. CASE ReviewUnidentified
  <2>1. cur.view = "PSBTIdentifyChangeView" /\ Reviews(cur)
    BY <1>3, ReviewsIt DEF ReviewUnidentified, At, ReviewViews
  <2>2. CASE Goto(Home, ctl)
    BY <1>1, <2>2, ReviewEnds
  <2>3. CASE Back(ctl)
    BY <1>1, <2>1, <2>3, SameOf, GoesBack
  <2>4. CASE Forward(PostOverview(q), ctl)
    <3>1. /\ PostOverview(q) \in AllViews /\ Reviews(PostOverview(q))
          /\ Reviewed(PostOverview(q), ctl.parser, seen)
      BY PostOverviewIs, ReviewDestinations, RelyOnNothing
    <3> QED
      BY <1>1, <2>1, <2>4, <3>1, SameOf, ReviewGoesOn
  <2>5. CASE Goto(LoadDescriptor, [ctl EXCEPT !.resume = TRUE])
    <3>1. ctl.parser # NoParser => Reviewed(LoadDescriptor, ctl.parser, seen)
      BY <2>1, CurReviewed, RelyOnNothing DEF Reviewed
    <3> QED
      BY <1>1, <2>1, <2>5, <3>1, SameOf, ReviewDestinations, ReviewGoesOn
  <2> QED
    BY <1>3, <2>2, <2>3, <2>4, <2>5 DEF ReviewUnidentified
<1>4. CASE ReviewRisks
  <2>1. cur.view = "PSBTRiskWarningView" /\ Reviews(cur)
    BY <1>4, ReviewsIt DEF ReviewRisks, At, ReviewViews
  <2>2. CASE Goto(Home, ctl)
    BY <1>1, <2>2, ReviewEnds
  <2>3. CASE Back(ctl)
    BY <1>1, <2>1, <2>3, SameOf, GoesBack
  <2>4. CASE \E d \in {Unsupported, NoChange, Math} : Forward(d, ctl)
    BY <1>1, <2>1, <2>4, SameOf, ReviewDestinations, RelyOnNothing, ReviewGoesOn
  <2> QED
    BY <1>4, <2>2, <2>3, <2>4 DEF ReviewRisks
<1>5. CASE ReviewWarning
  <2>1. /\ cur.view \in {"PSBTUnsupportedScriptTypeWarningView", "PSBTNoChangeWarningView"}
        /\ Reviews(cur)
    BY <1>5, ReviewsIt DEF ReviewWarning, At, ReviewViews
  <2>2. CASE Back(ctl)
    BY <1>1, <2>1, <2>2, SameOf, GoesBack
  <2>3. CASE \E d \in {Address(0), Math} : Forward(d, ctl)
    BY <1>1, <2>1, <2>3, SameOf, ReviewDestinations, RelyOnNothing, ReviewGoesOn
  <2> QED
    BY <1>5, <2>2, <2>3 DEF ReviewWarning
<1> QED
  BY <1>2, <1>3, <1>4, <1>5

(* Showing one more output.                                                 *)
LEMMA OneMore ==
    ASSUME NEW q, NEW S, NEW n \in Nat
    PROVE  /\ SawAddresses(S, n, q) /\ <<Address(n), q>> \in S => SawAddresses(S, n + 1, q)
           /\ SawChange(S, n, q) /\ <<Change(n), q>> \in S => SawChange(S, n + 1, q)
<1>1. \A i \in 0..((n + 1) - 1) : i = n \/ i \in 0..(n - 1)
  OBVIOUS
<1> QED
  BY <1>1 DEF SawAddresses, SawChange

LEMMA OutputsKeep ==
    ASSUME ReviewInv, ReviewMath \/ ReviewAddress \/ ReviewOpReturn
    PROVE  ReviewInv'
<1> DEFINE q == local.parser
<1>1. Kept
  BY InvFacts DEF ReviewMath, ReviewAddress, ReviewOpReturn
<1>2. q \in Parsers
  BY DEF ReviewInv, TypeOK
<1>3. q # NoParser => Read(q).dests \in 0..MaxOutputs /\ Read(q).changes \in 0..MaxOutputs
  BY <1>2, OutputsAreViews
<1>4. CASE ReviewMath
  <2>1. cur.view = "PSBTMathView" /\ Reviews(cur)
    BY <1>4, ReviewsIt DEF ReviewMath, At, ReviewViews
  <2>2. CASE Goto(Home, ctl)
    BY <1>1, <2>2, ReviewEnds
  <2>3. CASE Back(ctl)
    BY <1>1, <2>1, <2>3, SameOf, GoesBack
  <2>4. CASE Goto(Address(0), ctl)
    BY <1>1, <2>1, <2>4, SameOf, ReviewDestinations, RelyOnNothing, ReviewGoesOn
  <2>5. CASE q # NoParser /\ ~(Read(q).dests > 0) /\ Goto(Change(0), ctl)
    <3>1. Read(q).dests = 0
      BY <1>3, <2>5
    <3>2. Reviewed(Change(0), q, seen)
      BY <3>1, RelyOnNothing, ViewOf DEF Reviewed
    <3>3. ctl.parser # NoParser => Reviewed(Change(0), ctl.parser, seen)
      BY <3>2, CurReviewed
    <3> QED
      BY <1>1, <2>1, <2>5, <3>3, SameOf, ReviewDestinations, ReviewGoesOn
  <2> QED
    BY <1>4, <2>2, <2>3, <2>4, <2>5 DEF ReviewMath
<1>5. CASE ReviewAddress
  <2>1. cur.view = "PSBTAddressDetailsView" /\ Reviews(cur)
    BY <1>5, ReviewsIt DEF ReviewAddress, At, ReviewViews
  <2>2. CASE Fail
    BY <1>1, <2>2, ReviewEnds
  <2>3. CASE Back(ctl)
    BY <1>1, <2>1, <2>3, SameOf, GoesBack
  <2>4. ASSUME q # NoParser, ~(cur.n >= Read(q).dests),
               NEW d, d = IF cur.n + 1 < Read(q).dests THEN Address(cur.n + 1) ELSE AfterAddresses(q),
               Goto(d, ctl)
        PROVE  ReviewInv'
    <3>0. cur = Address(cur.n) /\ cur.n \in 0..MaxOutputs
      BY <2>1, InvFacts, ByView
    <3>1. cur = Address(cur.n) /\ cur.n \in Nat /\ MaxOutputs \in Nat
      BY <3>0, ReadingAssumption
    <3>2. cur.n < Read(q).dests /\ cur \in Outputs(q)
      BY <1>3, <2>4, <3>1 DEF Outputs
    <3>3. SawAddresses(seen, cur.n + 1, q)
      <4>1. SawAddresses(seen, cur.n, q) /\ <<Address(cur.n), q>> \in seen
        BY <2>1, <2>4, <3>1, <3>2 DEF ReviewInv, Shown, Reviewed
      <4> QED
        BY <3>1, <4>1, OneMore
    <3>4. d \in AllViews /\ Reviews(d) /\ Reviewed(d, q, seen)
      <4>1. CASE cur.n + 1 < Read(q).dests
        <5>1. d = Address(cur.n + 1) /\ cur.n + 1 \in 0..MaxOutputs
          <6> DEFINE n == cur.n
                     m == Read(q).dests
          <6>1. d = Address(n + 1) /\ n \in Nat /\ m \in 0..MaxOutputs /\ n + 1 < m /\ MaxOutputs \in Nat
            BY <1>3, <2>4, <3>1, <4>1
          <6> HIDE DEF n, m
          <6>2. d = Address(n + 1) /\ n + 1 \in 0..MaxOutputs
            BY <6>1
          <6> QED
            BY <6>2 DEF n
        <5>2. Reviewed(d, q, seen)
          BY <3>3, <5>1, ViewOf DEF Reviewed
        <5> QED
          BY <5>1, <5>2, ReviewDestinations
      <4>2. CASE ~(cur.n + 1 < Read(q).dests)
        <5> DEFINE n == cur.n
                   m == Read(q).dests
        <5>0. d = AfterAddresses(q) /\ n \in Nat /\ m \in Nat /\ n < m /\ ~(n + 1 < m)
          BY <1>3, <2>4, <3>1, <3>2, <4>2
        <5> HIDE DEF n, m
        <5>1. d = AfterAddresses(q) /\ m = n + 1 /\ m > 0
          BY <5>0
        <5>2. SawAddresses(seen, m, q)
          BY <3>3, <5>1 DEF n
        <5> QED
          BY <1>2, <2>4, <5>1, <5>2, AfterOutputs DEF m
      <4> QED
        BY <4>1, <4>2
    <3>5. ctl.parser # NoParser => Reviewed(d, ctl.parser, seen)
      BY <3>4, CurReviewed
    <3> QED
      BY <1>1, <2>1, <2>4, <3>4, <3>5, SameOf, ReviewGoesOn
  <2> QED
    BY <1>5, <2>2, <2>3, <2>4 DEF ReviewAddress
<1>6. CASE ReviewOpReturn
  <2>1. cur.view = "PSBTOpReturnView" /\ Reviews(cur)
    BY <1>6, ReviewsIt DEF ReviewOpReturn, At, ReviewViews
  <2>2. CASE Fail
    BY <1>1, <2>2, ReviewEnds
  <2>3. CASE Back(ctl)
    BY <1>1, <2>1, <2>3, SameOf, GoesBack
  <2>4. CASE q # NoParser /\ Goto(Finalize, ctl)
    <3>1. SawBoth(seen, q) /\ ShowsData(q)
      BY <2>1, <2>4 DEF ReviewInv, Shown, Reviewed
    <3>2. cur = OpReturn /\ cur \in Outputs(q)
      BY <2>1, <3>1, InvFacts, ByView DEF Outputs
    <3>3. <<OpReturn, q>> \in seen /\ Read(q) # Nothing
      BY <2>4, <3>1, <3>2 DEF ReviewInv, Shown, Nothing, ShowsData
    <3>4. Reviewed(Finalize, q, seen)
      BY <3>1, <3>3, ViewOf DEF Reviewed, Finalize
    <3>5. ctl.parser # NoParser => Reviewed(Finalize, ctl.parser, seen)
      BY <3>4, CurReviewed
    <3> QED
      BY <1>1, <2>1, <2>4, <3>5, SameOf, ReviewDestinations, ReviewGoesOn
  <2> QED
    BY <1>6, <2>2, <2>3, <2>4 DEF ReviewOpReturn
<1> QED
  BY <1>4, <1>5, <1>6

LEMMA ChangeKeeps == ASSUME ReviewInv, ReviewChange PROVE ReviewInv'
<1> DEFINE q == local.parser
           n == cur.n
           next == IF n + 1 < Read(q).changes THEN Change(n + 1) ELSE AfterChange(q)
<1>1. Kept /\ q \in Parsers
  BY InvFacts DEF ReviewChange, ReviewInv, TypeOK
<1>2. q # NoParser => Read(q).dests \in 0..MaxOutputs /\ Read(q).changes \in 0..MaxOutputs
  BY <1>1, OutputsAreViews
<1>3. cur.view = "PSBTChangeDetailsView" /\ Reviews(cur)
  BY ReviewsIt DEF ReviewChange, At, ReviewViews
<1>4. cur = Change(n) /\ n \in 0..MaxOutputs /\ n \in Nat /\ MaxOutputs \in Nat
  <2>1. cur = Change(n) /\ n \in 0..MaxOutputs
    BY <1>3, InvFacts, ByView
  <2> QED
    BY <2>1, ReadingAssumption
<1>5. \/ Goto(Home, ctl) \/ Fail \/ Back(ctl) \/ Visit(NotVerified, FALSE, TRUE, ctl)
      \/ Forward(Change(n), [ctl EXCEPT !.wallet = NoWallet])
      \/ q # NoParser /\ ~(n >= Read(q).changes) /\ Goto(next, ctl)
      \/ q # NoParser /\ Goto(LoadDescriptor, [ctl EXCEPT !.resume = TRUE])
      \/ Goto(NotImplemented, ctl)
  BY DEF ReviewChange
<1> HIDE DEF q, n, next
<1>6. q # NoParser =>
        SawAddresses(seen, Read(q).dests, q) /\ SawChange(seen, n, q) /\ Reviewed(cur, q, seen)
  BY <1>3 DEF ReviewInv, Shown, Reviewed, q, n
<1>7. ctl.parser # NoParser => q = ctl.parser
  BY CurReviewed DEF q
<1>8. CASE Goto(Home, ctl) \/ Fail
  BY <1>1, <1>8, ReviewEnds
<1>9. CASE Back(ctl)
  BY <1>1, <1>3, <1>9, SameOf, GoesBack
<1>10. CASE Visit(NotVerified, FALSE, TRUE, ctl)
  <2>1. NotVerified \in OtherViews
    BY DEF OtherViews
  <2> QED
    BY <1>1, <1>10, <2>1, ViewFacts, SameOf, SameIs, AfreshKeeps
<1>11. CASE Forward(Change(n), [ctl EXCEPT !.wallet = NoWallet])
  BY <1>1, <1>3, <1>4, <1>6, <1>7, <1>11, SameOf, InvFacts, ReviewGoesOn
<1>12. CASE q # NoParser /\ Goto(LoadDescriptor, [ctl EXCEPT !.resume = TRUE])
  <2>1. ctl.parser # NoParser => Reviewed(LoadDescriptor, ctl.parser, seen)
    BY <1>6, <1>7, <1>12, RelyOnNothing
  <2> QED
    BY <1>1, <1>3, <1>12, <2>1, SameOf, ReviewDestinations, ReviewGoesOn
<1>13. CASE q # NoParser /\ ~(n >= Read(q).changes) /\ Goto(next, ctl)
  <2> DEFINE m == Read(q).changes
  <2>1. m \in 0..MaxOutputs /\ ~(n >= m) /\ m \in Nat /\ n < m /\ m > 0
    BY <1>2, <1>4, <1>13
  <2>2. SawChange(seen, n + 1, q)
    <3>1. cur \in Outputs(q)
      BY <1>4, <2>1 DEF Outputs
    <3>2. <<Change(n), q>> \in seen
      BY <1>4, <1>13, <3>1 DEF ReviewInv, Shown, q
    <3> QED
      BY <1>4, <1>6, <1>13, <3>2, OneMore
  <2>3. next \in AllViews /\ Reviews(next) /\ Reviewed(next, q, seen)
    <3>1. CASE n + 1 < m
      <4>1. next = Change(n + 1)
        BY <3>1 DEF next
      <4>2. n + 1 \in 0..MaxOutputs
        <5> HIDE DEF m
        <5> QED
          BY <1>4, <2>1, <3>1
      <4>3. Reviewed(next, q, seen)
        BY <1>6, <1>13, <2>2, <4>1, ViewOf DEF Reviewed
      <4> QED
        BY <4>1, <4>2, <4>3, ReviewDestinations
    <3>2. CASE ~(n + 1 < m)
      <4>1. next = AfterChange(q)
        BY <3>2 DEF next
      <4>2. m = n + 1
        <5> HIDE DEF m
        <5> QED
          BY <1>4, <2>1, <3>2
      <4>3. SawChange(seen, m, q)
        BY <2>2, <4>2
      <4> QED
        BY <1>1, <1>6, <1>13, <2>1, <4>1, <4>3, AfterOutputs DEF SawBoth
    <3> QED
      BY <3>1, <3>2
  <2>4. ctl.parser # NoParser => Reviewed(next, ctl.parser, seen)
    BY <1>7, <2>3
  <2> QED
    BY <1>1, <1>3, <1>13, <2>3, <2>4, SameOf, ReviewGoesOn
<1>14. CASE Goto(NotImplemented, ctl)
  BY <1>1, <1>3, <1>14, LeavesReview DEF Reviews
<1> QED
  BY <1>5, <1>8, <1>9, <1>10, <1>11, <1>12, <1>13, <1>14

(* A descriptor leads back to the overview when some change was not         *)
(* identified, and the transaction is read again.  The overview lies in the *)
(* history, below the view of the descriptor, and no review below it.       *)
LEMMA ReadsAgain ==
    ASSUME ReviewInv, Kept, Reviews(cur), cur.view # "PSBTSignedQRDisplayView", ctl.parser # NoParser,
           NEW s \in Attributes, Matched(s), s.parser = NoParser, Forward(Overview, s)
    PROVE  ReviewInv'
<1>1. Overview \in AllViews /\ Nav!Visit(Overview, TRUE, FALSE) /\ Shows(Overview, s)
  BY ReviewDestinations DEF Forward, Visit
<1>2. Len(hist) \in Nat /\ DOMAIN hist = 1..Len(hist) /\ hist # << >> /\ Len(hist) >= 1 /\ hist[Len(hist)] = cur
  BY InvFacts DEF ReviewInv, Ordered
<1>3. PICK n \in 0..Len(hist) :
        Laws!Lands(Overview, n) /\ n < Len(hist) /\ (n = Len(hist) - 1 \/ hist[n + 1] = Overview)
  BY <1>1, <1>2, InvFacts, NavHasLaws, Laws!ForwardLands DEF AllViews
<1>4. PICK j \in 1..(Len(hist) - 1) : hist[j] = Overview
  <2>1. Len(hist) \in DOMAIN hist
    BY <1>2
  <2> QED
    BY <1>2, <2>1 DEF ReviewInv, Ordered
<1>5. hist[n + 1] = Overview
  <2>1. Overview # Home
    BY ViewOf DEF Overview, Home
  <2>2. \A i \in 1..n : hist[i] # Overview
    BY <1>3, <2>1 DEF Laws!Lands
  <2>3. n = Len(hist) - 1 => j \in 1..n
    BY <1>2, <1>4
  <2> QED
    BY <1>3, <1>4, <2>2, <2>3
<1>6. n \in Nat /\ n + 1 \in 1..Len(hist) /\ 1..n \subseteq 1..Len(hist) /\ \A i \in 1..n : i < n + 1
  <2> DEFINE m == Len(hist)
  <2>1. m \in Nat /\ n \in 0..m /\ n < m
    BY <1>2, <1>3
  <2> HIDE DEF m
  <2>2. n \in Nat /\ n + 1 \in 1..m /\ 1..n \subseteq 1..m /\ \A i \in 1..n : i < n + 1
    BY <2>1
  <2> QED
    BY <2>2 DEF m
<1>7. /\ Prepares(Overview) /\ ~Reviews(Overview) /\ Overview.view = "PSBTOverviewView"
      /\ SignedQR.view = "PSBTSignedQRDisplayView" /\ cur.view \notin {"ScanView", "ScanInvalidQRTypeView"}
  BY ViewOf DEF Overview, SignedQR, Prepares, Reviews, PreparingViews, ReviewViews
<1>8. NoReview(n)
  BY <1>2, <1>5, <1>6, <1>7 DEF ReviewInv, Ordered, NoReview
<1>9. /\ \A i \in 1..n : hist[i] # SignedQR
      /\ \A i \in 1..n : hist[i].view # "ScanView"
  BY <1>2, <1>6, <1>7, ScanViewIsLast DEF ReviewInv, Ordered
<1>10. May(Overview, n, s)
  BY <1>7, <1>8, <1>9 DEF May
<1> QED
  BY <1>1, <1>3, <1>10, Arrive DEF Kept

LEMMA DescriptorKeeps ==
    ASSUME ReviewInv, Discard \/ GiveUp \/ ChooseDescriptor \/ UseDescriptor
    PROVE  ReviewInv'
<1>1. Kept
  BY InvFacts DEF Discard, GiveUp, ChooseDescriptor, UseDescriptor
<1>2. CASE Discard \/ GiveUp
  BY <1>1, <1>2, ReviewEnds DEF Discard, GiveUp
<1>3. CASE ChooseDescriptor
  <2>1. cur.view = "LoadMultisigWalletDescriptorView" /\ Reviews(cur)
    BY <1>3, ReviewsIt DEF ChooseDescriptor, At, ReviewViews
  <2>2. CASE Goto(Plain("ScanWalletDescriptorView"), ctl)
    <3>1. ctl.parser # NoParser => Reviewed(Plain("ScanWalletDescriptorView"), ctl.parser, seen)
      BY <2>1, CurReviewed, RelyOnNothing DEF Reviewed
    <3> QED
      BY <1>1, <2>1, <2>2, <3>1, SameOf, ReviewDestinations, ReviewGoesOn
  <2>3. CASE Back(ctl)
    BY <1>1, <2>1, <2>3, SameOf, GoesBack
  <2>4. CASE Goto(Home, ctl)
    BY <1>1, <2>4, ReviewEnds
  <2> QED
    BY <1>3, <2>2, <2>3, <2>4 DEF ChooseDescriptor
<1>4. CASE UseDescriptor
  <2>1. cur.view = "MultisigWalletDescriptorView" /\ Reviews(cur)
    BY <1>4, ReviewsIt DEF UseDescriptor, At, ReviewViews
  <2>2. CASE Back([ctl EXCEPT !.wallet = NoWallet])
    BY <1>1, <2>1, <2>2, SameOf, GoesBack
  <2>3. CASE Goto(Home, ctl)
    BY <1>1, <2>3, ReviewEnds
  <2>4. CASE ctl.parser # NoParser /\ Forward(Overview, [ctl EXCEPT !.resume = FALSE, !.parser = NoParser])
    <3> DEFINE s == [ctl EXCEPT !.resume = FALSE, !.parser = NoParser]
    <3>1. s \in Attributes /\ s.parser = NoParser /\ s.psbt = ctl.psbt /\ s.time = ctl.time
      BY InvFacts DEF Attributes, Parsers
    <3>2. Forward(Overview, s)
      BY <2>4
    <3> HIDE DEF s
    <3>3. Matched(s)
      BY <3>1, InvFacts DEF Matched
    <3> QED
      BY <1>1, <2>1, <2>4, <3>1, <3>2, <3>3, ReadsAgain
  <2>5. CASE /\ ~(ctl.parser # NoParser /\ Read(ctl.parser).unidentified)
             /\ Goto(Change(0), [ctl EXCEPT !.resume = FALSE])
    <3>1. ctl.parser # NoParser => Reviewed(Change(0), ctl.parser, seen)
      <4> SUFFICES ASSUME ctl.parser # NoParser PROVE Reviewed(Change(0), ctl.parser, seen)
        OBVIOUS
      <4>1. SawAddresses(seen, Read(ctl.parser).dests, ctl.parser)
        BY <2>1, <2>5, CurReviewed DEF Reviewed
      <4> QED
        BY <4>1, RelyOnNothing, ViewOf DEF Reviewed
    <3> QED
      BY <1>1, <2>1, <2>5, <3>1, SameOf, ReviewDestinations, ReviewGoesOn
  <2> QED
    BY <1>4, <2>2, <2>3, <2>4, <2>5 DEF UseDescriptor
<1> QED
  BY <1>2, <1>3, <1>4

LEMMA ReviewKeepsAll == ASSUME ReviewInv, Review PROVE ReviewInv'
BY ReviewStartKeeps, OutputsKeep, ChangeKeeps, DescriptorKeeps DEF Review

-----------------------------------------------------------------------------
(* Signing *)

LEMMA SigningKeeps ==
    ASSUME ReviewInv, Sign \/ ShowSigned \/ SigningFailed
    PROVE  ReviewInv'
<1>1. Kept
  BY InvFacts DEF Sign, ShowSigned, SigningFailed
<1>2. CASE Sign
  <2>1. cur.view = "PSBTFinalizeView" /\ Reviews(cur)
    BY <1>2, ReviewsIt DEF Sign, At, ReviewViews
  <2>2. CASE Goto(Home, ctl) \/ Fail
    BY <1>1, <2>2, ReviewEnds
  <2>3. CASE Back(ctl)
    BY <1>1, <2>1, <2>3, SameOf, GoesBack
  <2>4. CASE Goto(Finalize, ctl) \/ Goto(SigningError, ctl)
    <3>1. ctl.parser # NoParser =>
            Reviewed(Finalize, ctl.parser, seen) /\ Reviewed(SigningError, ctl.parser, seen)
      BY <2>1, CurReviewed, ViewOf DEF Reviewed, Finalize, SigningError
    <3> QED
      BY <1>1, <2>1, <2>4, <3>1, SameOf, ReviewDestinations, ReviewGoesOn
  <2>5. CASE Goto(SignedQR, [ctl EXCEPT !.psbt = local.psbt, !.byCard = FALSE])
    <3> DEFINE s == [ctl EXCEPT !.psbt = local.psbt, !.byCard = FALSE]
    <3>1. local.psbt \in Psbts \cup {NoPsbt}
      BY DEF ReviewInv, TypeOK
    <3>2. /\ s \in Attributes /\ s.psbt = local.psbt /\ s.parser = ctl.parser
          /\ s.time = ctl.time /\ s.byCard = FALSE
      BY <3>1, InvFacts DEF Attributes
    <3>3. Goto(SignedQR, s)
      BY <2>5
    <3> HIDE DEF s
    <3>4. Matched(s)
      BY <3>2 DEF Matched, ReviewInv, Belongs, Synced, Wiped, Consistent
    <3> QED
      BY <1>1, <2>1, <3>2, <3>3, <3>4, ReviewDestinations, RelyOnNothing, ReviewKeeps DEF Goto
  <2> QED
    BY <1>2, <2>2, <2>3, <2>4, <2>5 DEF Sign
<1>3. CASE ShowSigned
  <2>1. Home \in OtherViews
    BY DEF OtherViews
  <2> QED
    BY <1>1, <1>3, <2>1, SameOf, StartsOver DEF ShowSigned
<1>4. CASE SigningFailed
  <2>1. cur.view = "PSBTSigningErrorView"
    BY <1>4 DEF SigningFailed, At
  <2>2. Select \in LeadingViews
    BY DEF LeadingViews
  <2> QED
    BY <1>1, <1>4, <2>1, <2>2, SameOf, ReviewEnds, GoesBack, StartsOver DEF SigningFailed
<1> QED
  BY <1>2, <1>3, <1>4

-----------------------------------------------------------------------------
(* The inactivity wipe leaves what the view on screen took, and no history. *)
LEMMA AutoWipeKeeps == ASSUME ReviewInv, AutoWipe PROVE ReviewInv'
<1> DEFINE s == [NoTx(ctl) EXCEPT !.wallet = NoWallet, !.resume = FALSE]
<1>1. /\ s \in Attributes /\ s.psbt = NoPsbt /\ s.parser = NoParser /\ ~s.byCard /\ s.time = ctl.time
  BY InvFacts DEF NoTx, Attributes, Parsers
<1>2. /\ ctl' = s /\ loaded' = {} /\ hist' = << >> /\ cur' = cur /\ local' = local /\ seen' = seen
      /\ wipes' = wipes + 1 /\ wipes < MaxWipes
  BY DEF AutoWipe, Nav!Forget
<1> HIDE DEF s
<1>3. TypeOK'
  <2>1. wipes' \in 0..MaxWipes
    BY <1>2, ReadingAssumption DEF ReviewInv, TypeOK
  <2> QED
    BY <1>1, <1>2, <2>1 DEF ReviewInv, TypeOK, Nav!TypeOK
<1>4. Nav!EndsWithCurrent' /\ Nav!NoRepeats'
  BY <1>2 DEF Nav!EndsWithCurrent, Nav!NoRepeats
<1>5. Belongs'
  BY <1>1, <1>2 DEF ReviewInv, Belongs, Wiped, Consistent
<1>6. DOMAIN hist' = {}
  BY <1>2
<1>7. Ordered' /\ ByCard' /\ Shown'
  BY <1>1, <1>2, <1>6 DEF ReviewInv, Ordered, ByCard, Shown
<1> QED
  BY <1>3, <1>4, <1>5, <1>7 DEF ReviewInv

-----------------------------------------------------------------------------
LEMMA ReviewInit == Init => ReviewInv
<1> SUFFICES ASSUME Init PROVE ReviewInv
  OBVIOUS
<1>1. Fresh \in Attributes /\ Fresh.psbt = NoPsbt /\ Fresh.parser = NoParser /\ ~Fresh.byCard
  BY DEF Fresh, Attributes, Parsers
<1>2. DOMAIN hist = {} /\ hist \in Seq(Destinations) /\ Home.view = "MainMenuView"
  BY ViewOf DEF Init, Home
<1>3. TypeOK
  BY <1>1, <1>2, ReadingAssumption DEF Init, TypeOK, Nav!TypeOK, Parsers
<1>4. Nav!EndsWithCurrent /\ Nav!NoRepeats /\ Belongs /\ Ordered /\ ByCard /\ Shown
  BY <1>1, <1>2 DEF Init, Nav!EndsWithCurrent, Nav!NoRepeats, Belongs, Synced, Consistent, Ordered, ByCard, Shown
<1> QED
  BY <1>3, <1>4 DEF ReviewInv

LEMMA ReviewNext == ReviewInv /\ [Next]_vars => ReviewInv'
<1> SUFFICES ASSUME ReviewInv, [Next]_vars PROVE ReviewInv'
  OBVIOUS
<1>1. CASE Next
  BY <1>1, LoadKeeps, ChooseKeyKeeps, ReviewKeepsAll, SigningKeeps, AutoWipeKeeps DEF Next
<1>2. CASE UNCHANGED vars
  BY <1>2 DEF vars, ReviewInv, TypeOK, Nav!TypeOK, Nav!EndsWithCurrent, Nav!NoRepeats, Belongs, Synced, Wiped,
     Consistent, Ordered, ByCard, Shown, At, IsRefused
<1> QED
  BY <1>1, <1>2

LEMMA ReviewAlways == Spec => []ReviewInv
<1>1. Init => ReviewInv
  BY ReviewInit
<1>2. ReviewInv /\ [Next]_vars => ReviewInv'
  BY ReviewNext
<1> QED
  BY <1>1, <1>2, PTL DEF Spec

(* The Controller's attributes, the history and what the view on screen     *)
(* took from them have the types the views rely on, whatever way through    *)
(* the menus was taken and whenever the wipe struck.                        *)
THEOREM ReviewIsTyped == Spec => []TypeOK
<1>1. ReviewInv => TypeOK
  BY DEF ReviewInv
<1> QED
  BY <1>1, ReviewAlways, PTL

(* What is shown belongs to the transaction that would be signed, and so    *)
(* does the time it is measured against.                                    *)
THEOREM ReadsCurrent == Spec => []ReadingIsCurrent
<1>1. ReviewInv => ReadingIsCurrent
  BY DEF ReviewInv, Belongs, Consistent, ReadingIsCurrent
<1> QED
  BY <1>1, ReviewAlways, PTL

(* Where a step leads, and that no other view than that of the signed       *)
(* transaction has its name.                                                *)
LEMMA Leads ==
    ASSUME ReviewInv, cur # SignedQR
    PROVE  /\ \A d, skip, clear, s : Visit(d, skip, clear, s) => cur' = d
           /\ \A skip \in BOOLEAN : \A s : BackOver(skip, s) => cur' # SignedQR
<1>1. ASSUME NEW d, NEW skip, NEW clear, NEW s, Visit(d, skip, clear, s) PROVE cur' = d
  BY <1>1 DEF Visit, Nav!Visit, Nav!Enter
<1>2. ASSUME NEW skip \in BOOLEAN, NEW s, BackOver(skip, s) PROVE cur' # SignedQR
  <2>1. PICK n \in 0..Len(hist) :
          /\ Laws!Lands(Below(skip), n)
          /\ Below(skip) = Home \/ (n < Len(hist) /\ hist[n + 1] = Below(skip))
    BY <1>2, InvFacts, NavHasLaws, Laws!BackLands DEF AllViews, BackOver
  <2>2. cur' = Below(skip) /\ Home # SignedQR
    BY <2>1, ViewOf DEF Laws!Lands, Home, SignedQR
  <2>3. n < Len(hist) => n + 1 \in DOMAIN hist
    BY InvFacts
  <2> QED
    BY <2>1, <2>2, <2>3 DEF ReviewInv, Ordered
<1> QED
  BY <1>1, <1>2

LEMMA Unsigned ==
    /\ \A d \in LeadingViews \cup OtherViews : d # SignedQR
    /\ SignedQR \notin {IdentifyChange, RiskWarning, Unsupported, NoChange, Math, OpReturn, Finalize,
                      SigningError, LoadDescriptor, Descriptor, Plain("ScanView"),
                      Plain("ScanWalletDescriptorView")}
    /\ \A i : Address(i) # SignedQR /\ Change(i) # SignedQR /\ SeedOptions(i) # SignedQR
<1>1. /\ \A d \in LeadingViews : d # SignedQR
      /\ \A d \in OtherViews : d # SignedQR
  BY ViewOf DEF LeadingViews, OtherViews, SignedQR, Home, NotVerified, NotImplemented, Rejected,
     CannotSign, WrongType, InvalidQR, Error, Tools, LoadPsbt, Select, Overview, TypeKey, LoadSeed
<1>2. SignedQR \notin {IdentifyChange, RiskWarning, Unsupported, NoChange, Math, OpReturn, Finalize,
                      SigningError, LoadDescriptor, Descriptor, Plain("ScanView"),
                      Plain("ScanWalletDescriptorView")}
  BY ViewOf DEF SignedQR, IdentifyChange, RiskWarning, Unsupported, NoChange, Math, OpReturn, Finalize,
     SigningError, LoadDescriptor, Descriptor
<1>3. \A i : Address(i) # SignedQR /\ Change(i) # SignedQR /\ SeedOptions(i) # SignedQR
  BY ViewOf DEF SignedQR
<1> QED
  BY <1>1, <1>2, <1>3

LEMMA LoadDoesNotSign == ASSUME ReviewInv, Load, cur # SignedQR PROVE cur' # SignedQR
<1>1. CASE FromHome \/ FromTools \/ ReadPsbtFile
  BY <1>1, Leads, Unsigned DEF FromHome, FromTools, ReadPsbtFile, Goto, Forward, Back, LeadingViews
<1>2. CASE ScanPsbt \/ ScanKey \/ ScanDescriptor
  BY <1>2, Leads, Unsigned DEF ScanPsbt, ScanKey, ScanDescriptor, Restart, Forward, LeadingViews, OtherViews
<1>3. CASE ScanNothing \/ AfterError
  BY <1>3, Leads, Unsigned DEF ScanNothing, AfterError, Goto, Restart, Forward, OtherViews
<1> QED
  BY <1>1, <1>2, <1>3 DEF Load

LEMMA ChooseKeyDoesNotSign == ASSUME ReviewInv, ChooseKey, cur # SignedQR PROVE cur' # SignedQR
<1>1. CASE SelectKnown \/ SelectSeed \/ SelectOther \/ SelectNothing
  BY <1>1, Leads, Unsigned DEF SelectKnown, SelectSeed, SelectOther, SelectNothing, Declined, Fail, Goto, Restart,
     Back, LeadingViews, OtherViews
<1>2. CASE SelectCard
  BY <1>2, Leads, Unsigned DEF SelectCard, Refuses, Goto, Restart, Forward, LeadingViews, OtherViews
<1>3. CASE TypeWIF \/ FinishSeed \/ SeedMenu
  BY <1>3, Leads, Unsigned DEF TypeWIF, FinishSeed, SeedMenu, Goto, Restart, Forward, Back, LeadingViews, OtherViews
<1>4. CASE Refuse \/ AfterRefusal
  BY <1>4, Leads, Unsigned DEF Refuse, AfterRefusal, Refuses, Restart, Forward, LeadingViews, OtherViews
<1> QED
  BY <1>1, <1>2, <1>3, <1>4 DEF ChooseKey

LEMMA ReviewDoesNotSign == ASSUME ReviewInv, Review, cur # SignedQR PROVE cur' # SignedQR
<1>1. CASE ReviewOverview \/ ReviewUnidentified \/ ReviewRisks
  BY <1>1, Leads, Unsigned, PostOverviewIs DEF ReviewOverview, ReviewUnidentified, ReviewRisks, PostOverview,
     Goto, Forward, Back, OtherViews
<1>2. CASE ReviewWarning \/ ReviewMath \/ ReviewOpReturn
  BY <1>2, Leads, Unsigned DEF ReviewWarning, ReviewMath, ReviewOpReturn, Fail, Goto, Forward, Restart, Back, OtherViews
<1>3. CASE ReviewAddress \/ ReviewChange
  BY <1>3, Leads, Unsigned DEF ReviewAddress, ReviewChange, AfterAddresses, AfterChange, Fail, Goto, Forward,
     Restart, Back, OtherViews
<1>4. CASE Discard \/ GiveUp \/ ChooseDescriptor \/ UseDescriptor
  BY <1>4, Leads, Unsigned DEF Discard, GiveUp, ChooseDescriptor, UseDescriptor, Goto, Forward, Restart, Back,
     LeadingViews, OtherViews
<1> QED
  BY <1>1, <1>2, <1>3, <1>4 DEF Review

(* Only Sign leads to a signed transaction, from a view whose reading was   *)
(* shown: after an auto-wipe there is no key for the reading of a card, and *)
(* without one a reading is asked for.                                      *)
LEMMA SignsReviewed ==
    ASSUME ReviewInv, Next, cur' = SignedQR, cur # SignedQR
    PROVE  /\ local.parser # NoParser /\ local.parser.psbt = local.psbt
           /\ Read(local.parser) # Nothing
           /\ \A o \in Owed(local.parser) : <<o, local.parser>> \in seen
<1>1. Sign
  <2>1. CASE ShowSigned \/ SigningFailed
    BY <2>1, Leads, Unsigned DEF ShowSigned, SigningFailed, Goto, Restart, Back, LeadingViews, OtherViews
  <2>2. CASE AutoWipe
    BY <2>2 DEF AutoWipe, Nav!Forget
  <2> QED
    BY <2>1, <2>2, LoadDoesNotSign, ChooseKeyDoesNotSign, ReviewDoesNotSign DEF Next
<1>2. cur.view = "PSBTFinalizeView" /\ Reviews(cur)
  BY <1>1, ReviewsIt DEF Sign, At, ReviewViews
<1>3. ~(local.psbt = NoPsbt \/ (~ctl.byCard /\ local.parser = NoParser))
  BY <1>1, Leads, Unsigned DEF Sign, Goto, OtherViews
<1>4. local.parser # NoParser
  <2>1. CASE ctl.byCard
    <3>1. ctl.parser # NoParser
      BY <1>2, <2>1 DEF ReviewInv, ByCard
    <3> QED
      BY <3>1, CurReviewed
  <2> QED
    BY <1>3, <2>1
<1>5. local.parser.psbt = local.psbt
  BY <1>4 DEF ReviewInv, Belongs, Consistent
<1>6. Reviewed(cur, local.parser, seen)
  BY <1>4 DEF ReviewInv, Shown
<1>7. /\ SawBoth(seen, local.parser) /\ Read(local.parser) # Nothing
      /\ ShowsData(local.parser) => <<OpReturn, local.parser>> \in seen
  BY <1>2, <1>6 DEF Reviewed
<1>8. \A o \in Owed(local.parser) : <<o, local.parser>> \in seen
  BY <1>7 DEF Owed, Outputs, HasChange, SawBoth, SawAddresses, SawChange
<1> QED
  BY <1>4, <1>5, <1>7, <1>8

(* A signature is made only of a transaction of which every recipient,      *)
(* every change output with an amount and the payload that the parser kept  *)
(* were on screen, in a reading of that very transaction: whichever way led *)
(* to PSBTFinalizeView, with any keys, descriptors and readings, and        *)
(* wherever the wipe struck.                                                *)
THEOREM SignsWhatWasReviewed == Spec => SignedWasReviewed
<1>1. ReviewInv /\ [Next]_vars =>
        [cur' = SignedQR /\ cur # SignedQR =>
           /\ local.parser # NoParser /\ local.parser.psbt = local.psbt
           /\ Read(local.parser) # Nothing
           /\ \A o \in Owed(local.parser) : <<o, local.parser>> \in seen]_vars
  BY SignsReviewed
<1> QED
  BY <1>1, ReviewAlways, PTL DEF Spec, SignedWasReviewed

-----------------------------------------------------------------------------
(* The signature of a card *)

\* The values for "no input" and "no key" are neither.
NonesAssumption == NoIn \notin Ins /\ NoPub \notin Pubs

Typed ==
    /\ derivs \in [Ins -> SUBSET Pubs]
    /\ todo \subseteq Ins /\ now \in Ins \cup {NoIn} /\ now \notin todo
    /\ tries \subseteq Pubs /\ pub \in Pubs \cup {NoPub} /\ planned \in Nat /\ calls \in Seq(Answers)
    /\ sigs \subseteq Ins \X Pubs

\* Where the signer is in its loops.
InLoops ==
    /\ phase # "inputs" => todo = {} /\ now = NoIn
    /\ now = NoIn => pub = NoPub
    /\ pub # NoPub => planned >= 1
    /\ phase = "inputs" /\ pub = NoPub => planned = 0
    /\ phase = "before" => sigs = {}

Satochip == cardKind = "satochip"

\* Keys of the card that an input names.
Ours(i) == derivs[i] \cap own
Signed(i) == \E s \in sigs : s[1] = i

\* No input is signed that is still to do, none twice, and by a Satochip only
\* with a key of its own.
Signatures ==
    /\ \A s \in sigs : s[1] \notin todo /\ s[1] # now
    /\ \A s, t \in sigs : s[1] = t[1] => s = t
    /\ Satochip => \A s \in sigs : s[2] \in Ours(s[1])

\* The input at hand: its keys were tried, or are still to be.
AtHand ==
    Satochip /\ now # NoIn =>
        /\ tries \subseteq derivs[now]
        /\ pub # NoPub => pub \in Ours(now)
        /\ now \in refused \/ Ours(now) \subseteq tries \cup {pub}
        /\ now \in refused \/ pub = NoPub \/ \A n \in DOMAIN calls : calls[n] = "good"

\* The inputs before it.
Behind ==
    Satochip /\ phase \in {"inputs", "after", "signed"} =>
        \A i \in Ins \ (todo \cup {now}) : Ours(i) # {} /\ i \notin refused => Signed(i)

\* Repeated calls are of the key at hand.
CallsAtHand == phase = "inputs" /\ pub = NoPub => calls = << >> /\ call = "none"

SignerInv == Typed /\ InLoops /\ Signatures /\ AtHand /\ Behind /\ CallsAtHand

-----------------------------------------------------------------------------
LEMMA InitSigner == ASSUME NonesAssumption, SignerInit PROVE SignerInv
<1>1. calls = << >> /\ << >> \in Seq(Answers)
  BY DEF SignerInit, Idle
<1> QED
  BY <1>1 DEF SignerInit, Idle, NonesAssumption, SignerInv, Typed, InLoops, Signatures, AtHand, Behind, CallsAtHand

(* A step that leaves the inputs, their keys and their signatures alone.    *)
LEMMA ApproveKeeps == ASSUME NonesAssumption, SignerInv, Approve PROVE SignerInv'
BY DEF Approve, cardParams, NonesAssumption, SignerInv, Typed, InLoops, Signatures, AtHand, Behind,
       CallsAtHand, Satochip, Ours, Signed

LEMMA CallKeeps == ASSUME NonesAssumption, SignerInv, StartCall \/ TimeUp PROVE SignerInv'
<1>1. /\ UNCHANGED <<cardKind, derivs, own, phase, todo, now, tries, pub, planned, calls, sigs, refused>>
      /\ StartCall => calls # << >> \/ planned # 0
      /\ TimeUp => call = "running"
  BY DEF StartCall, TimeUp, cardParams, SignerInv, Typed
<1>2. Typed' /\ InLoops' /\ Signatures' /\ AtHand' /\ Behind'
  BY <1>1 DEF SignerInv, Typed, InLoops, Signatures, AtHand, Behind, Satochip, Ours, Signed
<1>3. CallsAtHand'
  BY <1>1 DEF SignerInv, InLoops, CallsAtHand
<1> QED
  BY <1>2, <1>3 DEF SignerInv

LEMMA AnswerKeeps == ASSUME NonesAssumption, SignerInv, CardAnswers PROVE SignerInv'
<1>1. /\ UNCHANGED <<cardKind, derivs, own, phase, todo, now, tries, pub, planned, sigs>>
      /\ call # "none"
  BY DEF CardAnswers, cardParams
<1>2. PICK a \in Answers :
        /\ calls' = Append(calls, a)
        /\ refused' = IF now # NoIn /\ a # "good" THEN refused \cup {now} ELSE refused
  BY DEF CardAnswers, Answers
<1>3. Typed'
  BY <1>1, <1>2 DEF SignerInv, Typed
<1>4. InLoops' /\ Signatures'
  BY <1>1 DEF SignerInv, InLoops, Signatures, Satochip, Ours
<1>5. Behind'
  BY <1>1, <1>2 DEF SignerInv, Behind, Satochip, Ours, Signed
<1>6. AtHand'
  <2>1. CASE now = NoIn
    BY <1>1, <2>1 DEF AtHand
  <2>2. CASE now # NoIn /\ a # "good"
    BY <1>1, <1>2, <2>2 DEF SignerInv, AtHand, Satochip, Ours
  <2>3. CASE a = "good"
    <3>1. \A n \in DOMAIN calls' : (n \in DOMAIN calls /\ calls'[n] = calls[n]) \/ calls'[n] = "good"
      BY <1>2, <2>3 DEF SignerInv, Typed
    <3> QED
      BY <1>1, <1>2, <2>3, <3>1 DEF SignerInv, AtHand, Satochip, Ours
  <2> QED
    BY <2>1, <2>2, <2>3
<1>7. CallsAtHand'
  BY <1>1 DEF SignerInv, CallsAtHand
<1> QED
  BY <1>3, <1>4, <1>5, <1>6, <1>7 DEF SignerInv

LEMMA StartInputsKeeps == ASSUME NonesAssumption, SignerInv, StartInputs PROVE SignerInv'
<1>1. /\ UNCHANGED <<cardKind, derivs, own, now, tries, pub, call, sigs, refused>>
      /\ phase = "before" /\ phase' = "inputs" /\ todo' = Ins
      /\ planned' = 0 /\ calls' = << >> /\ call = "none"
  BY DEF StartInputs, cardParams, AllAnswered
<1>2. now = NoIn /\ pub = NoPub /\ sigs = {}
  BY <1>1 DEF SignerInv, InLoops
<1> QED
  BY <1>1, <1>2 DEF NonesAssumption, SignerInv, Typed, InLoops, Signatures, AtHand, Behind, CallsAtHand,
     Satochip, Ours, Signed

LEMMA PickInputKeeps == ASSUME NonesAssumption, SignerInv, PickInput PROVE SignerInv'
<1>1. PICK i \in todo : now' = i /\ tries' = derivs[i] /\ todo' = todo \ {i}
  BY DEF PickInput
<1>2. /\ UNCHANGED <<cardKind, derivs, own, phase, pub, planned, calls, call, sigs, refused>>
      /\ phase = "inputs" /\ now = NoIn /\ i \in Ins
  BY DEF PickInput, cardParams, SignerInv, Typed
<1>3. pub = NoPub /\ i # NoIn
  BY <1>2 DEF SignerInv, InLoops, NonesAssumption
<1>4. Typed' /\ InLoops' /\ CallsAtHand'
  BY <1>1, <1>2, <1>3 DEF SignerInv, Typed, InLoops, CallsAtHand
<1>5. Signatures'
  BY <1>1, <1>2 DEF SignerInv, Signatures, Satochip, Ours
<1>7. AtHand'
  <2>1. now' = i /\ tries' = derivs'[now'] /\ pub' = NoPub
    BY <1>1, <1>2, <1>3
  <2> QED
    BY <2>1 DEF AtHand, Ours
<1>6. Behind'
  <2>1. \A j \in Ins \ (todo' \cup {now'}) : j \in Ins \ (todo \cup {now})
    BY <1>1, <1>2 DEF NonesAssumption
  <2> QED
    BY <1>2, <2>1 DEF SignerInv, Behind, Satochip, Ours, Signed
<1> QED
  BY <1>4, <1>5, <1>6, <1>7 DEF SignerInv

LEMMA TryKeyKeeps == ASSUME NonesAssumption, MaxExtra \in Nat, SignerInv, TryKey PROVE SignerInv'
<1>1. PICK p \in tries :
        /\ tries' = tries \ {p}
        /\ IF Usable(p) THEN pub' = p /\ planned' \in 1..(MaxExtra + 1)
           ELSE UNCHANGED <<pub, planned>>
  BY DEF TryKey
<1>2. /\ UNCHANGED <<cardKind, derivs, own, phase, todo, now, calls, call, sigs, refused>>
      /\ phase = "inputs" /\ now \in Ins /\ pub = NoPub /\ calls = << >>
  BY DEF TryKey, cardParams, SignerInv, Typed, CallsAtHand
<1>3. p \in Pubs /\ p # NoPub
  BY <1>1 DEF NonesAssumption, SignerInv, Typed
<1>4. UNCHANGED <<pub, planned>> \/ (pub' = p /\ planned' \in Nat /\ planned' >= 1)
  BY <1>1
<1>5. Typed' /\ InLoops'
  BY <1>1, <1>2, <1>3, <1>4 DEF NonesAssumption, SignerInv, Typed, InLoops
<1>6. Signatures' /\ Behind' /\ CallsAtHand'
  BY <1>2, <1>3, <1>4 DEF SignerInv, Signatures, Behind, CallsAtHand, Satochip, Ours, Signed
<1>7. AtHand'
  <2> SUFFICES ASSUME Satochip PROVE AtHand'
    BY <1>2 DEF AtHand, Satochip
  <2>1. IF p \in own THEN pub' = p ELSE pub' = NoPub
    BY <1>1, <1>2 DEF Usable, Satochip
  <2>2. tries \subseteq derivs[now] /\ (now \in refused \/ Ours(now) \subseteq tries \cup {NoPub})
    BY <1>2 DEF SignerInv, AtHand, NonesAssumption
  <2>3. NoPub \notin Ours(now)
    BY <1>2 DEF NonesAssumption, SignerInv, Typed, Ours
  <2>4. pub' # NoPub => pub' \in Ours(now)
    BY <1>1, <2>1, <2>2 DEF Ours
  <2>5. now \in refused \/ Ours(now) \subseteq tries' \cup {pub'}
    BY <1>1, <2>1, <2>2, <2>3 DEF Ours
  <2> QED
    BY <1>1, <1>2, <2>2, <2>4, <2>5 DEF AtHand, Ours
<1> QED
  BY <1>5, <1>6, <1>7 DEF SignerInv

LEMMA EndInputKeeps == ASSUME NonesAssumption, SignerInv, EndInput PROVE SignerInv'
<1>1. /\ UNCHANGED <<cardKind, derivs, own, phase, todo, tries, pub, planned, calls, call, sigs, refused>>
      /\ phase = "inputs" /\ now \in Ins /\ now' = NoIn /\ pub = NoPub /\ tries = {}
  BY DEF EndInput, cardParams, SignerInv, Typed
<1>2. Typed' /\ InLoops' /\ AtHand' /\ CallsAtHand'
  BY <1>1 DEF NonesAssumption, SignerInv, Typed, InLoops, AtHand, CallsAtHand
<1>3. Signatures'
  BY <1>1 DEF NonesAssumption, SignerInv, Typed, Signatures, Satochip, Ours
<1>4. Behind'
  <2>1. Satochip /\ now \notin refused => Ours(now) = {}
    BY <1>1 DEF NonesAssumption, SignerInv, Typed, AtHand, Ours
  <2> QED
    BY <1>1, <2>1 DEF SignerInv, Behind, Satochip, Ours, Signed
<1> QED
  BY <1>2, <1>3, <1>4 DEF SignerInv

(* When no call failed, a good signature is drawn.                          *)
LEMMA GoodIsDrawn ==
    ASSUME SignerInv, Choose, Satochip, now \notin refused
    PROVE  Drawn = {"good"}
<1>1. /\ planned >= 1 /\ Len(calls) = planned /\ pub # NoPub /\ now # NoIn
      /\ calls \in Seq(Answers) /\ \A n \in DOMAIN calls : calls[n] = "good"
  BY DEF Choose, AllAnswered, SignerInv, InLoops, AtHand, Typed
<1>2. 1 \in DOMAIN calls
  BY <1>1 DEF SignerInv, Typed
<1>3. {calls[n] : n \in DOMAIN calls} = {"good"}
  BY <1>1, <1>2
<1>4. {"good"} \ {"none"} = {"good"}
  OBVIOUS
<1> QED
  BY <1>3, <1>4 DEF Drawn

LEMMA ChooseKeeps == ASSUME NonesAssumption, SignerInv, Choose PROVE SignerInv'
<1>1. /\ UNCHANGED <<cardKind, derivs, own, phase, todo, call, refused>>
      /\ phase = "inputs" /\ now \in Ins /\ pub \in Pubs /\ call = "none"
      /\ pub' = NoPub /\ planned' = 0 /\ calls' = << >> /\ calls' \in Seq(Answers)
  BY DEF Choose, cardParams, AllAnswered, SignerInv, Typed, InLoops
<1>2. CASE sigs' = sigs \cup {<<now, pub>>} /\ now' = NoIn /\ tries' = {}
  <2>1. Typed' /\ InLoops' /\ AtHand' /\ CallsAtHand'
    BY <1>1, <1>2 DEF NonesAssumption, SignerInv, Typed, InLoops, AtHand, CallsAtHand
  <2>2. Signatures'
    <3>1. \A s \in sigs' : s \in sigs \/ (s[1] = now /\ s[2] = pub /\ s = <<now, pub>>)
      BY <1>2
    <3>2. \A s \in sigs : s[1] \in Ins /\ s[1] # now /\ s[1] \notin todo
      BY DEF SignerInv, Typed, Signatures
    <3>3. \A s \in sigs' : s[1] \notin todo' /\ s[1] # now'
      BY <1>1, <1>2, <3>1, <3>2 DEF SignerInv, Typed, NonesAssumption
    <3>4. \A s, t \in sigs' : s[1] = t[1] => s = t
      BY <3>1, <3>2 DEF SignerInv, Signatures
    <3>5. Satochip' => \A s \in sigs' : s[2] \in Ours(s[1])'
      <4>1. Satochip => pub \in Ours(now)
        BY <1>1 DEF SignerInv, AtHand, NonesAssumption
      <4>2. \A i : Ours(i)' = Ours(i)
        BY <1>1 DEF Ours
      <4>3. \A s \in sigs' : Satochip => s[2] \in Ours(s[1])
        BY <3>1, <4>1 DEF SignerInv, Signatures
      <4> QED
        BY <1>1, <4>2, <4>3 DEF Satochip, Ours
    <3> QED
      BY <3>3, <3>4, <3>5 DEF Signatures, Satochip, Ours
  <2>3. Behind'
    <3>1. \A i : Signed(i) => Signed(i)'
      BY <1>2 DEF Signed
    <3>2. \E s \in sigs' : s[1] = now
      <4>1. <<now, pub>> \in sigs' /\ <<now, pub>>[1] = now
        BY <1>2
      <4> QED
        BY <4>1
    <3>3. \A i \in Ins \ (todo' \cup {now'}) : i = now \/ i \in Ins \ (todo \cup {now})
      BY <1>1
    <3>4. \A i \in Ins \ (todo' \cup {now'}) :
             Satochip /\ Ours(i) # {} /\ i \notin refused => \E s \in sigs' : s[1] = i
      BY <1>1, <1>2, <3>1, <3>2, <3>3 DEF SignerInv, Behind, Signed
    <3> QED
      BY <1>1, <3>4 DEF Behind, Satochip, Ours, Signed
  <2> QED
    BY <2>1, <2>2, <2>3 DEF SignerInv
<1>3. CASE UNCHANGED <<sigs, now, tries>> /\ ~(Satochip /\ now \notin refused)
  <2>1. Typed' /\ InLoops' /\ CallsAtHand'
    BY <1>1, <1>3 DEF NonesAssumption, SignerInv, Typed, InLoops, CallsAtHand
  <2>2. Signatures' /\ Behind'
    BY <1>1, <1>3 DEF SignerInv, Signatures, Behind, Satochip, Ours, Signed
  <2>3. AtHand'
    BY <1>1, <1>3 DEF SignerInv, AtHand, Satochip, Ours
  <2> QED
    BY <2>1, <2>2, <2>3 DEF SignerInv
<1>4. \/ sigs' = sigs \cup {<<now, pub>>} /\ now' = NoIn /\ tries' = {}
      \/ UNCHANGED <<sigs, now, tries>> /\ ~(Satochip /\ now \notin refused)
  <2>1. PICK a \in Drawn : IF a = "good" THEN sigs' = sigs \cup {<<now, pub>>} /\ now' = NoIn /\ tries' = {}
                                       ELSE UNCHANGED <<sigs, now, tries>>
    BY DEF Choose
  <2>2. Satochip /\ now \notin refused => a = "good"
    BY <2>1, GoodIsDrawn
  <2> QED
    BY <2>1, <2>2
<1> QED
  BY <1>2, <1>3, <1>4

LEMMA PhasesKeep ==
    ASSUME NonesAssumption, MaxExtra \in Nat, SignerInv, StartAfter \/ Finish \/ Retry \/ CancelRetry
    PROVE  SignerInv'
<1>1. /\ UNCHANGED <<cardKind, derivs, own, todo, now, tries, pub, call, sigs, refused>>
      /\ todo = {} /\ now = NoIn /\ planned' \in Nat /\ calls' \in Seq(Answers)
      /\ phase' \notin {"inputs", "before"}
      /\ phase' \in {"after", "signed"} => phase \in {"inputs", "after"}
  <2>1. << >> \in Seq(Answers) /\ planned \in Nat /\ calls \in Seq(Answers)
    BY DEF SignerInv, Typed
  <2>2. CASE StartAfter
    BY <2>1, <2>2 DEF StartAfter, cardParams
  <2>3. CASE Finish
    BY <2>1, <2>3 DEF Finish, cardParams, SignerInv, InLoops
  <2>4. CASE Retry \/ CancelRetry
    BY <2>1, <2>4 DEF Retry, CancelRetry, cardParams, loopVars, SignerInv, InLoops
  <2> QED
    BY <2>2, <2>3, <2>4
<1>2. pub = NoPub
  BY <1>1 DEF SignerInv, InLoops
<1>3. Typed' /\ InLoops' /\ CallsAtHand' /\ AtHand'
  BY <1>1, <1>2 DEF SignerInv, Typed, InLoops, CallsAtHand, AtHand
<1>4. Signatures' /\ Behind'
  BY <1>1 DEF SignerInv, Signatures, Behind, Satochip, Ours, Signed
<1> QED
  BY <1>3, <1>4 DEF SignerInv

LEMMA NextPsbtKeeps == ASSUME NonesAssumption, SignerInv, NextPsbt PROVE SignerInv'
<1>1. /\ UNCHANGED <<cardKind, derivs, own, todo, now, tries, pub, planned, calls, call>>
      /\ phase # "inputs" /\ phase' = "review" /\ sigs' = {}
  BY DEF NextPsbt, loopVars
<1> QED
  BY <1>1 DEF SignerInv, Typed, InLoops, Signatures, AtHand, Behind, CallsAtHand

LEMMA NextSigner ==
    ASSUME NonesAssumption, MaxExtra \in Nat, SignerInv, [SignerNext]_signVars
    PROVE  SignerInv'
<1>1. CASE UNCHANGED signVars
  BY <1>1 DEF signVars, cardParams, loopVars, SignerInv, Typed, InLoops, Signatures, AtHand, Behind,
     CallsAtHand, Satochip, Ours, Signed
<1> QED
  BY <1>1, ApproveKeeps, CallKeeps, AnswerKeeps, StartInputsKeeps, PickInputKeeps, TryKeyKeeps,
     EndInputKeeps, ChooseKeeps, PhasesKeep, NextPsbtKeeps DEF SignerNext, Signer

-----------------------------------------------------------------------------
SignerAssumption == NonesAssumption /\ MaxExtra \in Nat

(* When sign_psbt is through, every input that names a key of a Satochip is  *)
(* signed with one, unless a call for it failed, and no input is signed     *)
(* twice, whichever of the repeated signatures is drawn.                    *)
THEOREM EveryInputIsSigned == SignerAssumption => (SignerSpec => []InputsAreSigned)
<1> SUFFICES ASSUME SignerAssumption PROVE SignerSpec => []InputsAreSigned
  OBVIOUS
<1>1. SignerInit => SignerInv
  BY InitSigner DEF SignerAssumption
<1>2. SignerInv /\ [SignerNext]_signVars => SignerInv'
  BY NextSigner DEF SignerAssumption
<1>3. SignerInv => InputsAreSigned
  <2> SUFFICES ASSUME SignerInv, phase \in {"after", "signed"}, NEW i \in Ins
               PROVE  /\ Cardinality({s \in sigs : s[1] = i}) <= 1
                      /\ Satochip => /\ \A s \in sigs : s[1] = i => s[2] \in Ours(i)
                                     /\ Ours(i) # {} /\ i \notin refused => Signed(i)
    BY DEF InputsAreSigned, Satochip, Ours, Signed
  <2>1. Cardinality({s \in sigs : s[1] = i}) <= 1
    <3>1. CASE Signed(i)
      <4>1. PICK t \in sigs : t[1] = i
        BY <3>1 DEF Signed
      <4>2. {s \in sigs : s[1] = i} = {t}
        BY <4>1 DEF SignerInv, Signatures
      <4> QED
        BY <4>2, FS_Singleton
    <3>2. CASE ~Signed(i)
      <4>1. {s \in sigs : s[1] = i} = {}
        BY <3>2 DEF Signed
      <4> QED
        BY <4>1, FS_EmptySet
    <3> QED
      BY <3>1, <3>2
  <2>2. i \in Ins \ (todo \cup {now})
    BY DEF SignerInv, InLoops, SignerAssumption, NonesAssumption
  <2> QED
    BY <2>1, <2>2 DEF SignerInv, Signatures, Behind
<1> QED
  BY <1>1, <1>2, <1>3, PTL DEF SignerSpec

-----------------------------------------------------------------------------
(* The least of any numbers and the greatest of finitely many are among them. *)
LEMMA LessIsWellFounded == IsWellFoundedOn({pair \in Nat \X Nat : pair[1] < pair[2]}, Nat)
BY NatLessThanWellFounded DEF OpToRel

LEMMA LeastIsMember ==
    ASSUME NEW S \in SUBSET Nat, S # {}
    PROVE  Min(S) \in S /\ \A y \in S : Min(S) <= y
<1> DEFINE less == {pair \in Nat \X Nat : pair[1] < pair[2]}
<1>1. \E x \in S : \A y \in S : ~ (<<y, x>> \in less)
  <2>1. IsWellFoundedOn(less, Nat)
    BY LessIsWellFounded
  <2> HIDE DEF less
  <2> QED
    BY <2>1, WFMin
<1>2. \E x \in S : \A y \in S : x <= y
  <2>1. \A x, y \in Nat : ~ (<<y, x>> \in less) => x <= y
    OBVIOUS
  <2> HIDE DEF less
  <2> QED
    BY <1>1, <2>1
<1> QED
  BY <1>2 DEF Min

LEMMA GreatestIsMember ==
    ASSUME NEW S \in SUBSET Int, IsFiniteSet(S), S # {}
    PROVE  Max(S) \in S /\ \A y \in S : Max(S) >= y
<1> DEFINE Above(x) == {y \in S : y > x}
           Counts == {Cardinality(Above(x)) : x \in S}
<1>1. \A x \in S : IsFiniteSet(Above(x)) /\ Cardinality(Above(x)) \in Nat
  <2> TAKE x \in S
  <2>1. Above(x) \in SUBSET S
    OBVIOUS
  <2> QED
    BY <2>1, FS_Subset, FS_CardinalityType
<1>2. Counts \in SUBSET Nat /\ Counts # {}
  BY <1>1
<1>3. PICK x \in S : \A y \in S : Cardinality(Above(x)) <= Cardinality(Above(y))
  <2>1. Min(Counts) \in Counts /\ \A y \in Counts : Min(Counts) <= y
    <3> HIDE DEF Counts
    <3> QED
      BY <1>2, LeastIsMember
  <2> QED
    BY <2>1
<1>4. \A y \in S : x >= y
  <2> SUFFICES ASSUME NEW y \in S, y > x PROVE FALSE
    OBVIOUS
  <2>1. Above(y) \in SUBSET Above(x) /\ y \in Above(x) /\ y \notin Above(y)
    <3>1. \A z \in S : z > y => z > x
      OBVIOUS
    <3>2. ~(y > y)
      OBVIOUS
    <3> QED
      BY <3>1, <3>2
  <2>2. IsFiniteSet(Above(x)) /\ Cardinality(Above(x)) \in Nat /\ Cardinality(Above(y)) \in Nat
    BY <1>1
  <2>3. Cardinality(Above(x)) <= Cardinality(Above(y))
    BY <1>3
  <2> HIDE DEF Above
  <2>4. Cardinality(Above(y)) <= Cardinality(Above(x)) /\ Cardinality(Above(y)) # Cardinality(Above(x))
    BY <2>1, <2>2, FS_Subset
  <2> QED
    BY <2>2, <2>3, <2>4
<1> QED
  BY <1>4 DEF Max

(* The elements of a sequence are finitely many.                            *)
LEMMA ElementsAreFinite ==
    ASSUME NEW s, IsSequence(s) PROVE IsFiniteSet(ToSet(s))
<1>1. DOMAIN s = 1..Len(s) /\ Len(s) \in Nat
  BY DEF IsSequence
<1>2. IsFiniteSet(DOMAIN s)
  BY <1>1, FS_Interval
<1>3. s \in Surjection(DOMAIN s, ToSet(s))
  BY DEF IsSequence, ToSet, Surjection
<1> QED
  BY <1>2, <1>3, FS_Surjection

-----------------------------------------------------------------------------
(* Paths *)

(* The last two steps of a path are behind its prefix.                      *)
LEMMA PrefixOf ==
    ASSUME NEW p \in Seq(Nat), Len(p) >= 2
    PROVE  /\ Prefix(p) \in Seq(Nat) /\ Len(Prefix(p)) = Len(p) - 2
           /\ \A i \in 1..(Len(p) - 2) : Prefix(p)[i] = p[i]
<1> DEFINE n == Len(p) - 2
<1>1. n \in Nat /\ \A i \in 1..n : p[i] \in Nat
  OBVIOUS
<1>2. /\ SubSeq(p, 1, n) \in Seq(Nat) /\ Len(SubSeq(p, 1, n)) = IF 1 <= n THEN n - 1 + 1 ELSE 0
      /\ \A i \in 1..(n - 1 + 1) : SubSeq(p, 1, n)[i] = p[1 + i - 1]
  <2> HIDE DEF n
  <2> QED
    BY <1>1, SubSeqProperties
<1>3. n - 1 + 1 = n /\ \A i \in 1..n : 1 + i - 1 = i
  BY <1>1
<1>4. Len(SubSeq(p, 1, n)) = n
  <2> HIDE DEF n
  <2> QED
    BY <1>1, <1>2
<1>5. \A i \in 1..n : SubSeq(p, 1, n)[i] = p[i]
  <2> HIDE DEF n
  <2> QED
    BY <1>2, <1>3
<1> QED
  BY <1>2, <1>4, <1>5 DEF Prefix

(* A path is the prefix of what lies two steps below it.                    *)
LEMMA PrefixIsAbove ==
    ASSUME NEW a \in Seq(Nat), NEW t \in Seq(Nat), Len(t) = 2
    PROVE  Prefix(a \o t) = a
<1> DEFINE q == a \o t
<1>1. /\ q \in Seq(Nat) /\ Len(q) = Len(a) + 2
      /\ \A i \in 1..(Len(a) + 2) : q[i] = IF i <= Len(a) THEN a[i] ELSE t[i - Len(a)]
  <2>1. /\ q \in Seq(Nat) /\ Len(q) = Len(a) + Len(t)
        /\ \A i \in 1..(Len(a) + Len(t)) : q[i] = IF i <= Len(a) THEN a[i] ELSE t[i - Len(a)]
    BY ConcatProperties
  <2> HIDE DEF q
  <2> QED
    BY <2>1
<1> HIDE DEF q
<1>2. Len(q) >= 2 /\ Len(q) - 2 = Len(a)
  BY <1>1
<1>3. /\ Prefix(q) \in Seq(Nat) /\ Len(Prefix(q)) = Len(q) - 2
      /\ \A i \in 1..(Len(q) - 2) : Prefix(q)[i] = q[i]
  BY <1>1, <1>2, PrefixOf
<1>4. \A i \in 1..Len(a) : i \in 1..(Len(a) + 2) /\ i <= Len(a)
  OBVIOUS
<1>5. \A i \in 1..Len(Prefix(q)) : Prefix(q)[i] = a[i]
  BY <1>1, <1>2, <1>3, <1>4
<1>6. Prefix(q) = a
  BY <1>2, <1>3, <1>5, SeqEqual
<1> QED
  BY <1>6 DEF q

(* A key that an extended key derives lies two steps below it.              *)
LEMMA DerivedLiesBelow ==
    ASSUME NEW x, NEW p \in Seq(Nat), x.at \in Seq(Nat), Len(p) >= 2
    PROVE  Derived(x, p).by = x.by /\ Prefix(Derived(x, p).at) = x.at
<1>1. \A i \in (Len(p) - 1)..Len(p) : p[i] \in Nat
  OBVIOUS
<1>2. SubSeq(p, Len(p) - 1, Len(p)) \in Seq(Nat) /\ Len(SubSeq(p, Len(p) - 1, Len(p))) = 2
  BY <1>1, SubSeqProperties
<1> QED
  BY <1>2, PrefixIsAbove DEF Derived

(* Under a path that begins with the root, the key of another path with the *)
(* same prefix is derived at that path or, where the prefix ends above the  *)
(* root, next to the first one.                                             *)
LEMMA NeighboursOf ==
    ASSUME NEW r \in Seq(Nat), NEW e \in Seq(Nat), NEW p \in Seq(Nat),
           IsPrefix(r, e), Len(e) >= 2, Len(p) >= 2, Prefix(p) = Prefix(e)
    PROVE  LET q == r \o SubSeq(p, Len(r) + 1, Len(p)) IN
           /\ q \in Seq(Nat) /\ Len(q) = Len(p) /\ Prefix(q) = Prefix(e)
           /\ Len(q) >= Len(r) + 2 => q = p
           /\ Len(q) > Len(r) => Index(q) = Index(p)
           /\ Len(q) = Len(r) => q = e
<1> DEFINE rest == SubSeq(p, Len(r) + 1, Len(p))
           q == r \o rest
<1>1. Len(p) = Len(e) /\ \A i \in 1..(Len(p) - 2) : p[i] = e[i]
  <2>1. /\ Len(Prefix(p)) = Len(p) - 2 /\ Len(Prefix(e)) = Len(e) - 2
        /\ \A i \in 1..(Len(p) - 2) : Prefix(p)[i] = p[i]
        /\ \A i \in 1..(Len(e) - 2) : Prefix(e)[i] = e[i]
    BY PrefixOf
  <2>2. Len(p) = Len(e)
    BY <2>1
  <2> QED
    BY <2>1, <2>2
<1>2. Len(r) <= Len(e) /\ \A i \in 1..Len(r) : r[i] = e[i]
  <2>1. Len(r) <= Len(e) /\ SubSeq(r, 1, Len(r)) = SubSeq(e, 1, Len(r))
    BY DEF IsPrefix
  <2>2. \A i \in 1..Len(r) : SubSeq(r, 1, Len(r))[i] = r[i] /\ SubSeq(e, 1, Len(r))[i] = e[i]
    BY <2>1, SubSeqProperties
  <2> QED
    BY <2>1, <2>2
<1>3. rest \in Seq(Nat) /\ Len(rest) = Len(p) - Len(r) /\ \A i \in 1..(Len(p) - Len(r)) : rest[i] = p[Len(r) + i]
  <2>1. \A i \in (Len(r) + 1)..Len(p) : p[i] \in Nat
    OBVIOUS
  <2> QED
    BY <1>1, <1>2, <2>1, SubSeqProperties
<1>4. /\ q \in Seq(Nat) /\ Len(q) = Len(p)
      /\ \A i \in 1..Len(p) : q[i] = IF i <= Len(r) THEN e[i] ELSE p[i]
  <2> HIDE DEF rest
  <2>1. /\ q \in Seq(Nat) /\ Len(q) = Len(r) + Len(rest)
        /\ \A i \in 1..(Len(r) + Len(rest)) : q[i] = IF i <= Len(r) THEN r[i] ELSE rest[i - Len(r)]
    BY <1>3, ConcatProperties
  <2> QED
    BY <1>1, <1>2, <1>3, <2>1
<1> HIDE DEF q
<1>5. Prefix(q) = Prefix(e)
  <2> DEFINE n == Len(p) - 2
  <2>1. Len(q) >= 2 /\ Len(q) - 2 = n /\ Len(e) - 2 = n /\ n \in Nat
    BY <1>1, <1>4
  <2>2. Prefix(q) \in Seq(Nat) /\ Len(Prefix(q)) = n /\ \A i \in 1..n : Prefix(q)[i] = q[i]
    BY <1>4, <2>1, PrefixOf
  <2>3. Prefix(e) \in Seq(Nat) /\ Len(Prefix(e)) = n /\ \A i \in 1..n : Prefix(e)[i] = e[i]
    BY <2>1, PrefixOf
  <2>4. \A i \in 1..n : i \in 1..Len(p) /\ p[i] = e[i]
    BY <1>1
  <2>5. \A i \in 1..n : q[i] = e[i]
    BY <1>4, <2>4
  <2> HIDE DEF n
  <2>6. \A i \in 1..Len(Prefix(q)) : Prefix(q)[i] = Prefix(e)[i]
    BY <2>2, <2>3, <2>5
  <2> QED
    BY <2>2, <2>3, <2>6, SeqEqual
<1>6. Len(q) >= Len(r) + 2 => q = p
  <2> SUFFICES ASSUME Len(q) >= Len(r) + 2 PROVE q = p
    OBVIOUS
  <2>1. \A i \in 1..Len(q) : q[i] = p[i]
    <3> TAKE i \in 1..Len(q)
    <3>1. i <= Len(r) => i \in 1..(Len(p) - 2)
      BY <1>4
    <3>2. i \in 1..Len(p)
      BY <1>4
    <3> QED
      BY <1>1, <1>4, <3>1, <3>2
  <2> QED
    BY <1>4, <2>1, SeqEqual
<1>7. Len(q) > Len(r) => Index(q) = Index(p)
  BY <1>4 DEF Index
<1>8. Len(q) = Len(r) => q = e
  <2> SUFFICES ASSUME Len(q) = Len(r) PROVE q = e
    OBVIOUS
  <2>1. \A i \in 1..Len(q) : q[i] = e[i]
    BY <1>4
  <2> QED
    BY <1>1, <1>4, <2>1, SeqEqual
<1> QED
  BY <1>4, <1>5, <1>6, <1>7, <1>8 DEF q

-----------------------------------------------------------------------------
(* What the invariant says *)

ParserTyped ==
    /\ IsTransaction(tx)
    /\ signKey \in {"seed", "account", "wif"} /\ descriptor \in MultisigWallets \cup {NoDescriptor}

\* The stages that read neither inputs nor outputs.
Before == {"version", "fill", "claims", "shapes", "scripts", "labels", "signable"}
Untouched ==
    stage \in Before =>
        policy = NoPolicy /\ prefixes = {} /\ maxIndex = -1 /\ scope = 1 /\ kinds = << >>

\* The policy is that of the first input.
PolicyRead ==
    /\ stage = "inputs" => /\ kinds = << >> /\ scope \in Nat \ {0}
                           /\ policy = IF scope = 1 THEN NoPolicy ELSE GetPolicy(tx.ins[1])
    /\ stage = "outputs" \/ kinds # << >> => 1 \in DOMAIN tx.ins /\ policy = GetPolicy(tx.ins[1])

\* Places of the wallet are those of keys that inputs spend.
AllEvidence == UNION {Evidence(s) : s \in ToSet(tx.ins)}
PlacesRead ==
    /\ maxIndex \in Nat \cup {-1}
    /\ maxIndex # -1 => \E c \in AllEvidence : maxIndex = Index(c.path)
    /\ \A p \in prefixes : \E c \in AllEvidence : Len(c.path) >= 2 /\ p = Prefix(c.path)
    /\ prefixes # {} => maxIndex # -1

\* The outputs that are read are those before the one at hand, and what is
\* shown as change has passed the checks.
Passed(s) == IsChange(s) /\ \A c \in ToSet(s.claims) : IsReachable(c.path) /\ ~IsTooFar(c.path)
OutputsRead ==
    /\ kinds \in Seq({"data", "change", "unidentified", "payment"})
    /\ stage = "outputs" => scope \in Nat /\ Len(kinds) = scope - 1
    /\ Len(kinds) <= Len(tx.outs)
    /\ \A j \in DOMAIN kinds : kinds[j] = "change" => Passed(tx.outs[j])

ParserInv == ParserTyped /\ Untouched /\ PolicyRead /\ PlacesRead /\ OutputsRead

-----------------------------------------------------------------------------
(* What is read belongs to the wallet *)

(* A claim that is evidence names a key of ours that an input spends.       *)
LEMMA EvidenceIsHeld ==
    ASSUME ParserTyped, NEW c \in AllEvidence
    PROVE  /\ c.path \in Seq(Nat) /\ c.path # << >> /\ HasTree /\ IsPrefix(rootPath, c.path)
           /\ c.key \in Held /\ c.key.at = c.path
<1>1. PICK s \in ToSet(tx.ins) : c \in Evidence(s)
  BY DEF AllEvidence
<1>2. c \in ToSet(s.claims) /\ HasTree /\ c.path # << >> /\ Owns(c) /\ Commits(s, c.key)
  BY <1>1 DEF Evidence
<1>3. IsPrefix(rootPath, c.path) /\ c.key = Own(c.path)
  BY <1>2 DEF Owns
<1>4. c.key.by = "us" /\ c.key.at = c.path
  BY <1>3 DEF Own
<1>5. c.path \in Seq(Nat)
  BY <1>1, <1>2 DEF ParserTyped, IsTransaction, IsScope
<1>6. Spent(c.key)
  BY <1>1, <1>2 DEF Spent
<1>7. c \in UNION {ToSet(t.claims) : t \in ToSet(tx.ins)}
  BY <1>1, <1>2
<1>8. c.key \in Held
  BY <1>4, <1>6, <1>7 DEF Held
<1> QED
  BY <1>2, <1>3, <1>4, <1>5, <1>8

(* The key at the path of a claim that passed is one that the wallet scans. *)
LEMMA PassedKeyIsScanned ==
    ASSUME ParserTyped, PlacesRead, HasTree, Account \in Seq(Nat), Lookahead \in Nat,
           NEW p \in Seq(Nat), IsReachable(p), ~IsTooFar(p)
    PROVE  ScansKey(Own(rootPath \o SubSeq(p, Len(rootPath) + 1, Len(p))))
<1> DEFINE q == rootPath \o SubSeq(p, Len(rootPath) + 1, Len(p))
<1>1. Len(p) >= 2 /\ Branch(p) \in {0, 1} /\ Prefix(p) \in prefixes
  BY DEF IsReachable
<1>2. PICK e \in AllEvidence : Len(e.path) >= 2 /\ Prefix(p) = Prefix(e.path)
  BY <1>1 DEF PlacesRead
<1>3. rootPath \in Seq(Nat)
  BY DEF rootPath
<1>4. /\ e.path \in Seq(Nat) /\ IsPrefix(rootPath, e.path)
      /\ e.key \in Held /\ e.key.at = e.path
  BY EvidenceIsHeld
<1>5. /\ q \in Seq(Nat) /\ Len(q) = Len(p) /\ Prefix(q) = Prefix(e.path)
      /\ Len(q) >= Len(rootPath) + 2 => q = p
      /\ Len(q) > Len(rootPath) => Index(q) = Index(p)
      /\ Len(q) = Len(rootPath) => q = e.path
  BY <1>1, <1>2, <1>3, <1>4, NeighboursOf
<1>6. Len(rootPath) <= Len(e.path) /\ Len(e.path) = Len(p)
  <2>1. Len(Prefix(p)) = Len(p) - 2 /\ Len(Prefix(e.path)) = Len(e.path) - 2
    BY <1>1, <1>2, <1>4, PrefixOf
  <2> QED
    BY <1>2, <1>4, <2>1 DEF IsPrefix
<1> HIDE DEF q
<1>7. Lookahead > 0 => \E h \in Held : Index(q) <= Index(h.at) + Lookahead
  <2> SUFFICES ASSUME Lookahead > 0 PROVE \E h \in Held : Index(q) <= Index(h.at) + Lookahead
    OBVIOUS
  <2>1. CASE Len(q) = Len(rootPath)
    <3>1. q = e.key.at /\ Index(q) \in Nat
      BY <1>1, <1>4, <1>5, <2>1 DEF Index
    <3> QED
      BY <1>4, <3>1
  <2>2. CASE Len(q) > Len(rootPath)
    <3>1. maxIndex # -1 /\ maxIndex \in Nat
      BY <1>1 DEF PlacesRead
    <3>2. PICK c \in AllEvidence : maxIndex = Index(c.path)
      BY <3>1 DEF PlacesRead
    <3>3. c.key \in Held /\ maxIndex = Index(c.key.at)
      BY <3>2, EvidenceIsHeld
    <3>4. p # << >> /\ Index(p) \in Nat
      BY <1>1 DEF Index
    <3>5. ~(Index(p) > maxIndex + Lookahead)
      BY <3>1, <3>4 DEF IsTooFar
    <3>6. Index(p) <= maxIndex + Lookahead
      BY <3>1, <3>4, <3>5
    <3> QED
      BY <1>5, <2>2, <3>3, <3>6
  <2> QED
    BY <1>3, <1>5, <1>6, <2>1, <2>2
<1>8. ScansKey(Own(q))
  <2>1. Own(q).by = "us" /\ Own(q).at = q
    BY DEF Own
  <2>2. Len(q) >= 2 /\ (Len(q) >= Len(rootPath) + 2 => Branch(q) \in {0, 1})
    BY <1>1, <1>5
  <2>3. \E h \in Held : Prefix(h.at) = Prefix(q)
    BY <1>4, <1>5
  <2> QED
    BY <1>7, <2>1, <2>2, <2>3 DEF ScansKey
<1> QED
  BY <1>8 DEF q

SingleTypes == {"p2pkh", "p2wpkh", "p2sh-p2wpkh", "p2tr"}

(* A policy has cosigners only if it is that of a multisig script, and then *)
(* they are the cosigners of that script.                                   *)
LEMMA PolicyOfMultisig ==
    ASSUME ParserTyped, NEW s, IsScope(s), GetPolicy(s).total # 0
    PROVE  /\ IsMulti(ScriptOf(s)) /\ ScriptOf(s).of.need = GetPolicy(s).need
           /\ GetPolicy(s).type \in {"p2wsh", "p2sh-p2wsh", "p2sh"}
           /\ s.pays.type = "p2wsh" => GetPolicy(s).type = "p2wsh" /\ ScriptOf(s) = s.witness
           /\ GetPolicy(s).cosigners # {} =>
                CosignersOf(ScriptOf(s)) = {[by |-> y[1].by, at |-> y[1].at] : y \in GetPolicy(s).cosigners}
<1> DEFINE type == IF s.pays.type \in Nonstandard THEN "none"
                   ELSE IF s.pays.type # "p2sh" THEN s.pays.type
                   ELSE IF s.witness # NoScript THEN "p2sh-p2wsh"
                   ELSE IF s.redeem # NoScript /\ s.redeem.type = "p2wpkh" THEN "p2sh-p2wpkh" ELSE "p2sh"
           inner == IF type \in {"p2wsh", "p2sh-p2wsh"} THEN s.witness
                    ELSE IF type = "p2sh" THEN s.redeem ELSE NoScript
           keys == KeysIn(inner)
           of == [k \in keys |-> CHOOSE x \in XpubsOf(s, k) : TRUE]
           counts == {<<x, Cardinality({k \in keys : of[k] = x})>> : x \in {of[k] : k \in keys}}
<1>1. GetPolicy(s) = IF ~IsMulti(inner) THEN [type |-> type, need |-> 0, total |-> 0, cosigners |-> {}]
                     ELSE [type |-> type, need |-> inner.of.need, total |-> Cardinality(keys),
                           cosigners |-> IF \E k \in keys : XpubsOf(s, k) = {} THEN {} ELSE counts]
  BY DEF GetPolicy
<1>2. IsMulti(inner) /\ inner # NoScript
  <2> HIDE DEF inner, keys, type, counts
  <2>1. IsMulti(inner)
    BY <1>1
  <2> QED
    BY <2>1 DEF IsMulti
<1>3. /\ GetPolicy(s).type = type /\ GetPolicy(s).need = inner.of.need
      /\ GetPolicy(s).cosigners = IF \E k \in keys : XpubsOf(s, k) = {} THEN {} ELSE counts
  <2> HIDE DEF inner, keys, type, counts
  <2> QED
    BY <1>1, <1>2
<1>4. /\ type \in {"p2wsh", "p2sh-p2wsh", "p2sh"}
      /\ s.pays.type = "p2wsh" => type = "p2wsh" /\ inner = s.witness
      /\ ScriptOf(s) = inner
  BY <1>2 DEF ScriptOf, Nonstandard
<1>5. GetPolicy(s).cosigners # {} =>
        CosignersOf(inner) = {[by |-> y[1].by, at |-> y[1].at] : y \in GetPolicy(s).cosigners}
  <2> HIDE DEF inner, type
  <2> SUFFICES ASSUME GetPolicy(s).cosigners # {}
               PROVE  CosignersOf(inner) = {[by |-> y[1].by, at |-> y[1].at] : y \in GetPolicy(s).cosigners}
    OBVIOUS
  <2>1. GetPolicy(s).cosigners = counts /\ \A k \in keys : XpubsOf(s, k) # {}
    <3> HIDE DEF keys, counts
    <3> QED
      BY <1>3
  <2>2. \A k \in keys : k.by = of[k].by /\ Prefix(k.at) = of[k].at
    <3> TAKE k \in keys
    <3>1. of[k] \in XpubsOf(s, k)
      BY <2>1
    <3>2. PICK c \in Ecdsa(s) : Len(c.path) >= 2 /\ Derived(of[k], c.path) = k
      BY <3>1 DEF XpubsOf
    <3>3. of[k].at \in Seq(Nat) /\ c.path \in Seq(Nat)
      BY <3>1, <3>2 DEF XpubsOf, Ecdsa, ParserTyped, IsTransaction, IsScope
    <3> HIDE DEF of, keys
    <3> QED
      BY <3>2, <3>3, DerivedLiesBelow
  <2>3. CosignersOf(inner) = {[by |-> of[k].by, at |-> of[k].at] : k \in keys}
    <3> HIDE DEF of
    <3> QED
      BY <2>2 DEF CosignersOf
  <2>4. {[by |-> y[1].by, at |-> y[1].at] : y \in counts} = {[by |-> of[k].by, at |-> of[k].at] : k \in keys}
    <3> DEFINE count(x) == Cardinality({k \in keys : of[k] = x})
    <3>1. counts = {<<x, count(x)>> : x \in {of[k] : k \in keys}}
      OBVIOUS
    <3> HIDE DEF of, keys, counts, count
    <3>2. \A y \in counts : \E k \in keys : y[1] = of[k]
      BY <3>1
    <3>3. \A k \in keys : \E y \in counts : y[1] = of[k]
      <4> TAKE k \in keys
      <4>1. <<of[k], count(of[k])>> \in counts
        BY <3>1
      <4> QED
        BY <4>1
    <3> QED
      BY <3>2, <3>3
  <2> HIDE DEF of, keys, counts
  <2> QED
    BY <2>1, <2>3, <2>4
<1> HIDE DEF type, inner, keys, counts
<1>6. GetPolicy(s).type = type /\ GetPolicy(s).need = inner.of.need
  BY <1>3
<1> QED
  BY <1>2, <1>4, <1>5, <1>6

(* A policy of one key counts none.                                         *)
LEMMA PolicyOfOne ==
    ASSUME NEW s, GetPolicy(s).type \in SingleTypes
    PROVE  GetPolicy(s).total = 0
BY DEF GetPolicy, SingleTypes, IsMulti

(* Only the claim of an input or an output says where its key is.           *)
LEMMA FirstClaim ==
    ASSUME NEW s, IsScope(s), NEW S \in SUBSET ToSet(s.claims), S # {}
    PROVE  s.claims[Min({j \in DOMAIN s.claims : s.claims[j] \in S})] \in S
<1> DEFINE js == {j \in DOMAIN s.claims : s.claims[j] \in S}
<1>1. js \in SUBSET Nat /\ js # {}
  BY DEF IsScope, IsSequence, ToSet
<1>2. Min(js) \in js
  <2> HIDE DEF js
  <2> QED
    BY <1>1, LeastIsMember
<1> QED
  BY <1>2

(* What passed as change of a wallet with one key pays a key that it scans. *)
LEMMA SingleChangeIsOurs ==
    ASSUME ParserTyped, PlacesRead, Account \in Seq(Nat), Lookahead \in Nat,
           NEW s, IsScope(s), Passed(s), policy.type \in SingleTypes
    PROVE  ScansKey(KeyPaid(s))
<1> DEFINE PathIn(S) == s.claims[Min({j \in DOMAIN s.claims : s.claims[j] \in S})].path
           key(S) == Own(rootPath \o SubSeq(PathIn(S), Len(rootPath) + 1, Len(PathIn(S))))
<1>1. Rederived(s) = s.pays /\ s.pays # NoScript
  BY DEF Passed, IsChange, LooksLikeChange, IsScope
<1>2. \/ /\ HasTree /\ Ecdsa(s) # {} /\ policy.type \in {"p2pkh", "p2wpkh", "p2sh-p2wpkh"}
         /\ s.pays = IF policy.type = "p2pkh" THEN P2pkh(key(Ecdsa(s)))
                     ELSE IF policy.type = "p2wpkh" THEN P2wpkh(key(Ecdsa(s)))
                     ELSE P2sh(P2wpkh(key(Ecdsa(s))))
      \/ HasTree /\ Taproot(s) # {} /\ s.pays = P2tr(key(Taproot(s)))
  <2>1. CASE policy.type = "p2tr"
    BY <1>1, <2>1 DEF Rederived
  <2>2. CASE policy.type \in {"p2pkh", "p2wpkh", "p2sh-p2wpkh"}
    BY <1>1, <2>2 DEF Rederived
  <2> QED
    BY <2>1, <2>2 DEF SingleTypes
<1>3. PICK S \in SUBSET ToSet(s.claims) : HasTree /\ S # {} /\ KeyPaid(s) = key(S)
  <2> HIDE DEF key
  <2>1. Ecdsa(s) \in SUBSET ToSet(s.claims) /\ Taproot(s) \in SUBSET ToSet(s.claims)
    BY DEF Ecdsa, Taproot
  <2>2. \A k : KeyPaid(s) = k <=> k = IF s.pays.type = "p2sh" THEN s.pays.of.of ELSE s.pays.of
    BY DEF KeyPaid
  <2>3. \A k : /\ s.pays \in {P2pkh(k), P2wpkh(k), P2tr(k)} => s.pays.type # "p2sh" /\ s.pays.of = k
               /\ s.pays = P2sh(P2wpkh(k)) => s.pays.type = "p2sh" /\ s.pays.of.of = k
    BY DEF P2pkh, P2wpkh, P2tr, P2sh
  <2>4. KeyPaid(s) = key(Ecdsa(s)) \/ KeyPaid(s) = key(Taproot(s))
    BY <1>2, <2>2, <2>3
  <2>5. CASE HasTree /\ Ecdsa(s) # {} /\ KeyPaid(s) = key(Ecdsa(s))
    BY <2>1, <2>5
  <2>6. CASE HasTree /\ Taproot(s) # {} /\ KeyPaid(s) = key(Taproot(s))
    BY <2>1, <2>6
  <2> QED
    BY <1>2, <2>2, <2>3, <2>5, <2>6
<1>4. s.claims[Min({j \in DOMAIN s.claims : s.claims[j] \in S})] \in ToSet(s.claims)
  BY <1>3, FirstClaim
<1>5. PathIn(S) \in Seq(Nat) /\ IsReachable(PathIn(S)) /\ ~IsTooFar(PathIn(S))
  BY <1>4 DEF IsScope, Passed
<1> HIDE DEF At
<1> QED
  BY <1>3, <1>5, PassedKeyIsScanned

(* What passed as change of a multisig wallet pays the cosigners of the      *)
(* first input or of the descriptor.                                        *)
LEMMA MultisigChangeIsOurs ==
    ASSUME ParserTyped, \A w \in MultisigWallets : \A x \in w.cosigners : x.at \in Seq(Nat),
           NEW s, IsScope(s), Passed(s), policy.total > 0,
           IsScope(tx.ins[1]), policy = GetPolicy(tx.ins[1])
    PROVE  \/ /\ CosignersOf(ScriptOf(s)) = CosignersOf(ScriptOf(tx.ins[1]))
              /\ ScriptOf(s).of.need = ScriptOf(tx.ins[1]).of.need
           \/ descriptor # NoDescriptor /\ IsWalletScript(ScriptOf(s), descriptor)
<1>1. GetPolicy(s) = policy /\ Rederived(s) = s.pays /\ IsIdentified(s)
  BY DEF Passed, IsChange, LooksLikeChange
<1>2. policy.total # 0
  OBVIOUS
<1>3. CASE policy.cosigners # {}
  <2>1. /\ ScriptOf(s).of.need = policy.need
        /\ CosignersOf(ScriptOf(s)) = {[by |-> y[1].by, at |-> y[1].at] : y \in policy.cosigners}
    BY <1>1, <1>2, <1>3, PolicyOfMultisig
  <2>2. /\ ScriptOf(tx.ins[1]).of.need = policy.need
        /\ CosignersOf(ScriptOf(tx.ins[1])) = {[by |-> y[1].by, at |-> y[1].at] : y \in policy.cosigners}
    BY <1>2, <1>3, PolicyOfMultisig
  <2> QED
    BY <2>1, <2>2
<1>4. CASE policy.cosigners = {}
  <2>1. descriptor # NoDescriptor /\ DescriptorOwns(descriptor, s)
    BY <1>1, <1>4 DEF IsIdentified, NeedsDescriptor, IsMultisig
  <2>2. IsMulti(ScriptOf(s)) /\ (s.pays.type = "p2wsh" => policy.type = "p2wsh" /\ ScriptOf(s) = s.witness)
    BY <1>1, <1>2, PolicyOfMultisig
  <2> DEFINE w == descriptor
             paid(c) == [type |-> "multi",
                         of |-> [need |-> w.need, keys |-> {Derived(x, c.path) : x \in w.cosigners}]]
  <2>3. PICK c \in Ecdsa(s) : /\ Len(c.path) >= 2 /\ s.pays.type = "p2wsh" /\ P2wsh(paid(c)) = s.pays
    BY <2>1 DEF DescriptorOwns
  <2>4. P2wsh(s.witness) = s.pays
    <3>1. policy.type = "p2wsh"
      BY <2>2, <2>3
    <3> QED
      BY <1>1, <3>1 DEF Rederived
  <2>5. ScriptOf(s) = paid(c)
    <3> HIDE DEF paid
    <3> QED
      BY <2>2, <2>3, <2>4 DEF P2wsh
  <2>6. \A x \in w.cosigners : Derived(x, c.path).by = x.by /\ Prefix(Derived(x, c.path).at) = x.at
    <3>1. w \in MultisigWallets /\ c.path \in Seq(Nat)
      BY <2>1, <2>3 DEF ParserTyped, IsScope, Ecdsa
    <3> QED
      BY <2>3, <3>1, DerivedLiesBelow
  <2>7. KeysIn(ScriptOf(s)) = {Derived(x, c.path) : x \in w.cosigners} /\ ScriptOf(s).of.need = w.need
    BY <2>2, <2>5 DEF KeysIn, IsMulti
  <2>8. CosignersOf(ScriptOf(s)) = {[by |-> x.by, at |-> x.at] : x \in w.cosigners}
    BY <2>6, <2>7 DEF CosignersOf
  <2> QED
    BY <2>1, <2>2, <2>7, <2>8 DEF IsWalletScript
<1> QED
  BY <1>3, <1>4

-----------------------------------------------------------------------------
(* The checks *)

(* No check fails when the first that fails is none.                        *)
LEMMA FirstIsOk ==
    ASSUME NEW codes, DOMAIN codes \in SUBSET Nat, First(codes) = "ok"
    PROVE  \A j \in DOMAIN codes : codes[j] = "ok"
<1> DEFINE bad == {j \in DOMAIN codes : codes[j] # "ok"}
<1>1. bad # {} => Min(bad) \in bad
  BY LeastIsMember
<1>2. First(codes) = IF bad = {} THEN "ok" ELSE codes[Min(bad)]
  BY DEF First
<1>3. bad = {}
  BY <1>1, <1>2
<1> QED
  BY <1>3

(* An output that is read and that is change has passed.                    *)
LEMMA ReadIsPassed ==
    ASSUME NEW s, OutputCode(s) = "ok", IsChange(s)
    PROVE  Passed(s)
<1> DEFINE unreachable == \E c \in ToSet(s.claims) : ~IsReachable(c.path)
           tooFar == \E c \in ToSet(s.claims) : IsTooFar(c.path)
           codes == <<Code(~InRange(s.value), "AMOUNT_OUT_OF_RANGE"), Code(Crashes(s), "crash"),
                      Code(IsChange(s) /\ unreachable, "UNREACHABLE_CHANGE_PATH"),
                      Code(IsChange(s) /\ tooFar, "CHANGE_INDEX_TOO_FAR"),
                      Code(s.pays.type = "data" /\ s.value > 0, "NONZERO_OP_RETURN"),
                      Code(~IsChange(s) /\ s.pays.type \in Nonstandard \ {"data"}, "UNDISPLAYABLE_OUTPUT")>>
<1>1. First(codes) = "ok"
  BY DEF OutputCode
<1> HIDE DEF unreachable, tooFar
<1>2. DOMAIN codes = 1..6 /\ codes[3] = Code(IsChange(s) /\ unreachable, "UNREACHABLE_CHANGE_PATH")
      /\ codes[4] = Code(IsChange(s) /\ tooFar, "CHANGE_INDEX_TOO_FAR")
  OBVIOUS
<1> HIDE DEF codes
<1>3. codes[3] = "ok" /\ codes[4] = "ok"
  BY <1>1, <1>2, FirstIsOk
<1>4. ~unreachable /\ ~tooFar
  BY <1>2, <1>3 DEF Code
<1> QED
  BY <1>4 DEF Passed, unreachable, tooFar

-----------------------------------------------------------------------------
(* Transactions keep their type when fingerprints are filled in *)

LEMMA MapIsSequence ==
    ASSUME NEW s, IsSequence(s), NEW f, f = [j \in DOMAIN s |-> f[j]]
    PROVE  IsSequence(f)
<1>1. DOMAIN f = 1..Len(s) /\ Len(s) \in Nat
  BY DEF IsSequence
<1>2. \A j \in 1..Len(s) : f[j] \in ToSet(f)
  BY <1>1 DEF ToSet
<1> QED
  BY <1>1, <1>2 DEF IsSequence

LEMMA FilledIsScope ==
    ASSUME NEW s, IsScope(s), "claims" \in DOMAIN s
    PROVE  IsScope(Filled(s)) /\ DOMAIN Filled(s) = DOMAIN s
<1> DEFINE fill(c) == IF c.fp = "zero" /\ Owns(c) THEN [c EXCEPT !.fp = "us"] ELSE c
           claims == [j \in DOMAIN s.claims |-> fill(s.claims[j])]
<1>1. Filled(s) = [s EXCEPT !.claims = claims]
  BY DEF Filled
<1>2. \A c \in ToSet(s.claims) :
        DOMAIN fill(c) = {"key", "fp", "path", "form"} /\ fill(c).path \in Seq(Nat)
  BY DEF IsScope
<1> HIDE DEF fill
<1>3. IsSequence(claims)
  BY MapIsSequence DEF IsScope
<1>4. \A d \in ToSet(claims) : \E c \in ToSet(s.claims) : d = fill(c)
  BY DEF ToSet
<1> HIDE DEF claims
<1>5. DOMAIN Filled(s) = DOMAIN s /\ Filled(s).claims = claims /\ Filled(s).pays = s.pays
  BY <1>1
<1> QED
  BY <1>2, <1>3, <1>4, <1>5 DEF IsScope

LEMMA FilledScopes ==
    ASSUME NEW scopes, IsSequence(scopes), NEW fields, "claims" \in fields,
           \A s \in ToSet(scopes) : IsScope(s) /\ DOMAIN s = fields
    PROVE  /\ IsSequence(FilledAll(scopes))
           /\ \A s \in ToSet(FilledAll(scopes)) : IsScope(s) /\ DOMAIN s = fields
<1>1. IsSequence(FilledAll(scopes))
  BY MapIsSequence DEF FilledAll
<1>2. \A t \in ToSet(FilledAll(scopes)) : \E s \in ToSet(scopes) : t = Filled(s)
  BY DEF FilledAll, ToSet
<1> QED
  BY <1>1, <1>2, FilledIsScope

LEMMA FilledTransaction ==
    ASSUME ParserTyped, FillMissingFingerprints
    PROVE  IsTransaction(tx')
<1>1. CASE ~HasTree
  BY <1>1 DEF FillMissingFingerprints, ParserTyped
<1>2. CASE HasTree
  <2>1. tx' = [tx EXCEPT !.ins = FilledAll(tx.ins), !.outs = FilledAll(tx.outs)]
    BY <1>2 DEF FillMissingFingerprints
  <2>2. DOMAIN tx' = DOMAIN tx /\ tx'.ins = FilledAll(tx.ins) /\ tx'.outs = FilledAll(tx.outs)
        /\ tx'.xpubs = tx.xpubs
    BY <2>1 DEF ParserTyped, IsTransaction
  <2>3. /\ IsSequence(FilledAll(tx.ins))
        /\ \A s \in ToSet(FilledAll(tx.ins)) : IsScope(s) /\ DOMAIN s = InputFields
    BY FilledScopes DEF ParserTyped, IsTransaction, InputFields, OutputFields
  <2>4. /\ IsSequence(FilledAll(tx.outs))
        /\ \A s \in ToSet(FilledAll(tx.outs)) : IsScope(s) /\ DOMAIN s = OutputFields
    BY FilledScopes DEF ParserTyped, IsTransaction, OutputFields
  <2> QED
    BY <2>2, <2>3, <2>4 DEF ParserTyped, IsTransaction
<1> QED
  BY <1>1, <1>2

-----------------------------------------------------------------------------
(* The steps *)

LEMMA InitParser == ASSUME TransactionsAssumption, ParserInit PROVE ParserInv
<1>1. << >> \in Seq({"data", "change", "unidentified", "payment"})
  OBVIOUS
<1>2. IsTransaction(tx)
  BY DEF ParserInit, TransactionsAssumption
<1>3. Len(tx.outs) \in Nat
  BY <1>2 DEF IsTransaction, IsSequence
<1> QED
  BY <1>1, <1>2, <1>3 DEF ParserInit, ParserInv, ParserTyped, Untouched, Before, PolicyRead, PlacesRead, OutputsRead

(* A check before the inputs are read.                                      *)
LEMMA EarlyKeeps ==
    ASSUME ParserInv, stage \in Before, stage' \in Before \cup {"inputs", "refused"},
           IsTransaction(tx'), UNCHANGED <<signKey, descriptor, read>>
    PROVE  ParserInv'
<1>1. policy' = NoPolicy /\ prefixes' = {} /\ maxIndex' = -1 /\ scope' = 1 /\ kinds' = << >>
  BY DEF ParserInv, Untouched, read
<1>2. stage' # "outputs" /\ NoPolicy' = NoPolicy
  BY DEF Before, NoPolicy
<1>3. ParserTyped' /\ Untouched' /\ PlacesRead'
  BY <1>1, <1>2 DEF ParserInv, ParserTyped, Untouched, PlacesRead
<1>4. PolicyRead'
  BY <1>1, <1>2 DEF PolicyRead
<1>5. OutputsRead'
  <2>1. Len(tx'.outs) \in Nat
    BY DEF IsTransaction, IsSequence
  <2> QED
    BY <1>1, <1>2, <2>1 DEF OutputsRead
<1> QED
  BY <1>3, <1>4, <1>5 DEF ParserInv

(* What is known of a transaction hangs on it, the key and what was read.   *)
LEMMA EvidenceStays == ASSUME UNCHANGED <<tx, signKey>> PROVE AllEvidence' = AllEvidence
BY DEF AllEvidence, Evidence, HasTree, Owns, rootPath

LEMMA FirstPolicyStays == ASSUME UNCHANGED tx PROVE GetPolicy(tx.ins[1])' = GetPolicy(tx.ins[1])
BY DEF GetPolicy, XpubsOf

LEMMA PassedStays ==
    ASSUME UNCHANGED <<tx, signKey, descriptor, policy, prefixes, maxIndex>>, NEW s
    PROVE  Passed(s)' = Passed(s)
<1>1. HasTree' = HasTree /\ rootPath' = rootPath
  BY DEF HasTree, rootPath
<1>2. GetPolicy(s)' = GetPolicy(s)
  BY DEF GetPolicy, XpubsOf
<1>3. Rederived(s)' = Rederived(s)
  BY <1>1 DEF Rederived
<1>4. IsIdentified(s)' = IsIdentified(s)
  BY DEF IsIdentified, NeedsDescriptor, IsMultisig
<1>5. IsChange(s)' = IsChange(s)
  BY <1>2, <1>3, <1>4 DEF IsChange, LooksLikeChange
<1>6. \A c \in ToSet(s.claims) : IsReachable(c.path)' = IsReachable(c.path) /\ IsTooFar(c.path)' = IsTooFar(c.path)
  BY <1>1 DEF IsReachable, IsTooFar
<1> QED
  BY <1>5, <1>6 DEF Passed

(* A check after the outputs were read.                                     *)
LEMMA LateKeeps ==
    ASSUME ParserInv, stage' \notin Before \cup {"inputs", "outputs"},
           UNCHANGED <<tx, signKey, descriptor, policy, prefixes, maxIndex, scope, kinds>>
    PROVE  ParserInv'
<1>1. AllEvidence' = AllEvidence
  BY EvidenceStays
<1>2. GetPolicy(tx.ins[1])' = GetPolicy(tx.ins[1])
  BY FirstPolicyStays
<1>3. ParserTyped' /\ Untouched'
  BY DEF ParserInv, ParserTyped, Untouched
<1>4. PolicyRead'
  BY <1>2 DEF ParserInv, PolicyRead
<1>5. PlacesRead'
  BY <1>1 DEF ParserInv, PlacesRead
<1>6. OutputsRead'
  BY PassedStays DEF ParserInv, OutputsRead
<1> QED
  BY <1>3, <1>4, <1>5, <1>6 DEF ParserInv

LEMMA ChecksKeep ==
    ASSUME ParserInv, \/ CheckVersion \/ FillMissingFingerprints
                      \/ VerifyClaimedDerivationPaths \/ VerifyClaimShapes \/ VerifyOutputClaims
                      \/ RejectMislabeled \/ RejectIfSeedCannotSign
    PROVE  ParserInv'
<1>1. stage \in Before /\ stage' \in Before \cup {"inputs", "refused"}
  BY DEF Before, Check, CheckVersion, FillMissingFingerprints, VerifyClaimedDerivationPaths,
     VerifyClaimShapes, VerifyOutputClaims, RejectMislabeled, RejectIfSeedCannotSign
<1>2. UNCHANGED <<signKey, descriptor, read>> /\ (UNCHANGED tx \/ FillMissingFingerprints)
  BY DEF CheckVersion, FillMissingFingerprints, VerifyClaimedDerivationPaths, VerifyClaimShapes,
     VerifyOutputClaims, RejectMislabeled, RejectIfSeedCannotSign
<1>3. IsTransaction(tx')
  BY <1>2, FilledTransaction DEF ParserInv, ParserTyped
<1> QED
  BY <1>1, <1>2, <1>3, EarlyKeeps

LEMMA LastChecksKeep ==
    ASSUME ParserInv, CheckFee \/ RejectInconsistentFingerprints PROVE ParserInv'
<1>1. stage' \in {"fingerprints", "read", "refused"}
  BY DEF CheckFee, RejectInconsistentFingerprints, Check
<1>2. UNCHANGED <<tx, signKey, descriptor, policy, prefixes, maxIndex, scope, kinds>>
  BY DEF CheckFee, RejectInconsistentFingerprints, read
<1> QED
  BY <1>1, <1>2, LateKeeps DEF Before

(* An input adds the places of its evidence and sets the policy if it is the *)
(* first.                                                                   *)
LEMMA InputKeepsPlaces == ASSUME ParserInv, ParseInput PROVE PlacesRead'
<1> DEFINE s == tx.ins[scope]
           new == {Index(c.path) : c \in Evidence(s)}
<1>1. s \in ToSet(tx.ins) /\ IsSequence(s.claims)
  BY DEF ParseInput, ToSet, ParserInv, ParserTyped, IsTransaction, IsScope
<1>2. Evidence(s) \subseteq AllEvidence
  BY <1>1 DEF AllEvidence
<1>3. \A c \in Evidence(s) : Index(c.path) \in Nat
  <2> TAKE c \in Evidence(s)
  <2>1. c.path \in Seq(Nat) /\ c.path # << >>
    BY <1>2, EvidenceIsHeld DEF ParserInv
  <2> QED
    BY <2>1 DEF Index
<1>4. /\ prefixes' = prefixes \cup {Prefix(c.path) : c \in {e \in Evidence(s) : Len(e.path) >= 2}}
      /\ maxIndex' = Max({maxIndex} \cup new)
      /\ UNCHANGED <<tx, signKey>>
  BY DEF ParseInput
<1>5. AllEvidence' = AllEvidence
  BY <1>4, EvidenceStays
<1>6. IsFiniteSet(new)
  <2>1. Evidence(s) \in SUBSET ToSet(s.claims)
    BY DEF Evidence
  <2>2. IsFiniteSet(Evidence(s))
    BY <1>1, <2>1, ElementsAreFinite, FS_Subset
  <2> DEFINE index == [c \in Evidence(s) |-> Index(c.path)]
  <2>3. index \in Surjection(Evidence(s), new)
    BY DEF Surjection
  <2> HIDE DEF index, new
  <2> QED
    BY <2>2, <2>3, FS_Surjection
<1>7. maxIndex \in Nat \cup {-1}
  BY DEF ParserInv, PlacesRead
<1>8. maxIndex' \in {maxIndex} \cup new /\ \A y \in {maxIndex} \cup new : maxIndex' >= y
  <2>1. new \subseteq Int
    BY <1>3
  <2> HIDE DEF new
  <2> DEFINE all == {maxIndex} \cup new
  <2>2. IsFiniteSet(all)
    <3>1. IsFiniteSet({maxIndex})
      BY FS_Singleton
    <3> QED
      BY <1>6, <3>1, FS_Union
  <2>3. all \in SUBSET Int /\ all # {}
    BY <1>7, <2>1
  <2>4. maxIndex' = Max(all)
    BY <1>4
  <2>5. Max(all) \in all /\ \A y \in all : Max(all) >= y
    <3> HIDE DEF all
    <3> QED
      BY <2>2, <2>3, GreatestIsMember
  <2> QED
    BY <2>4, <2>5
<1>9. maxIndex' \in Nat \cup {-1} /\ maxIndex' >= maxIndex
  BY <1>3, <1>7, <1>8
<1>10. maxIndex' # -1 => \E c \in AllEvidence : maxIndex' = Index(c.path)
  <2>1. CASE maxIndex' = maxIndex
    BY <2>1 DEF ParserInv, PlacesRead
  <2>2. CASE maxIndex' \in new
    BY <1>2, <2>2
  <2> QED
    BY <1>8, <2>1, <2>2
<1>11. \A p \in prefixes' : \E c \in AllEvidence : Len(c.path) >= 2 /\ p = Prefix(c.path)
  BY <1>2, <1>4 DEF ParserInv, PlacesRead
<1>12. prefixes' # {} => maxIndex' # -1
  <2>1. CASE prefixes # {}
    BY <1>7, <1>9, <2>1 DEF ParserInv, PlacesRead
  <2>2. CASE Evidence(s) # {}
    BY <1>3, <1>8, <1>9, <2>2
  <2> QED
    BY <1>4, <2>1, <2>2
<1> QED
  BY <1>5, <1>9, <1>10, <1>11, <1>12 DEF PlacesRead

LEMMA InputKeeps == ASSUME ParserInv, ParseInput PROVE ParserInv'
<1>1. /\ stage = "inputs" /\ stage' \in {"inputs", "outputs", "refused"}
      /\ stage' = "inputs" => scope # Len(tx.ins) /\ scope' = scope + 1
      /\ stage' = "outputs" => scope' = 1
      /\ policy' = IF policy = NoPolicy THEN GetPolicy(tx.ins[scope]) ELSE policy
      /\ scope \in DOMAIN tx.ins /\ UNCHANGED <<tx, signKey, descriptor, kinds>>
  BY DEF ParseInput, Check
<1>2. kinds = << >> /\ scope \in Nat \ {0} /\ policy = IF scope = 1 THEN NoPolicy ELSE GetPolicy(tx.ins[1])
  BY <1>1 DEF ParserInv, PolicyRead
<1>3. 1 \in DOMAIN tx.ins
  BY <1>1, <1>2 DEF ParserInv, ParserTyped, IsTransaction, IsSequence
<1>4. GetPolicy(tx.ins[1]) # NoPolicy
  <2>1. IsScope(tx.ins[1])
    BY <1>3 DEF ParserInv, ParserTyped, IsTransaction, ToSet
  <2>2. GetPolicy(tx.ins[1]).type # "unread"
    BY <2>1 DEF GetPolicy, IsScope, Nonstandard
  <2> QED
    BY <2>2 DEF NoPolicy
<1>5. policy' = GetPolicy(tx.ins[1])
  BY <1>1, <1>2, <1>4
<1>6. GetPolicy(tx.ins[1])' = GetPolicy(tx.ins[1])
  BY <1>1, FirstPolicyStays
<1>7. PolicyRead'
  <2>1. stage' = "inputs" => scope' \in Nat \ {0} /\ scope' # 1
    BY <1>1, <1>2
  <2> QED
    BY <1>1, <1>2, <1>3, <1>5, <1>6, <2>1 DEF PolicyRead
<1>8. ParserTyped' /\ Untouched'
  BY <1>1 DEF ParserInv, ParserTyped, Untouched, Before
<1>9. OutputsRead'
  <2>1. Len(tx.outs) \in Nat
    BY DEF ParserInv, ParserTyped, IsTransaction, IsSequence
  <2> QED
    BY <1>1, <1>2, <2>1 DEF OutputsRead
<1> QED
  BY <1>7, <1>8, <1>9, InputKeepsPlaces DEF ParserInv

LEMMA OutputKeeps == ASSUME ParserInv, ParseOutput PROVE ParserInv'
<1> DEFINE s == tx.outs[scope]
           ok == OutputCode(s) = "ok"
<1>1. /\ stage = "outputs" /\ stage' = IF ~ok THEN "refused" ELSE IF scope = Len(tx.outs) THEN "fee" ELSE "outputs"
      /\ kinds' = IF ok THEN Append(kinds, KindOf(s)) ELSE kinds
      /\ scope' = IF scope = Len(tx.outs) THEN 1 ELSE scope + 1
      /\ scope \in DOMAIN tx.outs
      /\ UNCHANGED <<tx, signKey, descriptor, policy, prefixes, maxIndex>>
  BY DEF ParseOutput, Check
<1> HIDE DEF ok
<1>2. /\ kinds \in Seq({"data", "change", "unidentified", "payment"})
      /\ scope \in Nat /\ Len(kinds) = scope - 1 /\ scope \in 1..Len(tx.outs) /\ Len(tx.outs) \in Nat
  BY <1>1 DEF ParserInv, OutputsRead, ParserTyped, IsTransaction, IsSequence
<1>3. ParserTyped' /\ Untouched'
  BY <1>1 DEF ParserInv, ParserTyped, Untouched, Before
<1>4. AllEvidence' = AllEvidence /\ GetPolicy(tx.ins[1])' = GetPolicy(tx.ins[1])
  BY <1>1, EvidenceStays, FirstPolicyStays
<1>5. PolicyRead' /\ PlacesRead'
  <2>1. 1 \in DOMAIN tx.ins /\ policy = GetPolicy(tx.ins[1])
    BY <1>1 DEF ParserInv, PolicyRead
  <2>2. PolicyRead'
    BY <1>1, <1>4, <2>1 DEF PolicyRead
  <2>3. PlacesRead'
    BY <1>1, <1>4 DEF ParserInv, PlacesRead
  <2> QED
    BY <2>2, <2>3
<1>6. KindOf(s) \in {"data", "change", "unidentified", "payment"} /\ (KindOf(s) = "change" => IsChange(s))
  BY DEF KindOf
<1>7. \A j \in DOMAIN kinds' : kinds'[j] = "change" => Passed(tx.outs[j])
  <2>1. CASE ~ok
    BY <1>1, <2>1 DEF ParserInv, OutputsRead
  <2>2. CASE ok
    <3>1. KindOf(s) = "change" => Passed(s)
      BY <1>6, <2>2, ReadIsPassed DEF ok
    <3> HIDE DEF s
    <3>2. \A j \in DOMAIN kinds' : (j \in DOMAIN kinds /\ kinds'[j] = kinds[j]) \/ (j = scope /\ kinds'[j] = KindOf(s))
      BY <1>1, <1>2, <1>6, <2>2
    <3> QED
      BY <3>1, <3>2 DEF ParserInv, OutputsRead, s
  <2> QED
    BY <2>1, <2>2
<1>8. OutputsRead'
  <2> HIDE DEF s
  <2>1. /\ kinds' \in Seq({"data", "change", "unidentified", "payment"})
        /\ Len(kinds') = IF ok THEN scope ELSE scope - 1
    BY <1>1, <1>2, <1>6
  <2>2. Len(kinds') <= Len(tx.outs)
    BY <1>2, <2>1
  <2>3. stage' = "outputs" => scope' \in Nat /\ Len(kinds') = scope' - 1
    BY <1>1, <1>2, <2>1
  <2>4. \A j \in DOMAIN kinds' : Passed(tx.outs[j])' = Passed(tx.outs[j])
    BY <1>1, PassedStays
  <2> QED
    BY <1>1, <1>7, <2>1, <2>2, <2>3, <2>4 DEF OutputsRead
<1> QED
  BY <1>3, <1>5, <1>8 DEF ParserInv

LEMMA NextParser == ASSUME ParserInv, [ParserNext]_parserVars PROVE ParserInv'
<1>1. CASE UNCHANGED parserVars
  <2>1. UNCHANGED <<tx, signKey, descriptor, stage, policy, prefixes, maxIndex, scope, kinds>>
    BY <1>1 DEF parserVars
  <2>2. AllEvidence' = AllEvidence /\ GetPolicy(tx.ins[1])' = GetPolicy(tx.ins[1])
    BY <2>1, EvidenceStays, FirstPolicyStays
  <2>3. ParserTyped' /\ Untouched'
    BY <2>1 DEF ParserInv, ParserTyped, Untouched, NoPolicy
  <2>4. PolicyRead' /\ PlacesRead'
    BY <2>1, <2>2 DEF ParserInv, PolicyRead, PlacesRead, NoPolicy
  <2>5. OutputsRead'
    BY <2>1, PassedStays DEF ParserInv, OutputsRead
  <2> QED
    BY <2>3, <2>4, <2>5 DEF ParserInv
<1> QED
  BY <1>1, ChecksKeep, InputKeeps, OutputKeeps, LastChecksKeep DEF ParserNext

-----------------------------------------------------------------------------

(* An output that is shown as change pays a key that the wallet scans, or   *)
(* the cosigners of the wallet whose coins are spent or whose descriptor is *)
(* loaded, whatever fingerprints, paths and scripts the transaction claims. *)
THEOREM ShownChangeIsOurs == ParserSpec => []ChangeIsOurs
<1>1. ParserInit => ParserInv
  BY InitParser, TransactionsAssumption
<1>2. ParserInv /\ [ParserNext]_parserVars => ParserInv'
  BY NextParser
<1>3. ParserInv => ChangeIsOurs
  <2> SUFFICES ASSUME ParserInv, NEW j \in DOMAIN kinds, kinds[j] = "change",
                      policy.type \in SingleTypes \/ policy.total > 0
               PROVE  BelongsToWallet(tx.outs[j])
    BY DEF ChangeIsOurs, SingleTypes
  <2>1. Passed(tx.outs[j]) /\ 1 \in DOMAIN tx.ins /\ policy = GetPolicy(tx.ins[1])
    BY DEF ParserInv, OutputsRead, PolicyRead
  <2>2. j \in DOMAIN tx.outs
    BY DEF ParserInv, OutputsRead, ParserTyped, IsTransaction, IsSequence
  <2>3. IsScope(tx.outs[j]) /\ IsScope(tx.ins[1])
    BY <2>1, <2>2 DEF ParserInv, ParserTyped, IsTransaction, ToSet
  <2>4. CASE policy.type \in SingleTypes
    <3>1. policy.total = 0
      BY <2>1, <2>4, PolicyOfOne
    <3>2. ScansKey(KeyPaid(tx.outs[j]))
      BY <2>1, <2>3, <2>4, SingleChangeIsOurs, TransactionsAssumption DEF ParserInv, TransactionsAssumption
    <3> QED
      BY <3>1, <3>2 DEF BelongsToWallet
  <2>5. CASE policy.total > 0
    <3>1. policy.total # 0
      BY <2>5
    <3>2. \/ /\ CosignersOf(ScriptOf(tx.outs[j])) = CosignersOf(ScriptOf(tx.ins[1]))
             /\ ScriptOf(tx.outs[j]).of.need = ScriptOf(tx.ins[1]).of.need
          \/ descriptor # NoDescriptor /\ IsWalletScript(ScriptOf(tx.outs[j]), descriptor)
      BY <2>1, <2>3, <2>5, MultisigChangeIsOurs, TransactionsAssumption DEF ParserInv, TransactionsAssumption
    <3> QED
      BY <3>1, <3>2 DEF BelongsToWallet
  <2> QED
    BY <2>4, <2>5
<1> QED
  BY <1>1, <1>2, <1>3, PTL DEF ParserSpec
=============================================================================
