---------------------------- MODULE SeedFlowProofs ----------------------------
(***************************************************************************)
(* Loading seeds, for any number of words, seeds, keys and kinds of        *)
(* mnemonic, and any number of auto-wipes.  The invariant rests on the     *)
(* order in which views may lie in the history: what lies higher comes     *)
(* later in the workflow.  "Back" from a menu therefore never leads into   *)
(* the entry of a mnemonic that is gone, nor "back" from a word to a       *)
(* pending seed that another workflow has taken.                           *)
(***************************************************************************)
EXTENDS SeedFlow, SequenceTheorems, TLAPS

\* The views of a pending seed, what the entry of a mnemonic goes through, and menus.
Needed(d) == d.view \in PendingViews \/ d = Plain("SeedDiscardView")
IsEntry(d) == d.view = "SeedMnemonicEntryView"
Calculates(d) == d.view \in CalcViews \/ (IsEntry(d) /\ d.calc)

\* What lies higher in the history comes later in the workflow.
Level(d) ==
    IF Needed(d) THEN 4
    ELSE IF d.view = "ToolsCalcFinalWordDoneView" THEN 3
    ELSE IF Calculates(d) /\ (IsEntry(d) => d.word > 0) THEN 2
    ELSE IF IsEntry(d) \/ d.view = "SeedMnemonicInvalidView" THEN 1 ELSE 0

BeforeScan == {"SeedFinalizeView", "SeedAezeedPassphraseModeView", "SeedReviewPassphraseView"}

Climbs ==
    /\ \A i, j \in DOMAIN hist : i < j => Level(hist[i]) <= Level(hist[j])
    /\ \A i \in DOMAIN hist : hist[i].view = "SeedScanPassphraseView" /\ i > 1 => hist[i - 1].view \in BeforeScan

\* The words that a view finds entered, of those in m; what kind k of mnemonic it is for.
Filled(m, n) == \A j \in 1..n : m[j] # NoWord
Ready(d, m, k) ==
    /\ m # <<>> /\ IsEntry(d) => Filled(m, d.word)
    /\ m # <<>> /\ d.view \in CalcViews => Filled(m, NumWords - 1)
    /\ Calculates(d) => k = "bip39"

WordsReady ==
    /\ Ready(cur, mnemonic, kind) /\ \A i \in DOMAIN hist : Ready(hist[i], mnemonic, kind)
    /\ Level(cur) \in {2, 3} => mnemonic # <<>>
    /\ DoneWordsValid

PendingReady ==
    /\ pending # NoSeed =>
         /\ Needed(cur) /\ held = pending
         /\ hist # <<>> /\ hist[1].view # "SeedScanPassphraseView"
         /\ heap[pending].key # NoKey
         /\ heap[pending].key \in LockedKeys => heap[pending].kind = "aezeed"
         /\ cur.view \in {"SeedFinalizeView", "SeedReviewPassphraseView", "SeedDiscardView"} => Usable(pending)
         /\ cur.view \in {"SeedAddPassphraseExitDialogView", "SeedReviewPassphraseView"} =>
              heap[pending].key \notin LockedKeys
    /\ wipes = 0 /\ Needed(cur) => pending # NoSeed

HeldReady ==
    /\ ~Needed(cur) => held = cur.seed
    /\ cur.view = "SeedOptionsView" => held # NoSeed
    /\ Needed(cur) /\ cur.view \notin {"SeedAezeedPassphraseModeView", "SeedScanPassphraseView"} => held # NoSeed
    /\ Needed(cur) /\ held # NoSeed => held \notin Stored

StoredOnce == \A i, j \in DOMAIN seeds : seeds[i] = seeds[j] /\ seeds[i] # NoSeed => i = j

SeedInv ==
    TypeOK /\ Nav!EndsWithCurrent /\ Nav!NoRepeats /\ Climbs /\ WordsReady /\ PendingReady
    /\ HeldReady /\ StoredOnce /\ StoredSeedsUsable

-----------------------------------------------------------------------------
(* Destinations *)

LEMMA ViewOf ==
    /\ \A v : /\ Plain(v).view = v /\ Plain(v).word = 0 /\ Plain(v).calc = FALSE /\ Plain(v).edit = FALSE
             /\ Plain(v).coin = FALSE /\ Plain(v).seed = NoSeed
    /\ \A i : \A c \in BOOLEAN : /\ Entry(i, c).view = "SeedMnemonicEntryView" /\ Entry(i, c).word = i
                              /\ Entry(i, c).calc = c /\ Entry(i, c).seed = NoSeed
    /\ EditWords.view = "SeedMnemonicEntryView" /\ EditWords.word = 0 /\ EditWords.calc = FALSE
    /\ EditWords.seed = NoSeed
    /\ \A c \in BOOLEAN : /\ ShowFinalWord(c).view = "ToolsCalcFinalWordShowFinalWordView" /\ ShowFinalWord(c).word = 0
                        /\ ShowFinalWord(c).calc = FALSE /\ ShowFinalWord(c).seed = NoSeed
    /\ \A v, s : /\ OfSeed(v, s).view = v /\ OfSeed(v, s).word = 0 /\ OfSeed(v, s).calc = FALSE
                /\ OfSeed(v, s).seed = s
<1>1. \A v : /\ Plain(v).view = v /\ Plain(v).word = 0 /\ Plain(v).calc = FALSE /\ Plain(v).edit = FALSE
            /\ Plain(v).coin = FALSE /\ Plain(v).seed = NoSeed
  BY DEF Plain
<1>2. \A i : \A c \in BOOLEAN : /\ Entry(i, c).view = "SeedMnemonicEntryView" /\ Entry(i, c).word = i
                             /\ Entry(i, c).calc = c /\ Entry(i, c).seed = NoSeed
  BY DEF Plain, Entry
<1>3. EditWords.view = "SeedMnemonicEntryView" /\ EditWords.word = 0 /\ EditWords.calc = FALSE /\ EditWords.seed = NoSeed
  BY DEF Plain, EditWords
<1>4. \A c \in BOOLEAN : /\ ShowFinalWord(c).view = "ToolsCalcFinalWordShowFinalWordView" /\ ShowFinalWord(c).word = 0
                      /\ ShowFinalWord(c).calc = FALSE /\ ShowFinalWord(c).seed = NoSeed
  BY DEF Plain, ShowFinalWord
<1>5. \A v, s : /\ OfSeed(v, s).view = v /\ OfSeed(v, s).word = 0 /\ OfSeed(v, s).calc = FALSE
               /\ OfSeed(v, s).seed = s
  BY DEF Plain, OfSeed
<1> QED
  BY <1>1, <1>2, <1>3, <1>4, <1>5

(* A destination of no seed is that of the view alone.                      *)
LEMMA OfNoSeed == \A v : OfSeed(v, NoSeed) = Plain(v)
<1> TAKE v
<1> DEFINE Fields == [view : {v}, word : {0}, calc : BOOLEAN, edit : BOOLEAN, coin : BOOLEAN, seed : {NoSeed}]
<1>1. ASSUME NEW r \in Fields, NEW s, s = r.seed PROVE [r EXCEPT !.seed = s] = r
  BY <1>1
<1>2. Plain(v) \in Fields
  BY DEF Plain
<1> HIDE DEF Fields
<1> QED
  BY <1>1, <1>2, ViewOf DEF OfSeed

LEMMA ByView ==
    ASSUME NEW d \in Destinations
    PROVE  /\ d.word \in 0..(NumWords - 1) /\ d.calc \in BOOLEAN /\ d.seed \in Objects \cup {NoSeed}
           /\ d.view = "ToolsCalcFinalWordDoneView" => d = Plain("ToolsCalcFinalWordDoneView")
           /\ d.view = "MainMenuView" => d = Home
           /\ d.view = "SeedDiscardView" => (d.seed = NoSeed <=> d = Plain("SeedDiscardView"))
<1>1. 0 \in 0..(NumWords - 1)
  BY SeedFlowAssumption
<1>2. CASE \E v \in PlainViews : d = Plain(v)
  <2> PICK v \in PlainViews : d = Plain(v)
    BY <1>2
  <2>1. d.view = v /\ d.word = 0 /\ d.calc = FALSE /\ d.seed = NoSeed
    BY ViewOf
  <2> QED
    BY <1>1, <2>1 DEF Home
<1>3. CASE \E i \in 0..(NumWords - 1), c \in BOOLEAN : d = Entry(i, c)
  BY <1>3, ViewOf
<1>4. CASE d = EditWords \/ \E c \in BOOLEAN : d = ShowFinalWord(c)
  BY <1>1, <1>4, ViewOf
<1>5. CASE \E v \in {"SeedOptionsView", "SeedDiscardView"}, s \in Objects \cup {NoSeed} : d = OfSeed(v, s)
  <2> PICK v \in {"SeedOptionsView", "SeedDiscardView"}, s \in Objects \cup {NoSeed} : d = OfSeed(v, s)
    BY <1>5
  <2>1. d.view = v /\ d.word = 0 /\ d.calc = FALSE /\ d.seed = s
    BY ViewOf
  <2>2. s = NoSeed => d = Plain(v)
    BY OfNoSeed
  <2>3. s # NoSeed => d # Plain(v)
    BY <2>1, ViewOf
  <2> QED
    BY <1>1, <2>1, <2>2, <2>3
<1> QED
  BY <1>2, <1>3, <1>4, <1>5 DEF Destinations

MenuViews ==
    {"MainMenuView", "UnhandledExceptionView", "SeedsMenuView", "LoadSeedView",
     "SeedElectrumMnemonicStartView", "SeedAezeedMnemonicStartView", "ToolsMenuView",
     "ToolsCalcFinalWordNumWordsView", "SeedOptionsView"}

LEMMA Levels ==
    ASSUME NEW d
    PROVE  /\ Level(d) \in 0..4
           /\ d.view \in MenuViews => Level(d) = 0
           /\ IsEntry(d) => Level(d) = IF d.calc /\ d.word > 0 THEN 2 ELSE 1
           /\ d.view = "SeedMnemonicInvalidView" => Level(d) = 1
           /\ d.view \in CalcViews \ {"ToolsCalcFinalWordDoneView"} => Level(d) = 2
           /\ d.view = "ToolsCalcFinalWordDoneView" <=> Level(d) = 3
           /\ Needed(d) <=> Level(d) = 4
           /\ d.view \in PendingViews => Level(d) = 4
           /\ d.view = "SeedDiscardView" => Level(d) \in {0, 4}
           /\ Level(d) = 4 => d.view \in PendingViews \cup {"SeedDiscardView"}
<1>1. Plain("SeedDiscardView").view = "SeedDiscardView"
  BY ViewOf
<1>2. Needed(d) => d.view \in PendingViews \cup {"SeedDiscardView"}
  BY <1>1 DEF Needed
<1>3. d.view \in PendingViews => Needed(d)
  BY DEF Needed
<1> HIDE DEF Needed
<1>4. Level(d) \in 0..4
  BY DEF Level
<1>5. d.view \in MenuViews => Level(d) = 0
  BY <1>2 DEF MenuViews, Level, IsEntry, Calculates, CalcViews, PendingViews, PassphraseViews
<1>6. /\ IsEntry(d) => Level(d) = IF d.calc /\ d.word > 0 THEN 2 ELSE 1
      /\ d.view = "SeedMnemonicInvalidView" => Level(d) = 1
  BY <1>2 DEF Level, IsEntry, Calculates, CalcViews, PendingViews, PassphraseViews
<1>7. /\ d.view \in CalcViews \ {"ToolsCalcFinalWordDoneView"} => Level(d) = 2
      /\ d.view = "ToolsCalcFinalWordDoneView" <=> Level(d) = 3
  BY <1>2 DEF Level, IsEntry, Calculates, CalcViews, PendingViews, PassphraseViews
<1>8. Needed(d) <=> Level(d) = 4
  BY DEF Level
<1>9. d.view = "SeedDiscardView" => Level(d) \in {0, 4}
  BY DEF Level, IsEntry, Calculates, CalcViews
<1> QED
  BY <1>2, <1>3, <1>4, <1>5, <1>6, <1>7, <1>8, <1>9

(* Menus rely on no words, and no view on words that are not there.         *)
LEMMA ReadyAnyway ==
    ASSUME NEW d, NEW m, NEW k
    PROVE  /\ Level(d) \in {0, 4} => Ready(d, m, k)
           /\ m = << >> /\ k = "bip39" => Ready(d, m, k)
<1>1. Level(d) \in {0, 4} => ~IsEntry(d) /\ d.view \notin CalcViews
  BY Levels
<1> QED
  BY <1>1 DEF Ready, Calculates

-----------------------------------------------------------------------------
(* The history, by the laws that NavigationProofs has of any.               *)
Laws == INSTANCE NavigationProofs WITH Views <- Destinations \ {Home}, MainMenu <- Home, StartupViews <- {}

LEMMA NavHasLaws ==
    /\ \A d, skip, clear : Nav!Visit(d, skip, clear) => Laws!Visit(d, skip, clear)
    /\ \A skip : Nav!GoBack(skip) => Laws!GoBack(skip)
    /\ Laws!Below(FALSE) = IF Len(hist) < 2 THEN Home ELSE hist[Len(hist) - 1]
<1>1. /\ \A d, skip, clear : Nav!Visit(d, skip, clear) => Laws!Visit(d, skip, clear)
      /\ \A skip : Nav!GoBack(skip) => Laws!GoBack(skip)
  BY DEF Nav!Visit, Nav!GoBack, Nav!Enter, Nav!Unwound, Nav!Occurs, Nav!FirstIndex, Nav!WithoutLast,
         Laws!Visit, Laws!GoBack, Laws!Enter, Laws!Unwound, Laws!Occurs, Laws!FirstIndex, Laws!WithoutLast
<1>2. Len(hist) - 1 < 1 <=> Len(hist) < 2
  OBVIOUS
<1> QED
  BY <1>1, <1>2 DEF Laws!Below

LEMMA Endpoints ==
    /\ Home \in Destinations /\ Error \in Destinations /\ Level(Home) = 0 /\ Level(Error) = 0
    /\ Home.view = "MainMenuView" /\ Error.view = "UnhandledExceptionView"
    /\ \A v \in PlainViews : Plain(v) \in Destinations
    /\ (Destinations \ {Home}) \cup {Home} = Destinations
<1>1. \A v \in PlainViews : Plain(v) \in Destinations
  BY DEF Destinations
<1>2. Home \in Destinations /\ Error \in Destinations
  BY <1>1 DEF Home, Error, PlainViews
<1>3. Home.view = "MainMenuView" /\ Error.view = "UnhandledExceptionView"
  BY ViewOf DEF Home, Error
<1>4. Level(Home) = 0 /\ Level(Error) = 0
  BY <1>3, Levels DEF MenuViews
<1> QED
  BY <1>1, <1>2, <1>3, <1>4

-----------------------------------------------------------------------------
(* What the storage and the mnemonic are, whatever is on screen.            *)
StorageSound ==
    /\ pending \in Objects \cup {NoSeed} /\ heap \in [Objects -> Contents]
    /\ seeds \in Seq(Objects \cup {NoSeed}) /\ wipes \in 0..MaxWipes
    /\ StoredOnce /\ StoredSeedsUsable
    /\ pending # NoSeed =>
         /\ pending \notin Stored /\ heap[pending].key # NoKey
         /\ heap[pending].key \in LockedKeys => heap[pending].kind = "aezeed"

WordsTyped ==
    /\ mnemonic \in Seq({NoWord, Typed, Checked}) /\ Len(mnemonic) \in {0, NumWords}
    /\ kind \in {"bip39", "electrum", "aezeed"}

LEMMA InvFacts ==
    ASSUME SeedInv
    PROVE  /\ Laws!Tidy /\ cur \in Destinations /\ StorageSound /\ WordsTyped
           /\ Len(hist) \in Nat /\ DOMAIN hist = 1..Len(hist)
           /\ hist # << >> => Len(hist) >= 1 /\ hist[Len(hist)] = cur
           /\ \A i \in 1..Len(hist) : hist[i] \in Destinations
           /\ \A i, j \in 1..Len(hist) : hist[i] = hist[j] => i = j
           /\ \A i \in 1..Len(hist) : Level(hist[i]) <= Level(cur)
           /\ Level(cur) # 4 => pending = NoSeed
           /\ pending # NoSeed => held = pending
           /\ Level(cur) = 4 => pending # NoSeed \/ wipes > 0
<1>1. Laws!Tidy
  BY DEF SeedInv, TypeOK, Nav!TypeOK, Nav!NoRepeats, Laws!Tidy, Laws!Distinct
<1>2. cur \in Destinations
  BY Endpoints DEF SeedInv, TypeOK, Nav!TypeOK
<1>3. /\ Len(hist) \in Nat /\ DOMAIN hist = 1..Len(hist)
      /\ \A i \in 1..Len(hist) : hist[i] \in Destinations
      /\ hist # << >> => Len(hist) >= 1
  BY <1>1, EmptySeq DEF Laws!Tidy
<1>4. hist # << >> => hist[Len(hist)] = cur
  BY <1>3 DEF SeedInv, Nav!EndsWithCurrent
<1>5. \A i, j \in 1..Len(hist) : hist[i] = hist[j] => i = j
  BY <1>1, <1>3 DEF Laws!Tidy, Laws!Distinct
<1>6. ASSUME NEW i \in 1..Len(hist) PROVE Level(hist[i]) <= Level(cur)
  <2>1. hist # << >> /\ Len(hist) \in 1..Len(hist) /\ hist[Len(hist)] = cur
    BY <1>3, <1>4
  <2>2. CASE i = Len(hist)
    BY <2>1, <2>2, Levels
  <2>3. CASE i < Len(hist)
    BY <1>3, <2>1, <2>3 DEF SeedInv, Climbs
  <2>4. Len(hist) \in Nat
    BY <1>3
  <2>5. i = Len(hist) \/ i < Len(hist)
    BY <2>4
  <2> QED
    BY <2>2, <2>3, <2>5
<1>7. /\ Level(cur) # 4 => pending = NoSeed
      /\ pending # NoSeed => held = pending
      /\ Level(cur) = 4 => pending # NoSeed \/ wipes > 0
  BY Levels DEF SeedInv, PendingReady, TypeOK
<1>8. WordsTyped
  BY DEF SeedInv, TypeOK, WordsTyped
<1>9. StorageSound
  <2>1. pending # NoSeed => pending \notin Stored
    BY DEF SeedInv, PendingReady, HeldReady
  <2> QED
    BY <2>1 DEF SeedInv, TypeOK, PendingReady, StorageSound
<1> QED
  BY <1>1, <1>2, <1>3, <1>4, <1>5, <1>6, <1>7, <1>8, <1>9

-----------------------------------------------------------------------------
(* Arriving at a view *)

\* d finds the words, and the pending seed, that it relies on.
HasWords(d) ==
    /\ Ready(d, mnemonic, kind)
    /\ Level(d) \in {2, 3} => mnemonic # << >>
    /\ d.view = "ToolsCalcFinalWordDoneView" => Complete(mnemonic) /\ FinalWord = Checked

HasPending(d) ==
    /\ pending # NoSeed =>
         /\ Needed(d)
         /\ d.view \in {"SeedAddPassphraseExitDialogView", "SeedReviewPassphraseView"} =>
              heap[pending].key \notin LockedKeys
    /\ wipes = 0 /\ Needed(d) => pending # NoSeed

\* d may come on top of the first n views of the history.
Fits(d, n) ==
    /\ \A i \in 1..n : Level(hist[i]) <= Level(d) /\ Ready(hist[i], mnemonic', kind')
    /\ d.view = "SeedScanPassphraseView" /\ n >= 1 => hist[n].view \in BeforeScan
    /\ pending' # NoSeed => IF n = 0 THEN d.view # "SeedScanPassphraseView" ELSE hist[1].view # "SeedScanPassphraseView"

LEMMA Arrive ==
    ASSUME SeedInv, NEW d \in Destinations, NEW n \in 0..Len(hist), Laws!Lands(d, n),
           CanShow(d), held' = HeldBy(d), listed' \in Nat,
           StorageSound', WordsTyped', Fits(d, n), HasWords(d)', HasPending(d)'
    PROVE  SeedInv'
<1>1. Len(hist) \in Nat /\ DOMAIN hist = 1..Len(hist) /\ n \in Nat /\ 1..n \subseteq 1..Len(hist)
  BY InvFacts
<1>2. cur' = d
  BY DEF Laws!Lands
<1>3. held' \in Objects \cup {NoSeed}
  BY ByView DEF HeldBy, StorageSound
<1>4. d # Home =>
        /\ hist' \in Seq(Destinations \ {Home}) /\ Len(hist') = n + 1
        /\ \A i \in 1..n : hist'[i] = hist[i] /\ hist[i] # d
        /\ hist'[n + 1] = d
  BY DEF Laws!Lands
<1>5. d # Home =>
        /\ DOMAIN hist' = 1..(n + 1) /\ hist' # << >>
        /\ \A i \in 1..n : i \in 1..(n + 1) /\ (i # 1 => i - 1 \in 1..n) /\ i <= n /\ i # n + 1
  BY <1>1, <1>4
<1>6. d # Home => \A i \in DOMAIN hist' : i \in 1..n \/ (i = n + 1 /\ hist'[i] = d)
  BY <1>1, <1>4, <1>5
<1>7. d = Home => hist' = << >> /\ DOMAIN hist' = {} /\ hist' \in Seq(Destinations \ {Home})
  BY DEF Laws!Lands
<1>8. Nav!TypeOK' /\ Nav!EndsWithCurrent'
  BY <1>1, <1>2, <1>4, <1>7, Endpoints DEF Nav!TypeOK, Nav!EndsWithCurrent
<1>9. \A i, j \in 1..Len(hist) : hist[i] = hist[j] => i = j
  BY InvFacts
<1>10. Nav!NoRepeats'
  <2>1. ASSUME d # Home, NEW i \in DOMAIN hist', NEW j \in DOMAIN hist', hist'[i] = hist'[j]
        PROVE  i = j
    <3>1. CASE i \in 1..n /\ j \in 1..n
      BY <1>1, <1>4, <1>9, <2>1, <3>1
    <3>2. CASE ~(i \in 1..n /\ j \in 1..n)
      BY <1>4, <1>6, <2>1, <3>2
    <3> QED
      BY <3>1, <3>2
  <2> QED
    BY <1>7, <2>1 DEF Nav!NoRepeats
<1>11. Climbs'
  <2>1. ASSUME d # Home, NEW i \in DOMAIN hist', NEW j \in DOMAIN hist', i < j
        PROVE  Level(hist'[i]) <= Level(hist'[j])
    <3>1. i \in 1..n /\ hist'[i] = hist[i]
      <4>1. j \in 1..(n + 1) /\ i \in 1..(n + 1)
        BY <1>5, <2>1
      <4>2. i \in 1..n
        BY <1>1, <2>1, <4>1
      <4> QED
        BY <1>4, <2>1, <4>2
    <3>2. CASE j \in 1..n
      <4>1. hist'[j] = hist[j] /\ i \in DOMAIN hist /\ j \in DOMAIN hist
        BY <1>1, <1>4, <2>1, <3>1, <3>2
      <4> QED
        BY <2>1, <3>1, <4>1 DEF SeedInv, Climbs
    <3>3. CASE j = n + 1 /\ hist'[j] = d
      BY <3>1, <3>3 DEF Fits
    <3> QED
      BY <1>6, <2>1, <3>2, <3>3
  <2>2. ASSUME d # Home, NEW i \in DOMAIN hist', hist'[i].view = "SeedScanPassphraseView", i > 1
        PROVE  hist'[i - 1].view \in BeforeScan
    <3>1. CASE i \in 1..n
      <4>1. i # 1 /\ i - 1 \in 1..n
        BY <1>1, <2>2, <3>1
      <4>2. hist'[i] = hist[i] /\ hist'[i - 1] = hist[i - 1] /\ i \in DOMAIN hist
        BY <1>1, <1>4, <2>2, <3>1, <4>1
      <4> QED
        BY <2>2, <4>2 DEF SeedInv, Climbs
    <3>2. CASE i = n + 1 /\ hist'[i] = d
      <4>1. n >= 1 /\ i - 1 = n /\ n \in 1..n
        BY <1>1, <2>2, <3>2
      <4>2. hist'[n] = hist[n]
        BY <1>4, <2>2, <4>1
      <4> QED
        BY <2>2, <3>2, <4>1, <4>2 DEF Fits
    <3> QED
      BY <1>6, <2>2, <3>1, <3>2
  <2> QED
    BY <1>7, <2>1, <2>2 DEF Climbs
<1>12. WordsReady'
  <2>1. \A i \in DOMAIN hist' : Ready(hist'[i], mnemonic', kind')
    BY <1>4, <1>6, <1>7 DEF Fits, HasWords
  <2> QED
    BY <1>2, <2>1 DEF WordsReady, HasWords, DoneWordsValid
<1>13. /\ Needed(d) => held' = pending'
       /\ ~Needed(d) => held' = d.seed
  BY DEF Needed, HeldBy
<1>14. d.view \in {"SeedFinalizeView", "SeedReviewPassphraseView", "SeedOptionsView", "SeedDiscardView"}
         => held' # NoSeed /\ HasBytes(heap'[held'])
  BY DEF CanShow, UsableNext
<1>15. d.view \in {"SeedAddPassphraseView", "SeedAddPassphraseExitDialogView"} => held' # NoSeed
  BY DEF CanShow
<1>16. PendingReady'
  <2>1. ASSUME pending' # NoSeed
        PROVE  hist' # << >> /\ hist'[1].view # "SeedScanPassphraseView"
    <3>1. d # Home
      BY <2>1, Endpoints, Levels DEF HasPending
    <3>2. n # 0 => 1 \in 1..n /\ hist'[1] = hist[1]
      BY <1>1, <1>4, <3>1
    <3>3. n = 0 => hist'[1] = d
      BY <1>4, <3>1
    <3> QED
      BY <1>5, <2>1, <3>1, <3>2, <3>3 DEF Fits
  <2>2. pending' # NoSeed /\ d.view \in {"SeedFinalizeView", "SeedReviewPassphraseView", "SeedDiscardView"}
          => Usable(pending)'
    BY <1>13, <1>14 DEF HasPending, Usable
  <2>3. pending' # NoSeed =>
          /\ heap'[pending'].key # NoKey
          /\ heap'[pending'].key \in LockedKeys => heap'[pending'].kind = "aezeed"
    BY DEF StorageSound
  <2>4. pending' # NoSeed => Needed(d) /\ held' = pending'
    BY <1>13 DEF HasPending
  <2>5. pending' # NoSeed /\ d.view \in {"SeedAddPassphraseExitDialogView", "SeedReviewPassphraseView"}
          => heap'[pending'].key \notin LockedKeys
    BY DEF HasPending
  <2>6. wipes' = 0 /\ Needed(d) => pending' # NoSeed
    BY DEF HasPending
  <2> QED
    BY <1>2, <2>1, <2>2, <2>3, <2>4, <2>5, <2>6 DEF PendingReady
<1>17. HeldReady'
  <2>1. Needed(d) => d.view \in PendingViews \cup {"SeedDiscardView"}
    BY Levels
  <2>2. Needed(d) /\ d.view \notin {"SeedAezeedPassphraseModeView", "SeedScanPassphraseView"} => held' # NoSeed
    BY <1>14, <1>15, <2>1 DEF PendingViews, PassphraseViews
  <2>3. Needed(d) /\ held' # NoSeed => held' \notin Stored'
    BY <1>13 DEF StorageSound
  <2> QED
    BY <1>2, <1>13, <1>14, <2>2, <2>3 DEF HeldReady
<1>18. TypeOK'
  BY <1>3, <1>8 DEF TypeOK, StorageSound, WordsTyped
<1> QED
  BY <1>8, <1>10, <1>11, <1>12, <1>16, <1>17, <1>18 DEF SeedInv, StorageSound

LEMMA ArriveLow ==
    ASSUME SeedInv, NEW d \in Destinations, Level(d) = 0, Laws!Lands(d, 0),
           CanShow(d), held' = HeldBy(d), listed' \in Nat,
           StorageSound', WordsTyped', pending' = NoSeed
    PROVE  SeedInv'
<1>1. Len(hist) \in Nat /\ 0 \in 0..Len(hist) /\ 1..0 = {}
  BY InvFacts
<1>2. Ready(d, mnemonic', kind') /\ ~Needed(d) /\ d.view # "ToolsCalcFinalWordDoneView"
  BY ReadyAnyway, Levels
<1>3. Fits(d, 0)
  BY <1>1 DEF Fits
<1>4. HasWords(d)' /\ HasPending(d)'
  BY <1>2 DEF HasWords, HasPending
<1> QED
  BY <1>1, <1>3, <1>4, Arrive

(* Whatever fails, without a pending seed the error is shown.               *)
LEMMA ErrorKeeps ==
    ASSUME SeedInv, Nav!Visit(Error, FALSE, TRUE), held' = NoSeed, listed' = 0,
           StorageSound', WordsTyped', pending' = NoSeed
    PROVE  SeedInv'
<1>1. Error \in Destinations /\ Level(Error) = 0 /\ Error.view = "UnhandledExceptionView" /\ Error.seed = NoSeed
  BY Endpoints, ViewOf DEF Error
<1>2. Laws!Lands(Error, 0)
  BY <1>1, InvFacts, NavHasLaws, Laws!ClearLands, Endpoints
<1>3. CanShow(Error) /\ HeldBy(Error) = NoSeed
  BY <1>1, ViewOf DEF CanShow, HeldBy, PendingViews, PassphraseViews
<1> QED
  BY <1>1, <1>2, <1>3, ArriveLow

LEMMA GotoShows ==
    ASSUME NEW d, Goto(d)
    PROVE  \/ CanShow(d) /\ Nav!Visit(d, FALSE, FALSE) /\ held' = HeldBy(d) /\ listed' \in {0, Len(seeds')}
           \/ ~CanShow(d) /\ Nav!Visit(Error, FALSE, TRUE) /\ held' = NoSeed /\ listed' = 0
<1>1. CASE CanShow(d)
  BY <1>1, Zenon DEF Goto, Show
<1>2. CASE ~CanShow(d)
  BY <1>2, Zenon DEF Goto, Show
<1> QED
  BY <1>1, <1>2

LEMMA RestartShows ==
    ASSUME NEW d, Restart(d)
    PROVE  \/ CanShow(d) /\ Nav!Visit(d, FALSE, TRUE) /\ held' = HeldBy(d) /\ listed' \in {0, Len(seeds')}
           \/ ~CanShow(d) /\ Nav!Visit(Error, FALSE, TRUE) /\ held' = NoSeed /\ listed' = 0
<1>1. CASE CanShow(d)
  BY <1>1, Zenon DEF Restart, Show
<1>2. CASE ~CanShow(d)
  BY <1>2, Zenon DEF Restart, Show
<1> QED
  BY <1>1, <1>2

LEMMA ListsEntries == ASSUME StorageSound', listed' \in {0, Len(seeds')} PROVE listed' \in Nat
BY DEF StorageSound

LEMMA RestartKeeps ==
    ASSUME SeedInv, NEW d \in Destinations, Level(d) = 0, Restart(d) \/ (d = Home /\ Goto(d)),
           StorageSound', WordsTyped', pending' = NoSeed
    PROVE  SeedInv'
<1>1. Laws!Tidy
  BY InvFacts
<1>2. CASE CanShow(d)
  <2>1. \/ Nav!Visit(d, FALSE, TRUE)
        \/ d = Home /\ Nav!Visit(d, FALSE, FALSE)
    BY <1>2, GotoShows, RestartShows
  <2>2. held' = HeldBy(d) /\ listed' \in Nat
    BY <1>2, GotoShows, RestartShows, ListsEntries
  <2>3. Laws!Lands(d, 0)
    BY <1>1, <2>1, NavHasLaws, Laws!ClearLands, Endpoints
  <2> QED
    BY <1>2, <2>2, <2>3, ArriveLow
<1>3. CASE ~CanShow(d)
  BY <1>3, GotoShows, RestartShows, ErrorKeeps
<1> QED
  BY <1>2, <1>3

LEMMA FailKeeps ==
    ASSUME SeedInv, Fail, StorageSound', WordsTyped', pending' = NoSeed
    PROVE  SeedInv'
BY RestartKeeps, Endpoints DEF Fail

HistoryReady == \A i \in 1..Len(hist) : Ready(hist[i], mnemonic', kind')

LEMMA GotoKeeps ==
    ASSUME SeedInv, NEW d \in Destinations, Goto(d), StorageSound', WordsTyped',
           Level(cur) <= Level(d), d.view = "SeedScanPassphraseView" => cur.view \in BeforeScan,
           pending' # NoSeed => CanShow(d),
           pending' # NoSeed => pending # NoSeed \/ (Level(cur) # 4 /\ d.view # "SeedScanPassphraseView"),
           HistoryReady, HasWords(d)', HasPending(d)'
    PROVE  SeedInv'
<1>1. \/ CanShow(d) /\ Nav!Visit(d, FALSE, FALSE) /\ held' = HeldBy(d) /\ listed' \in Nat
      \/ ~CanShow(d) /\ Nav!Visit(Error, FALSE, TRUE) /\ held' = NoSeed /\ listed' = 0
  BY GotoShows, ListsEntries
<1>2. CASE ~CanShow(d)
  BY <1>1, <1>2, ErrorKeeps
<1>3. CASE CanShow(d)
  <2>1. PICK n \in 0..Len(hist) : Laws!Lands(d, n) /\ (n = Len(hist) \/ hist[n + 1] = d)
    BY <1>1, <1>3, InvFacts, NavHasLaws, Laws!GotoLands, Endpoints
  <2>2. n \in Nat /\ Len(hist) \in Nat /\ DOMAIN hist = 1..Len(hist) /\ 1..n \subseteq 1..Len(hist)
    BY InvFacts
  <2>3. \A i \in 1..n : Level(hist[i]) <= Level(d)
    <3>1. \A i \in 1..n : Level(hist[i]) <= Level(cur)
      BY <2>2, InvFacts
    <3>2. \A i \in 1..n : Level(hist[i]) \in 0..4
      BY Levels
    <3>3. Level(cur) \in 0..4 /\ Level(d) \in 0..4
      BY Levels
    <3> QED
      BY <3>1, <3>2, <3>3
  <2>4. ASSUME d.view = "SeedScanPassphraseView", n >= 1
        PROVE  hist[n].view \in BeforeScan
    <3>1. CASE n = Len(hist)
      <4>1. hist # << >>
        BY <2>2, <2>4, <3>1
      <4> QED
        BY <2>4, <3>1, <4>1, InvFacts
    <3>2. CASE n # Len(hist)
      <4>1. n \in Nat /\ Len(hist) \in Nat /\ n \in 0..Len(hist)
        BY <2>2
      <4>2. n + 1 \in 1..Len(hist) /\ n + 1 > 1 /\ (n + 1) - 1 = n
        BY <2>4, <3>2, <4>1
      <4>3. n + 1 \in DOMAIN hist
        BY <2>2, <4>2
      <4> QED
        BY <2>1, <2>4, <3>2, <4>2, <4>3 DEF SeedInv, Climbs
    <3> QED
      BY <3>1, <3>2
  <2>5. ASSUME pending' # NoSeed
        PROVE  IF n = 0 THEN d.view # "SeedScanPassphraseView" ELSE hist[1].view # "SeedScanPassphraseView"
    <3>1. CASE pending # NoSeed
      <4>1. hist # << >> /\ hist[1].view # "SeedScanPassphraseView"
        BY <3>1 DEF SeedInv, PendingReady
      <4>2. Len(hist) >= 1
        BY <4>1, InvFacts
      <4>3. n = 0 => n + 1 = 1 /\ d = hist[1]
        BY <2>1, <2>2, <4>2
      <4> QED
        BY <4>1, <4>3
    <3>2. CASE pending = NoSeed
      <4>1. Level(cur) # 4 /\ d.view # "SeedScanPassphraseView"
        BY <2>5, <3>2
      <4>2. ASSUME n # 0 PROVE Level(hist[1]) # 4
        <5>1. 1 \in 1..Len(hist)
          BY <2>2, <4>2
        <5>2. Level(hist[1]) <= Level(cur)
          BY <5>1, InvFacts
        <5>3. Level(hist[1]) \in 0..4 /\ Level(cur) \in 0..4
          BY Levels
        <5> QED
          BY <4>1, <5>2, <5>3
      <4>3. hist[1].view = "SeedScanPassphraseView" => Level(hist[1]) = 4
        BY Levels DEF PendingViews, PassphraseViews
      <4> QED
        BY <4>1, <4>2, <4>3
    <3> QED
      BY <3>1, <3>2
  <2>6. Fits(d, n)
    BY <2>2, <2>3, <2>4, <2>5 DEF Fits, HistoryReady
  <2> QED
    BY <1>1, <1>3, <2>1, <2>6, Arrive
<1> QED
  BY <1>2, <1>3

LEMMA ForwardShows ==
    ASSUME NEW d, Forward(d)
    PROVE  \/ CanShow(d) /\ Nav!Visit(d, TRUE, FALSE) /\ held' = HeldBy(d) /\ listed' \in {0, Len(seeds')}
           \/ ~CanShow(d) /\ Nav!Visit(Error, FALSE, TRUE) /\ held' = NoSeed /\ listed' = 0
<1>1. CASE CanShow(d)
  BY <1>1, Zenon DEF Forward, Show
<1>2. CASE ~CanShow(d)
  BY <1>2, Zenon DEF Forward, Show
<1> QED
  BY <1>1, <1>2

LEMMA BackShows ==
    ASSUME NEW d, d = Laws!Below(FALSE), Back
    PROVE  \/ CanShow(d) /\ Nav!GoBack(FALSE) /\ held' = HeldBy(d) /\ listed' \in {0, Len(seeds')}
           \/ ~CanShow(d) /\ Nav!Visit(Error, FALSE, TRUE) /\ held' = NoSeed /\ listed' = 0
<1>1. d = IF Len(hist) < 2 THEN Home ELSE hist[Len(hist) - 1]
  BY NavHasLaws
<1>2. CASE CanShow(d)
  BY <1>1, <1>2, Zenon DEF Back, Show
<1>3. CASE ~CanShow(d)
  BY <1>1, <1>3, Zenon DEF Back, Show
<1> QED
  BY <1>2, <1>3

(* "Back" uncovers the view below.                                          *)
LEMMA BackUncovers ==
    ASSUME SeedInv, Back
    PROVE  \E d \in Destinations :
             /\ d = Laws!Below(FALSE)
             /\ \/ d = Home
                \/ Len(hist) - 1 \in 1..Len(hist) /\ d = hist[Len(hist) - 1] /\ hist[Len(hist)] = cur
             /\ CanShow(d) => /\ held' = HeldBy(d) /\ listed' \in {0, Len(seeds')}
                              /\ \E n \in 0..Len(hist) :
                                   /\ Laws!Lands(d, n)
                                   /\ d = Home \/ (n < Len(hist) /\ hist[n + 1] = d)
<1> DEFINE b == Laws!Below(FALSE)
<1>1. Laws!Tidy /\ Len(hist) \in Nat /\ (hist # << >> => hist[Len(hist)] = cur)
  BY InvFacts
<1>2. b = Home \/ (Len(hist) - 1 \in 1..Len(hist) /\ b = hist[Len(hist) - 1] /\ hist[Len(hist)] = cur)
  <2>1. CASE Len(hist) < 2
    BY <2>1, NavHasLaws
  <2>2. CASE ~(Len(hist) < 2)
    <3>1. Len(hist) - 1 \in 1..Len(hist) /\ hist # << >>
      BY <1>1, <2>2
    <3> QED
      BY <1>1, <2>2, <3>1, NavHasLaws
  <2> QED
    BY <2>1, <2>2
<1>3. b \in Destinations
  BY <1>2, InvFacts, Endpoints
<1> HIDE DEF b
<1>4. PICK d \in Destinations : d = b
  BY <1>3
<1>5. ASSUME CanShow(d)
      PROVE  /\ held' = HeldBy(d) /\ listed' \in {0, Len(seeds')}
             /\ \E n \in 0..Len(hist) :
                  /\ Laws!Lands(d, n)
                  /\ d = Home \/ (n < Len(hist) /\ hist[n + 1] = d)
  <2>1. d = Laws!Below(FALSE)
    BY <1>4 DEF b
  <2>2. Nav!GoBack(FALSE) /\ held' = HeldBy(d) /\ listed' \in {0, Len(seeds')}
    BY <1>5, <2>1, BackShows
  <2>3. Laws!GoBack(FALSE)
    BY <2>2, NavHasLaws
  <2> QED
    BY <1>1, <2>1, <2>2, <2>3, Laws!BackLands
<1> QED
  BY <1>2, <1>4, <1>5 DEF b

LEMMA BackKeeps ==
    ASSUME SeedInv, Back, StorageSound', WordsTyped', Level(cur) # 4, pending' = NoSeed,
           HistoryReady, Level(cur) \in {2, 3} => mnemonic' # << >>
    PROVE  SeedInv'
<1>1. PICK d \in Destinations :
        /\ d = Laws!Below(FALSE)
        /\ \/ d = Home
           \/ Len(hist) - 1 \in 1..Len(hist) /\ d = hist[Len(hist) - 1] /\ hist[Len(hist)] = cur
        /\ CanShow(d) => /\ held' = HeldBy(d) /\ listed' \in {0, Len(seeds')}
                         /\ \E n \in 0..Len(hist) :
                              /\ Laws!Lands(d, n)
                              /\ d = Home \/ (n < Len(hist) /\ hist[n + 1] = d)
  BY BackUncovers
<1>2. CASE ~CanShow(d)
  BY <1>1, <1>2, BackShows, ErrorKeeps
<1>3. CASE CanShow(d) /\ d = Home
  <2>1. PICK n \in 0..Len(hist) : Laws!Lands(d, n)
    BY <1>1, <1>3
  <2>2. 0 \in 0..Len(hist)
    BY InvFacts
  <2>3. cur' = d /\ hist' = << >>
    BY <1>3, <2>1 DEF Laws!Lands
  <2>4. Laws!Lands(d, 0)
    BY <1>3, <2>2, <2>3 DEF Laws!Lands
  <2> QED
    BY <1>1, <1>3, <2>4, ArriveLow, ListsEntries, Endpoints
<1>4. CASE CanShow(d) /\ d # Home
  <2>1. PICK n \in 0..Len(hist) : Laws!Lands(d, n) /\ n < Len(hist) /\ hist[n + 1] = d
    BY <1>1, <1>4
  <2>2. /\ n \in Nat /\ Len(hist) \in Nat /\ n < Len(hist)
        /\ Len(hist) - 1 \in 1..Len(hist) /\ d = hist[Len(hist) - 1] /\ hist[Len(hist)] = cur
    <3>1. Len(hist) \in Nat
      BY InvFacts
    <3>2. Len(hist) - 1 \in 1..Len(hist) /\ d = hist[Len(hist) - 1] /\ hist[Len(hist)] = cur
      BY <1>1, <1>4
    <3> QED
      BY <2>1, <3>1, <3>2
  <2>3. /\ n + 1 \in 1..Len(hist) /\ 1..n \subseteq 1..Len(hist) /\ \A i \in 1..n : i < n + 1
        /\ Len(hist) \in 1..Len(hist) /\ Len(hist) # Len(hist) - 1
    BY <2>2
  <2>4. \A i \in 1..n : Level(hist[i]) <= Level(d)
    <3>1. DOMAIN hist = 1..Len(hist)
      BY InvFacts
    <3> QED
      BY <2>1, <2>3, <3>1 DEF SeedInv, Climbs
  <2>5. d.view = "SeedScanPassphraseView" /\ n >= 1 => hist[n].view \in BeforeScan
    <3>1. n >= 1 => n + 1 > 1 /\ (n + 1) - 1 = n
      BY <2>2
    <3>2. DOMAIN hist = 1..Len(hist)
      BY InvFacts
    <3> QED
      BY <2>1, <2>3, <3>1, <3>2 DEF SeedInv, Climbs
  <2>6. Level(d) <= Level(cur) /\ Level(d) \in 0..4 /\ Level(cur) \in 0..4
    BY <2>2, InvFacts, Levels
  <2>7. d.view # "ToolsCalcFinalWordDoneView"
    <3> SUFFICES ASSUME d.view = "ToolsCalcFinalWordDoneView" PROVE FALSE
      OBVIOUS
    <3>1. Level(d) = 3
      BY Levels
    <3>2. Level(cur) = 3
      BY <2>6, <3>1
    <3>3. cur.view = "ToolsCalcFinalWordDoneView"
      BY <3>2, Levels
    <3>4. cur = d
      BY <3>3, InvFacts, ByView
    <3> QED
      BY <2>2, <2>3, <3>4, InvFacts
  <2>8. Fits(d, n)
    BY <2>3, <2>4, <2>5 DEF Fits, HistoryReady
  <2>9. HasWords(d)'
    <3>1. Ready(d, mnemonic', kind')
      BY <2>2 DEF HistoryReady
    <3>2. Level(d) \in {2, 3} => Level(cur) \in {2, 3}
      BY <2>6
    <3> QED
      BY <2>7, <3>1, <3>2 DEF HasWords
  <2>10. HasPending(d)'
    <3>1. ~Needed(d)
      BY <2>6, Levels
    <3> QED
      BY <3>1 DEF HasPending
  <2> QED
    BY <1>1, <1>4, <2>1, <2>8, <2>9, <2>10, Arrive, ListsEntries
<1> QED
  BY <1>2, <1>3, <1>4

-----------------------------------------------------------------------------
(* What is kept *)

LEMMA StorageKept ==
    ASSUME SeedInv, KeepsStorage, UNCHANGED wipes
    PROVE  StorageSound' /\ pending' = pending
<1>1. StorageSound /\ heap' = heap /\ seeds' = seeds /\ pending' = pending /\ wipes' = wipes
  BY InvFacts DEF KeepsStorage, storage
<1> QED
  BY <1>1 DEF StorageSound, StoredOnce, StoredSeedsUsable, Stored, Usable, HasBytes

LEMMA WordsKept ==
    ASSUME SeedInv, KeepsWords
    PROVE  WordsTyped' /\ HistoryReady /\ mnemonic' = mnemonic /\ kind' = kind
<1>1. WordsTyped /\ mnemonic' = mnemonic /\ kind' = kind /\ DOMAIN hist = 1..Len(hist)
  BY InvFacts DEF KeepsWords, words
<1> QED
  BY <1>1 DEF WordsTyped, HistoryReady, SeedInv, WordsReady

LEMMA WordsDropped ==
    ASSUME SeedInv, DiscardPendingMnemonic
    PROVE  WordsTyped' /\ HistoryReady /\ \A d : Ready(d, mnemonic', kind')
<1>1. mnemonic' = << >> /\ kind' = "bip39"
  BY DEF DiscardPendingMnemonic
<1>2. \A d : Ready(d, mnemonic', kind')
  BY <1>1, ReadyAnyway
<1> QED
  BY <1>1, <1>2 DEF WordsTyped, HistoryReady

LEMMA WordsStarted ==
    ASSUME SeedInv, NEW k \in {"bip39", "electrum", "aezeed"}, InitPendingMnemonic(k), Level(cur) = 0
    PROVE  WordsTyped' /\ HistoryReady /\ mnemonic' # << >> /\ kind' = k
<1>1. mnemonic' = [i \in 1..NumWords |-> NoWord] /\ kind' = k /\ NumWords \in Nat /\ NumWords > 1
  BY SeedFlowAssumption DEF InitPendingMnemonic
<1>2. mnemonic' \in Seq({NoWord, Typed, Checked}) /\ Len(mnemonic') = NumWords
  BY <1>1
<1>3. ASSUME NEW i \in 1..Len(hist) PROVE Level(hist[i]) = 0
  <2>1. Level(hist[i]) <= 0 /\ Level(hist[i]) \in 0..4
    BY InvFacts, Levels
  <2> QED
    BY <2>1
<1>4. HistoryReady
  BY <1>3, ReadyAnyway DEF HistoryReady
<1> QED
  BY <1>1, <1>2, <1>4, EmptySeq DEF WordsTyped

(* A word is entered, or the last one is taken back.                        *)
LEMMA WordsUpdated ==
    ASSUME SeedInv, NEW i \in 0..(Len(mnemonic) - 1), NEW w \in {NoWord, Typed, Checked},
           w # NoWord \/ i = Len(mnemonic) - 1, UpdatePendingMnemonic(w, i)
    PROVE  /\ WordsTyped' /\ HistoryReady /\ mnemonic' # << >> /\ kind' = kind
           /\ Len(mnemonic) = NumWords /\ Len(mnemonic') = NumWords
           /\ mnemonic'[i + 1] = w /\ \A j \in 1..NumWords : j # i + 1 => mnemonic'[j] = mnemonic[j]
           /\ \A d \in Destinations : Ready(d, mnemonic, kind) => Ready(d, mnemonic', kind')
<1>1. mnemonic' = [mnemonic EXCEPT ![i + 1] = w] /\ kind' = kind
  BY DEF UpdatePendingMnemonic
<1>2. WordsTyped /\ NumWords \in Nat /\ NumWords > 1
  BY InvFacts, SeedFlowAssumption
<1>3. Len(mnemonic) = NumWords /\ i + 1 \in 1..NumWords /\ mnemonic \in Seq({NoWord, Typed, Checked})
  BY <1>2 DEF WordsTyped
<1>4. mnemonic' \in Seq({NoWord, Typed, Checked}) /\ Len(mnemonic') = NumWords
  BY <1>1, <1>3
<1>5. mnemonic'[i + 1] = w /\ \A j \in 1..NumWords : j # i + 1 => mnemonic'[j] = mnemonic[j]
  BY <1>1, <1>3
<1>6. mnemonic # << >> /\ mnemonic' # << >>
  BY <1>2, <1>3, <1>4, EmptySeq
<1>7. ASSUME NEW n \in 0..(NumWords - 1), Filled(mnemonic, n)
      PROVE  Filled(mnemonic', n)
  <2> SUFFICES ASSUME NEW j \in 1..n PROVE mnemonic'[j] # NoWord
    BY DEF Filled
  <2>1. j \in 1..NumWords /\ j # NumWords /\ mnemonic[j] # NoWord
    BY <1>2, <1>7 DEF Filled
  <2>2. CASE j = i + 1
    BY <1>2, <1>3, <1>5, <2>1, <2>2
  <2>3. CASE j # i + 1
    BY <1>5, <2>1, <2>3
  <2> QED
    BY <2>2, <2>3
<1>8. ASSUME NEW d \in Destinations, Ready(d, mnemonic, kind)
      PROVE  Ready(d, mnemonic', kind')
  <2>1. d.word \in 0..(NumWords - 1) /\ NumWords - 1 \in 0..(NumWords - 1)
    BY <1>2, ByView
  <2> QED
    BY <1>1, <1>6, <1>7, <1>8, <2>1 DEF Ready
<1>9. HistoryReady
  <2>1. \A j \in 1..Len(hist) : hist[j] \in Destinations /\ Ready(hist[j], mnemonic, kind)
    BY InvFacts DEF SeedInv, WordsReady
  <2> QED
    BY <1>8, <2>1 DEF HistoryReady
<1> QED
  BY <1>1, <1>2, <1>3, <1>4, <1>5, <1>6, <1>8, <1>9 DEF WordsTyped

LEMMA HasNoWords ==
    ASSUME NEW d, Level(d) \in {0, 4}
    PROVE  HasWords(d)'
<1>1. Ready(d, mnemonic', kind') /\ d.view # "ToolsCalcFinalWordDoneView" /\ Level(d) \notin {2, 3}
  BY ReadyAnyway, Levels
<1> QED
  BY <1>1 DEF HasWords

(* From a view of the entry, or a menu, to another.                         *)
LEMMA GotoUnpended ==
    ASSUME SeedInv, NEW d \in Destinations, Goto(d), KeepsStorage, UNCHANGED wipes, WordsTyped',
           Level(cur) <= Level(d), Level(d) # 4, HistoryReady, HasWords(d)'
    PROVE  SeedInv'
<1>1. StorageSound' /\ pending' = pending
  BY StorageKept
<1>2. Level(cur) # 4
  <2>1. Level(cur) \in 0..4 /\ Level(d) \in 0..4
    BY Levels
  <2> QED
    BY <2>1
<1>3. pending' = NoSeed
  BY <1>1, <1>2, InvFacts
<1>4. d.view # "SeedScanPassphraseView" /\ ~Needed(d)
  BY Levels DEF PendingViews, PassphraseViews
<1>5. HasPending(d)'
  BY <1>3, <1>4 DEF HasPending
<1> QED
  BY <1>1, <1>3, <1>4, <1>5, GotoKeeps

(* From a view of the pending seed to another.                              *)
LEMMA GotoPended ==
    ASSUME SeedInv, NEW d \in Destinations, Goto(d), StorageSound', UNCHANGED <<pending, wipes>>, KeepsWords,
           Level(cur) = 4, Level(d) = 4, d.view = "SeedScanPassphraseView" => cur.view \in BeforeScan,
           pending # NoSeed => CanShow(d),
           pending # NoSeed /\ d.view \in {"SeedAddPassphraseExitDialogView", "SeedReviewPassphraseView"}
             => heap'[pending].key \notin LockedKeys
    PROVE  SeedInv'
<1>1. pending' = pending /\ wipes' = wipes
  OBVIOUS
<1>2. WordsTyped' /\ HistoryReady
  BY WordsKept
<1>3. Needed(d)
  BY Levels
<1>4. wipes = 0 => pending # NoSeed
  BY InvFacts
<1>5. HasPending(d)'
  BY <1>1, <1>3, <1>4 DEF HasPending
<1>6. HasWords(d)'
  BY HasNoWords
<1>7. Level(cur) <= Level(d)
  OBVIOUS
<1> QED
  BY <1>1, <1>2, <1>5, <1>6, <1>7, GotoKeeps

LEMMA GotoMenu ==
    ASSUME SeedInv, Level(cur) = 0, NEW d \in Destinations, Level(d) = 0, Goto(d), KeepsAll, UNCHANGED wipes
    PROVE  SeedInv'
<1>1. WordsTyped' /\ HistoryReady
  BY WordsKept DEF KeepsAll
<1>2. HasWords(d)'
  BY HasNoWords
<1> QED
  BY <1>1, <1>2, GotoUnpended DEF KeepsAll

LEMMA BackUnchanged ==
    ASSUME SeedInv, Level(cur) # 4, Back, KeepsAll, UNCHANGED wipes
    PROVE  SeedInv'
<1>1. WordsTyped' /\ HistoryReady /\ mnemonic' = mnemonic
  BY WordsKept DEF KeepsAll
<1>2. StorageSound' /\ pending' = NoSeed
  BY StorageKept, InvFacts DEF KeepsAll
<1>3. Level(cur) \in {2, 3} => mnemonic' # << >>
  BY <1>1 DEF SeedInv, WordsReady
<1> QED
  BY <1>1, <1>2, <1>3, BackKeeps

LEMMA FailUnchanged ==
    ASSUME SeedInv, pending = NoSeed, Fail, KeepsAll, UNCHANGED wipes
    PROVE  SeedInv'
<1>1. WordsTyped' /\ StorageSound' /\ pending' = NoSeed
  BY WordsKept, StorageKept DEF KeepsAll
<1> QED
  BY <1>1, FailKeeps

-----------------------------------------------------------------------------
(* Menus *)

LEMMA MenuIs ==
    /\ \A v \in PlainViews \cap MenuViews : Plain(v) \in Destinations /\ Level(Plain(v)) = 0
    /\ {"SeedsMenuView", "LoadSeedView", "SeedElectrumMnemonicStartView", "SeedAezeedMnemonicStartView",
        "ToolsMenuView", "ToolsCalcFinalWordNumWordsView"} \subseteq PlainViews \cap MenuViews
<1>1. \A v \in MenuViews : Level(Plain(v)) = 0
  BY ViewOf, Levels
<1> QED
  BY <1>1, Endpoints DEF PlainViews, MenuViews

LEMMA OfSeedIs ==
    ASSUME NEW v \in {"SeedOptionsView", "SeedDiscardView"}, NEW o \in Objects \cup {NoSeed}
    PROVE  /\ OfSeed(v, o) \in Destinations /\ OfSeed(v, o).view = v /\ OfSeed(v, o).seed = o
           /\ v = "SeedOptionsView" \/ o # NoSeed => Level(OfSeed(v, o)) = 0
<1>1. OfSeed(v, o) \in Destinations
  BY DEF Destinations
<1>2. OfSeed(v, o).view = v /\ OfSeed(v, o).seed = o
  BY ViewOf
<1>3. v = "SeedOptionsView" => Level(OfSeed(v, o)) = 0
  BY <1>2, Levels DEF MenuViews
<1>4. ASSUME v = "SeedDiscardView", o # NoSeed PROVE Level(OfSeed(v, o)) = 0
  <2>1. OfSeed(v, o) # Plain("SeedDiscardView")
    BY <1>1, <1>2, <1>4, ByView
  <2>2. ~Needed(OfSeed(v, o))
    BY <1>2, <1>4, <2>1 DEF Needed, PendingViews, PassphraseViews
  <2>3. Level(OfSeed(v, o)) # 4 /\ Level(OfSeed(v, o)) \in {0, 4}
    BY <1>2, <1>4, <2>2, Levels
  <2> QED
    BY <2>3
<1> QED
  BY <1>1, <1>2, <1>3, <1>4

LEMMA EntryIs ==
    ASSUME NEW i \in 0..(NumWords - 1), NEW calc \in BOOLEAN
    PROVE  /\ Entry(i, calc) \in Destinations /\ Entry(i, calc).view = "SeedMnemonicEntryView"
           /\ Entry(i, calc).word = i /\ Entry(i, calc).calc = calc
           /\ Level(Entry(i, calc)) = IF calc /\ i > 0 THEN 2 ELSE 1
<1>1. Entry(i, calc) \in Destinations
  BY DEF Destinations
<1>2. /\ Entry(i, calc).view = "SeedMnemonicEntryView"
      /\ Entry(i, calc).word = i /\ Entry(i, calc).calc = calc
  BY ViewOf
<1> QED
  BY <1>1, <1>2, Levels DEF IsEntry

LEMMA MainMenuKeeps == ASSUME SeedInv, MainMenu PROVE SeedInv'
<1>1. Level(cur) = 0 /\ KeepsAll /\ UNCHANGED wipes
  BY Levels DEF MainMenu, At, MenuViews
<1>2. PICK v \in {"SeedsMenuView", "ToolsMenuView"} : Goto(Plain(v))
  BY DEF MainMenu
<1> QED
  BY <1>1, <1>2, MenuIs, GotoMenu

LEMMA LeaveErrorKeeps == ASSUME SeedInv, LeaveError PROVE SeedInv'
<1>1. Level(cur) = 0 /\ KeepsAll /\ UNCHANGED wipes /\ Restart(Home)
  BY Levels DEF LeaveError, At, MenuViews
<1>2. pending = NoSeed
  BY <1>1, InvFacts
<1>3. StorageSound' /\ WordsTyped' /\ pending' = NoSeed
  BY <1>1, <1>2, StorageKept, WordsKept DEF KeepsAll
<1> QED
  BY <1>1, <1>3, RestartKeeps, Endpoints

LEMMA SeedsMenuKeeps == ASSUME SeedInv, SeedsMenu PROVE SeedInv'
<1>1. Level(cur) = 0 /\ KeepsAll /\ UNCHANGED wipes
  BY Levels DEF SeedsMenu, At, MenuViews
<1>2. pending = NoSeed
  BY <1>1, InvFacts
<1>3. StorageSound' /\ WordsTyped' /\ pending' = NoSeed
  BY <1>1, <1>2, StorageKept, WordsKept DEF KeepsAll
<1>4. Plain("LoadSeedView") \in Destinations /\ Level(Plain("LoadSeedView")) = 0
  BY MenuIs
<1>5. CASE Restart(Plain("LoadSeedView"))
  BY <1>3, <1>4, <1>5, RestartKeeps
<1>6. CASE Back
  BY <1>1, <1>6, BackUnchanged
<1>7. CASE Goto(Plain("LoadSeedView"))
  BY <1>1, <1>4, <1>7, GotoMenu
<1>8. CASE \E i \in DOMAIN seeds : Goto(OfSeed("SeedOptionsView", seeds[i]))
  <2>1. PICK i \in DOMAIN seeds : Goto(OfSeed("SeedOptionsView", seeds[i]))
    BY <1>8
  <2>2. seeds[i] \in Objects \cup {NoSeed}
    BY InvFacts DEF StorageSound
  <2>3. PICK o \in Objects \cup {NoSeed} : o = seeds[i]
    BY <2>2
  <2>4. Goto(OfSeed("SeedOptionsView", o))
    BY <2>1, <2>3
  <2> QED
    BY <1>1, <2>4, OfSeedIs, GotoMenu
<1>9. CASE Fail
  BY <1>1, <1>2, <1>9, FailUnchanged
<1> QED
  BY <1>5, <1>6, <1>7, <1>8, <1>9 DEF SeedsMenu

(* Starting the entry of a mnemonic, from a menu.                           *)
LEMMA StartKeeps ==
    ASSUME SeedInv, Level(cur) = 0, NEW k \in {"bip39", "electrum", "aezeed"}, InitPendingMnemonic(k),
           NEW calc \in BOOLEAN, calc => k = "bip39", Goto(Entry(0, calc)), KeepsStorage, UNCHANGED wipes
    PROVE  SeedInv'
<1>1. 0 \in 0..(NumWords - 1)
  BY SeedFlowAssumption
<1>2. /\ Entry(0, calc) \in Destinations /\ Entry(0, calc).view = "SeedMnemonicEntryView"
      /\ Entry(0, calc).word = 0 /\ Entry(0, calc).calc = calc /\ Level(Entry(0, calc)) = 1
  BY <1>1, EntryIs
<1>3. WordsTyped' /\ HistoryReady /\ mnemonic' # << >> /\ kind' = k
  BY WordsStarted
<1>4. Ready(Entry(0, calc), mnemonic', kind')
  BY <1>2, <1>3 DEF Ready, Filled, Calculates, CalcViews, IsEntry
<1>5. HasWords(Entry(0, calc))'
  BY <1>2, <1>3, <1>4 DEF HasWords
<1> QED
  BY <1>2, <1>3, <1>5, GotoUnpended

LEMMA LoadSeedKeeps == ASSUME SeedInv, LoadSeed PROVE SeedInv'
<1>1. Level(cur) = 0 /\ KeepsStorage /\ UNCHANGED wipes
  BY Levels DEF LoadSeed, At, MenuViews
<1>2. CASE KeepsWords /\ Back
  BY <1>1, <1>2, BackUnchanged DEF KeepsAll
<1>3. CASE InitPendingMnemonic("bip39") /\ Goto(Entry(0, FALSE))
  BY <1>1, <1>3, StartKeeps
<1>4. CASE KeepsWords /\ Goto(Plain("SeedElectrumMnemonicStartView"))
  BY <1>1, <1>4, MenuIs, GotoMenu DEF KeepsAll
<1>5. CASE KeepsWords /\ Goto(Plain("SeedAezeedMnemonicStartView"))
  BY <1>1, <1>5, MenuIs, GotoMenu DEF KeepsAll
<1> QED
  BY <1>2, <1>3, <1>4, <1>5 DEF LoadSeed

LEMMA StartMnemonicKeeps == ASSUME SeedInv, StartElectrum \/ StartAezeed PROVE SeedInv'
<1>1. PICK k \in {"electrum", "aezeed"} :
        /\ Level(cur) = 0 /\ KeepsStorage /\ UNCHANGED wipes
        /\ InitPendingMnemonic(k) /\ Goto(Entry(0, FALSE))
  BY Levels DEF StartElectrum, StartAezeed, StartMnemonic, At, MenuViews
<1> QED
  BY <1>1, StartKeeps

LEMMA ToolsMenuKeeps == ASSUME SeedInv, ToolsMenu PROVE SeedInv'
<1>1. Level(cur) = 0 /\ KeepsAll /\ UNCHANGED wipes
  BY Levels DEF ToolsMenu, At, MenuViews
<1> QED
  BY <1>1, MenuIs, GotoMenu, BackUnchanged DEF ToolsMenu

LEMMA CalcNumWordsKeeps == ASSUME SeedInv, CalcNumWords PROVE SeedInv'
<1>1. Level(cur) = 0 /\ KeepsStorage /\ UNCHANGED wipes
  BY Levels DEF CalcNumWords, At, MenuViews
<1>2. CASE KeepsWords /\ Back
  BY <1>1, <1>2, BackUnchanged DEF KeepsAll
<1>3. CASE InitPendingMnemonic("bip39") /\ Goto(Entry(0, TRUE))
  BY <1>1, <1>3, StartKeeps
<1> QED
  BY <1>2, <1>3 DEF CalcNumWords

-----------------------------------------------------------------------------
(* Typing a mnemonic *)

LEMMA ReadyFinds ==
    ASSUME SeedInv
    PROVE  /\ IsEntry(cur) /\ mnemonic # << >> => Filled(mnemonic, cur.word)
           /\ cur.view \in CalcViews /\ mnemonic # << >> => Filled(mnemonic, NumWords - 1)
           /\ Calculates(cur) => kind = "bip39"
           /\ Level(cur) \in {2, 3} => mnemonic # << >> /\ Len(mnemonic) = NumWords
<1>1. Ready(cur, mnemonic, kind) /\ (Level(cur) \in {2, 3} => mnemonic # << >>)
  BY DEF SeedInv, WordsReady
<1>2. mnemonic # << >> => Len(mnemonic) = NumWords
  BY InvFacts, EmptySeq DEF WordsTyped
<1> QED
  BY <1>1, <1>2 DEF Ready

LEMMA CalcReady ==
    ASSUME NEW d, d.view \in CalcViews, NEW m, NEW k, m # << >> => Filled(m, NumWords - 1), k = "bip39"
    PROVE  Ready(d, m, k)
BY DEF Ready, IsEntry, CalcViews

LEMMA EntryReady ==
    ASSUME NEW i \in 0..(NumWords - 1), NEW calc \in BOOLEAN, NEW m, NEW k,
           m # << >> => Filled(m, i), calc => k = "bip39"
    PROVE  Ready(Entry(i, calc), m, k)
BY EntryIs DEF Ready, IsEntry, Calculates, CalcViews

LEMMA CalcIs ==
    /\ \A d \in {Plain("ToolsCalcFinalWordFinalizePromptView"), Plain("ToolsCalcFinalWordCoinFlipsView"),
               ShowFinalWord(TRUE), ShowFinalWord(FALSE)} :
          d \in Destinations /\ d.view \in CalcViews /\ Level(d) = 2 /\ d.view # "ToolsCalcFinalWordDoneView"
    /\ Plain("ToolsCalcFinalWordDoneView") \in Destinations /\ Level(Plain("ToolsCalcFinalWordDoneView")) = 3
<1>1. \A v \in CalcViews \ {"ToolsCalcFinalWordShowFinalWordView"} : Plain(v) \in Destinations /\ Plain(v).view = v
  BY Endpoints, ViewOf DEF PlainViews
<1>2. \A coin \in BOOLEAN : /\ ShowFinalWord(coin) \in Destinations
                            /\ ShowFinalWord(coin).view = "ToolsCalcFinalWordShowFinalWordView"
  BY ViewOf DEF Destinations
<1>3. ASSUME NEW d \in {Plain("ToolsCalcFinalWordFinalizePromptView"), Plain("ToolsCalcFinalWordCoinFlipsView"),
                       ShowFinalWord(TRUE), ShowFinalWord(FALSE)}
      PROVE  d \in Destinations /\ d.view \in CalcViews /\ Level(d) = 2 /\ d.view # "ToolsCalcFinalWordDoneView"
  <2>1. CASE d \in {Plain("ToolsCalcFinalWordFinalizePromptView"), Plain("ToolsCalcFinalWordCoinFlipsView")}
    BY <1>1, <2>1, Levels DEF CalcViews
  <2>2. CASE d \in {ShowFinalWord(TRUE), ShowFinalWord(FALSE)}
    BY <1>2, <2>2, Levels DEF CalcViews
  <2> QED
    BY <2>1, <2>2
<1>4. Plain("ToolsCalcFinalWordDoneView") \in Destinations
  BY Endpoints DEF PlainViews, CalcViews
<1> QED
  BY <1>4, <1>3, ViewOf, Levels

LEMMA OnEntry ==
    ASSUME SeedInv, At("SeedMnemonicEntryView")
    PROVE  /\ IsEntry(cur) /\ UNCHANGED wipes /\ pending = NoSeed
           /\ Level(cur) = IF cur.calc /\ cur.word > 0 THEN 2 ELSE 1
           /\ cur.word \in 0..(NumWords - 1) /\ cur.calc \in BOOLEAN
<1>1. IsEntry(cur) /\ UNCHANGED wipes
  BY DEF At, IsEntry
<1>2. Level(cur) = IF cur.calc /\ cur.word > 0 THEN 2 ELSE 1
  BY <1>1, Levels
<1> QED
  BY <1>1, <1>2, InvFacts, ByView

LEMMA EntryBackKeeps == ASSUME SeedInv, EntryBack PROVE SeedInv'
<1>1. /\ UNCHANGED wipes /\ pending = NoSeed /\ KeepsStorage /\ Back
      /\ Level(cur) = IF cur.calc /\ cur.word > 0 THEN 2 ELSE 1
  BY OnEntry DEF EntryBack
<1>2. CASE cur.word = 0 /\ DiscardPendingMnemonic
  <2>1. Level(cur) = 1
    BY <1>1, <1>2
  <2>2. WordsTyped' /\ HistoryReady /\ StorageSound' /\ pending' = NoSeed
    BY <1>1, <1>2, WordsDropped, StorageKept
  <2> QED
    BY <1>1, <2>1, <2>2, BackKeeps
<1>3. CASE KeepsWords
  BY <1>1, <1>3, BackUnchanged DEF KeepsAll
<1> QED
  BY <1>2, <1>3 DEF EntryBack

LEMMA WordRefusedKeeps == ASSUME SeedInv, WordRefused PROVE SeedInv'
BY OnEntry, FailUnchanged DEF WordRefused

(* The word on screen is entered.                                           *)
LEMMA WordEntered ==
    ASSUME SeedInv, AcceptsWord, UpdatePendingMnemonic(Typed, cur.word)
    PROVE  /\ WordsTyped' /\ HistoryReady /\ mnemonic' # << >> /\ kind' = kind
           /\ Len(mnemonic) = NumWords /\ Len(mnemonic') = NumWords
           /\ Filled(mnemonic', cur.word + 1)
<1>1. /\ IsEntry(cur) /\ cur.word \in 0..(NumWords - 1) /\ cur.word < Len(mnemonic)
      /\ mnemonic \in Seq({NoWord, Typed, Checked})
  BY OnEntry, InvFacts DEF AcceptsWord, WordsTyped
<1>2. PICK i \in 0..(NumWords - 1) : i = cur.word
  BY <1>1
<1>3. i \in 0..(Len(mnemonic) - 1) /\ mnemonic # << >> /\ i \in Nat
  BY <1>1, <1>2, EmptySeq, SeedFlowAssumption
<1>4. UpdatePendingMnemonic(Typed, i)
  BY <1>2
<1>5. /\ WordsTyped' /\ HistoryReady /\ mnemonic' # << >> /\ kind' = kind
      /\ Len(mnemonic) = NumWords /\ Len(mnemonic') = NumWords
      /\ mnemonic'[i + 1] = Typed /\ \A j \in 1..NumWords : j # i + 1 => mnemonic'[j] = mnemonic[j]
  BY <1>3, <1>4, WordsUpdated DEF Typed, NoWord
<1>6. Filled(mnemonic, i)
  BY <1>1, <1>2, <1>3, ReadyFinds
<1>7. Filled(mnemonic', i + 1)
  <2> SUFFICES ASSUME NEW j \in 1..(i + 1) PROVE mnemonic'[j] # NoWord
    BY DEF Filled
  <2>1. CASE j = i + 1
    BY <1>5, <2>1 DEF Typed, NoWord
  <2>2. CASE j # i + 1
    <3>1. j \in 1..i /\ j \in 1..NumWords
      BY <1>1, <1>2, <1>3, <1>5, <2>2
    <3> QED
      BY <1>5, <1>6, <2>2, <3>1 DEF Filled
  <2> QED
    BY <2>1, <2>2
<1> QED
  BY <1>2, <1>5, <1>7

LEMMA WordTypedKeeps == ASSUME SeedInv, WordTyped PROVE SeedInv'
<1>1. AcceptsWord /\ KeepsStorage /\ UpdatePendingMnemonic(Typed, cur.word)
  BY DEF WordTyped
<1>2. /\ IsEntry(cur) /\ UNCHANGED wipes /\ Level(cur) = IF cur.calc /\ cur.word > 0 THEN 2 ELSE 1
      /\ cur.word \in 0..(NumWords - 1) /\ cur.calc \in BOOLEAN
  BY <1>1, OnEntry DEF AcceptsWord
<1>3. /\ WordsTyped' /\ HistoryReady /\ mnemonic' # << >> /\ kind' = kind
      /\ Len(mnemonic) = NumWords /\ Len(mnemonic') = NumWords
      /\ Filled(mnemonic', cur.word + 1)
  BY <1>1, WordEntered
<1>4. cur.calc => kind' = "bip39"
  BY <1>2, <1>3, ReadyFinds DEF Calculates
<1>5. NumWords \in Nat /\ NumWords > 1
  BY SeedFlowAssumption
<1>6. PICK i \in 0..(NumWords - 1), calc \in BOOLEAN : i = cur.word /\ calc = cur.calc
  BY <1>2
<1>7. ASSUME calc, i >= NumWords - 2,
             NEW d \in {Plain("ToolsCalcFinalWordFinalizePromptView"), ShowFinalWord(FALSE)}, Goto(d)
      PROVE  SeedInv'
  <2>1. Filled(mnemonic', NumWords - 1)
    <3>1. \A j \in 1..(NumWords - 1) : j \in 1..(i + 1)
      BY <1>5, <1>7
    <3> QED
      BY <1>3, <1>6, <3>1 DEF Filled
  <2>2. d \in Destinations /\ d.view \in CalcViews /\ Level(d) = 2 /\ d.view # "ToolsCalcFinalWordDoneView"
    BY CalcIs
  <2>3. Ready(d, mnemonic', kind')
    BY <1>4, <1>6, <1>7, <2>1, <2>2, CalcReady
  <2>4. HasWords(d)'
    BY <1>3, <2>2, <2>3 DEF HasWords
  <2>5. Level(cur) <= Level(d)
    BY <1>2, <2>2
  <2> QED
    BY <1>1, <1>2, <1>3, <1>7, <2>2, <2>4, <2>5, GotoUnpended
<1>8. ASSUME i < NumWords - 1, Goto(Entry(i + 1, calc))
      PROVE  SeedInv'
  <2>1. i + 1 \in 0..(NumWords - 1) /\ i + 1 > 0
    BY <1>5, <1>8
  <2> DEFINE d == Entry(i + 1, calc)
  <2>2. d \in Destinations /\ d.view = "SeedMnemonicEntryView" /\ Level(d) = IF calc THEN 2 ELSE 1
    BY <2>1, EntryIs
  <2>3. Ready(d, mnemonic', kind')
    BY <1>3, <1>4, <1>6, <2>1, EntryReady
  <2> HIDE DEF d
  <2>4. HasWords(d)'
    BY <1>3, <2>2, <2>3 DEF HasWords
  <2>5. Level(cur) <= Level(d)
    BY <1>2, <1>6, <2>2
  <2>6. Goto(d)
    BY <1>8 DEF d
  <2> QED
    BY <1>1, <1>2, <1>3, <2>2, <2>4, <2>5, <2>6, GotoUnpended
<1>9. \/ calc /\ i = NumWords - 2 /\ Goto(Plain("ToolsCalcFinalWordFinalizePromptView"))
      \/ calc /\ i = NumWords - 1 /\ Goto(ShowFinalWord(FALSE))
      \/ i < NumWords - 1 /\ Goto(Entry(i + 1, calc))
  <2>1. \/ cur.calc /\ cur.word = NumWords - 2 /\ Goto(Plain("ToolsCalcFinalWordFinalizePromptView"))
        \/ cur.calc /\ cur.word = NumWords - 1 /\ Goto(ShowFinalWord(FALSE))
        \/ (cur.word < NumWords - 2 \/ cur.word < NumWords - 1) /\ Goto(Entry(cur.word + 1, cur.calc))
    BY <1>3 DEF WordTyped
  <2>2. CASE (cur.word < NumWords - 2 \/ cur.word < NumWords - 1) /\ Goto(Entry(cur.word + 1, cur.calc))
    <3>1. i < NumWords - 1
      BY <1>5, <1>6, <2>2
    <3>2. Entry(cur.word + 1, cur.calc) = Entry(i + 1, calc)
      BY <1>6
    <3> QED
      BY <2>2, <3>1, <3>2
  <2> QED
    BY <1>6, <2>1, <2>2
<1>10. i = NumWords - 2 \/ i = NumWords - 1 => i >= NumWords - 2
  BY <1>5
<1> QED
  BY <1>7, <1>8, <1>9, <1>10

LEMMA LastWordInvalidKeeps == ASSUME SeedInv, LastWordInvalid PROVE SeedInv'
<1>1. AcceptsWord /\ KeepsStorage /\ UpdatePendingMnemonic(Typed, cur.word) /\ ~cur.calc
  BY DEF LastWordInvalid, EndsMnemonic
<1>2. UNCHANGED wipes /\ Level(cur) = 1 /\ pending = NoSeed
  BY <1>1, OnEntry DEF AcceptsWord
<1>3. WordsTyped' /\ HistoryReady
  BY <1>1, WordEntered
<1> DEFINE d == Plain("SeedMnemonicInvalidView")
<1>4. d \in Destinations /\ d.view = "SeedMnemonicInvalidView"
  BY ViewOf, Endpoints DEF PlainViews
<1> HIDE DEF d
<1>5. Level(d) = 1
  BY <1>4, Levels
<1>6. HasWords(d)'
  BY <1>4, <1>5 DEF HasWords, Ready, IsEntry, Calculates, CalcViews
<1>7. Goto(d) => SeedInv'
  BY <1>1, <1>2, <1>3, <1>4, <1>5, <1>6, GotoUnpended
<1>8. Fail => SeedInv'
  BY <1>1, <1>2, <1>3, StorageKept, FailKeeps
<1> QED
  BY <1>7, <1>8 DEF LastWordInvalid, d

LEMMA InvalidMnemonicKeeps == ASSUME SeedInv, InvalidMnemonic PROVE SeedInv'
<1>1. Level(cur) = 1 /\ KeepsStorage /\ UNCHANGED wipes
  BY Levels DEF InvalidMnemonic, At
<1>2. pending = NoSeed
  BY <1>1, InvFacts
<1>3. CASE KeepsWords /\ Goto(EditWords)
  <2>1. /\ EditWords \in Destinations /\ EditWords.view = "SeedMnemonicEntryView"
        /\ EditWords.word = 0 /\ EditWords.calc = FALSE
    BY ViewOf DEF Destinations
  <2>2. Level(EditWords) = 1
    BY <2>1, Levels DEF IsEntry
  <2>3. HasWords(EditWords)'
    BY <2>1, <2>2 DEF HasWords, Ready, IsEntry, Calculates, CalcViews, Filled
  <2> QED
    BY <1>1, <1>3, <2>1, <2>2, <2>3, WordsKept, GotoUnpended
<1>4. CASE DiscardPendingMnemonic /\ Goto(Home)
  BY <1>1, <1>2, <1>4, WordsDropped, StorageKept, RestartKeeps, Endpoints
<1> QED
  BY <1>3, <1>4 DEF InvalidMnemonic

-----------------------------------------------------------------------------
(* Calculating the final word *)

LEMMA OnCalculation ==
    ASSUME SeedInv, cur.view \in CalcViews \ {"ToolsCalcFinalWordDoneView"}
    PROVE  /\ Level(cur) = 2 /\ pending = NoSeed /\ kind = "bip39"
           /\ mnemonic # << >> /\ Len(mnemonic) = NumWords /\ Filled(mnemonic, NumWords - 1)
           /\ NumWords \in Nat /\ NumWords > 1 /\ NumWords - 1 \in 0..(Len(mnemonic) - 1)
<1>1. Level(cur) = 2
  BY Levels
<1>2. pending = NoSeed
  BY <1>1, InvFacts
<1>3. /\ kind = "bip39" /\ mnemonic # << >> /\ Len(mnemonic) = NumWords
      /\ Filled(mnemonic, NumWords - 1)
  BY <1>1, ReadyFinds DEF Calculates
<1> QED
  BY <1>1, <1>2, <1>3, SeedFlowAssumption

(* To another view of the calculation, the words kept.                      *)
LEMMA GotoCalculation ==
    ASSUME SeedInv, cur.view \in CalcViews \ {"ToolsCalcFinalWordDoneView"}, KeepsAll, UNCHANGED wipes,
           NEW d \in {Plain("ToolsCalcFinalWordCoinFlipsView"), ShowFinalWord(TRUE)}, Goto(d)
    PROVE  SeedInv'
<1>1. d \in Destinations /\ d.view \in CalcViews /\ Level(d) = 2 /\ d.view # "ToolsCalcFinalWordDoneView"
  BY CalcIs
<1>2. WordsTyped' /\ HistoryReady /\ mnemonic' = mnemonic /\ kind' = kind
  BY WordsKept DEF KeepsAll
<1>3. Ready(d, mnemonic', kind')
  BY <1>1, <1>2, OnCalculation, CalcReady
<1>4. HasWords(d)'
  BY <1>1, <1>2, <1>3, OnCalculation DEF HasWords
<1>5. Level(cur) <= Level(d)
  BY <1>1, OnCalculation
<1> QED
  BY <1>1, <1>2, <1>4, <1>5, GotoUnpended DEF KeepsAll

LEMMA CalcPromptKeeps == ASSUME SeedInv, CalcPrompt PROVE SeedInv'
<1>1. /\ cur.view \in CalcViews \ {"ToolsCalcFinalWordDoneView"} /\ UNCHANGED wipes /\ KeepsStorage
  BY DEF CalcPrompt, At, CalcViews
<1>2. /\ Level(cur) = 2 /\ kind = "bip39" /\ Len(mnemonic) = NumWords /\ Filled(mnemonic, NumWords - 1)
      /\ NumWords \in Nat /\ NumWords > 1 /\ NumWords - 1 \in 0..(Len(mnemonic) - 1)
  BY <1>1, OnCalculation
<1>3. CASE KeepsWords /\ Back
  BY <1>1, <1>2, <1>3, BackUnchanged DEF KeepsAll
<1>4. CASE KeepsWords /\ Goto(Plain("ToolsCalcFinalWordCoinFlipsView"))
  BY <1>1, <1>4, GotoCalculation DEF KeepsAll
<1>5. ASSUME NEW w \in {NoWord, Typed}, UpdatePendingMnemonic(w, Len(mnemonic) - 1),
             NEW d \in Destinations, Goto(d), Ready(d, mnemonic, kind), Level(d) = 2
      PROVE  SeedInv'
  <2>1. UpdatePendingMnemonic(w, NumWords - 1) /\ NumWords - 1 = Len(mnemonic) - 1
    BY <1>2, <1>5
  <2>2. WordsTyped' /\ HistoryReady /\ mnemonic' # << >> /\ Ready(d, mnemonic', kind')
    BY <1>2, <1>5, <2>1, WordsUpdated
  <2>3. d.view # "ToolsCalcFinalWordDoneView"
    BY <1>5, Levels
  <2>4. HasWords(d)'
    BY <2>2, <2>3 DEF HasWords
  <2>5. Level(cur) <= Level(d)
    BY <1>2, <1>5
  <2> QED
    BY <1>1, <1>5, <2>2, <2>4, <2>5, GotoUnpended
<1>6. CASE UpdatePendingMnemonic(NoWord, Len(mnemonic) - 1) /\ Goto(Entry(Len(mnemonic) - 1, TRUE))
  <2> DEFINE d == Entry(NumWords - 1, TRUE)
  <2>1. NumWords - 1 \in 0..(NumWords - 1) /\ NumWords - 1 > 0
    BY <1>2
  <2>2. d \in Destinations /\ Level(d) = 2
    BY <2>1, EntryIs
  <2>3. Ready(d, mnemonic, kind)
    BY <1>2, <2>1, EntryReady
  <2>4. Goto(d)
    BY <1>2, <1>6
  <2> HIDE DEF d
  <2> QED
    BY <1>5, <1>6, <2>2, <2>3, <2>4
<1>7. CASE UpdatePendingMnemonic(Typed, Len(mnemonic) - 1) /\ Goto(ShowFinalWord(TRUE))
  <2>1. /\ ShowFinalWord(TRUE) \in Destinations /\ ShowFinalWord(TRUE).view \in CalcViews
        /\ Level(ShowFinalWord(TRUE)) = 2
    BY CalcIs
  <2>2. Ready(ShowFinalWord(TRUE), mnemonic, kind)
    BY <1>2, <2>1, CalcReady
  <2> QED
    BY <1>5, <1>7, <2>1, <2>2
<1> QED
  BY <1>3, <1>4, <1>6, <1>7 DEF CalcPrompt

LEMMA CalcCoinFlipsKeeps == ASSUME SeedInv, CalcCoinFlips PROVE SeedInv'
<1>1. cur.view \in CalcViews \ {"ToolsCalcFinalWordDoneView"} /\ UNCHANGED wipes /\ KeepsAll
  BY DEF CalcCoinFlips, At, CalcViews
<1>2. CASE Back
  BY <1>1, <1>2, OnCalculation, BackUnchanged
<1>3. CASE Goto(ShowFinalWord(TRUE))
  BY <1>1, <1>3, GotoCalculation
<1> QED
  BY <1>2, <1>3 DEF CalcCoinFlips

LEMMA CalculateFinalWordKeeps == ASSUME SeedInv, CalculateFinalWord PROVE SeedInv'
<1>1. cur.view = "ToolsCalcFinalWordShowFinalWordView" /\ UNCHANGED wipes /\ KeepsStorage
  BY DEF CalculateFinalWord, At
<1>2. /\ Level(cur) = 2 /\ pending = NoSeed /\ Len(mnemonic) = NumWords
      /\ NumWords - 1 \in 0..(Len(mnemonic) - 1) /\ NumWords - 1 = Len(mnemonic) - 1
  BY <1>1, OnCalculation DEF CalcViews
<1>3. CASE KeepsWords /\ Fail
  BY <1>1, <1>2, <1>3, FailUnchanged DEF KeepsAll
<1>4. CASE UpdatePendingMnemonic(Checked, Len(mnemonic) - 1) /\ UNCHANGED screen
  <2>1. UpdatePendingMnemonic(Checked, NumWords - 1)
    BY <1>2, <1>4
  <2>2. /\ WordsTyped' /\ HistoryReady /\ mnemonic' # << >>
        /\ \A d \in Destinations : Ready(d, mnemonic, kind) => Ready(d, mnemonic', kind')
    BY <1>2, <2>1, WordsUpdated DEF Checked, NoWord
  <2>3. cur' = cur /\ hist' = hist /\ held' = held /\ listed' = listed
    BY <1>4 DEF screen
  <2>4. heap' = heap /\ seeds' = seeds /\ pending' = pending /\ wipes' = wipes
    BY <1>1 DEF KeepsStorage, storage
  <2>5. TypeOK' /\ Nav!EndsWithCurrent' /\ Nav!NoRepeats' /\ Climbs'
    BY <2>2, <2>3, <2>4
       DEF SeedInv, TypeOK, Nav!TypeOK, Nav!EndsWithCurrent, Nav!NoRepeats, Climbs, WordsTyped
  <2>6. WordsReady'
    <3>1. Ready(cur, mnemonic', kind')
      BY <2>2, InvFacts DEF SeedInv, WordsReady
    <3>2. \A i \in DOMAIN hist : Ready(hist[i], mnemonic', kind')
      BY <2>2, InvFacts DEF HistoryReady
    <3> QED
      BY <1>1, <2>2, <2>3, <3>1, <3>2 DEF WordsReady, DoneWordsValid
  <2>7. PendingReady' /\ HeldReady' /\ StoredOnce' /\ StoredSeedsUsable'
    BY <2>3, <2>4 DEF SeedInv, PendingReady, HeldReady, StoredOnce, StoredSeedsUsable, Stored, Usable, HasBytes
  <2> QED
    BY <2>5, <2>6, <2>7 DEF SeedInv
<1> QED
  BY <1>3, <1>4 DEF CalculateFinalWord

LEMMA CalcShowKeeps == ASSUME SeedInv, CalcShow PROVE SeedInv'
<1>1. /\ cur.view = "ToolsCalcFinalWordShowFinalWordView" /\ UNCHANGED wipes /\ KeepsAll
      /\ FinalWord = Checked
  BY DEF CalcShow, At
<1>2. /\ Level(cur) = 2 /\ kind = "bip39" /\ mnemonic # << >> /\ Len(mnemonic) = NumWords
      /\ NumWords \in Nat /\ Filled(mnemonic, NumWords - 1)
  BY <1>1, OnCalculation DEF CalcViews
<1>3. CASE Back
  BY <1>1, <1>2, <1>3, BackUnchanged
<1>4. CASE Goto(Plain("ToolsCalcFinalWordDoneView"))
  <2> DEFINE d == Plain("ToolsCalcFinalWordDoneView")
  <2>1. d \in Destinations /\ Level(d) = 3 /\ d.view \in CalcViews
    BY CalcIs, ViewOf DEF CalcViews
  <2>2. Goto(d)
    BY <1>4
  <2> HIDE DEF d
  <2>3. WordsTyped' /\ HistoryReady /\ mnemonic' = mnemonic /\ kind' = kind
    BY <1>1, WordsKept DEF KeepsAll
  <2>4. Ready(d, mnemonic', kind')
    BY <1>2, <2>1, <2>3, CalcReady
  <2>5. Complete(mnemonic)
    <3>1. mnemonic[NumWords] # NoWord
      BY <1>1, <1>2 DEF FinalWord, Checked, NoWord
    <3>2. DOMAIN mnemonic = 1..NumWords
      BY <1>2, InvFacts DEF WordsTyped
    <3>3. \A j \in 1..NumWords : j = NumWords \/ j \in 1..(NumWords - 1)
      BY <1>2
    <3> QED
      BY <1>2, <3>1, <3>2, <3>3 DEF Complete, Filled
  <2>6. HasWords(d)'
    BY <1>1, <1>2, <2>3, <2>4, <2>5 DEF HasWords, Complete, FinalWord
  <2>7. Level(cur) <= Level(d)
    BY <1>2, <2>1
  <2> QED
    BY <1>1, <2>1, <2>2, <2>3, <2>6, <2>7, GotoUnpended DEF KeepsAll
<1> QED
  BY <1>3, <1>4 DEF CalcShow

LEMMA CalcDoneBackKeeps == ASSUME SeedInv, CalcDoneBack PROVE SeedInv'
<1>1. Level(cur) = 3 /\ UNCHANGED wipes /\ KeepsAll /\ Back
  BY Levels DEF CalcDoneBack, At
<1> QED
  BY <1>1, BackUnchanged

-----------------------------------------------------------------------------
(* The pending seed *)

LEMMA StoredAreSeeds == StorageSound => Stored \subseteq Objects \cup {NoSeed}
<1> SUFFICES ASSUME StorageSound PROVE \A i \in DOMAIN seeds : seeds[i] \in Objects \cup {NoSeed}
  BY DEF Stored
<1> QED
  BY DEF StorageSound

(* What happens to seeds that are not stored does no harm to the storage.   *)
LEMMA StorageUntouched ==
    ASSUME SeedInv, seeds' = seeds, wipes' = wipes, heap' \in [Objects -> Contents],
           \A x \in Stored \ {NoSeed} : heap'[x] = heap[x],
           pending' \in Objects \cup {NoSeed},
           pending' # NoSeed =>
             /\ pending' \notin Stored /\ heap'[pending'].key # NoKey
             /\ heap'[pending'].key \in LockedKeys => heap'[pending'].kind = "aezeed"
    PROVE  StorageSound'
<1>1. StorageSound /\ Stored' = Stored
  BY InvFacts DEF Stored
<1>2. StoredOnce'
  BY <1>1 DEF StorageSound, StoredOnce
<1>3. StoredSeedsUsable'
  BY <1>1 DEF StorageSound, StoredSeedsUsable, Usable, HasBytes
<1> QED
  BY <1>1, <1>2, <1>3 DEF StorageSound

LEMMA PassphraseKeepsStorage ==
    ASSUME SeedInv, NEW o \in Objects, o \notin Stored, NEW p \in Passphrases \cup {""},
           heap' = [heap EXCEPT ![o].pass = p], UNCHANGED <<seeds, pending, wipes>>
    PROVE  /\ StorageSound'
           /\ heap'[o].key = heap[o].key /\ heap'[o].kind = heap[o].kind /\ heap'[o].pass = p
<1>1. StorageSound /\ seeds' = seeds /\ pending' = pending /\ wipes' = wipes
  BY InvFacts
<1>2. heap \in [Objects -> Contents] /\ heap[o] \in Contents
  BY <1>1 DEF StorageSound
<1>3. heap' = [x \in Objects |-> IF x = o THEN [heap[x] EXCEPT !.pass = p] ELSE heap[x]]
  BY <1>2
<1>4. [heap[o] EXCEPT !.pass = p] \in Contents
  BY <1>2 DEF Contents
<1>5. heap' \in [Objects -> Contents] /\ \A x \in Objects \ {o} : heap'[x] = heap[x]
  BY <1>2, <1>3, <1>4
<1>6. heap'[o].key = heap[o].key /\ heap'[o].kind = heap[o].kind /\ heap'[o].pass = p
  BY <1>2, <1>3 DEF Contents
<1>7. Stored \ {NoSeed} \subseteq Objects \ {o}
  BY <1>1, StoredAreSeeds
<1>8. pending' # NoSeed =>
        /\ pending' \notin Stored /\ heap'[pending'].key # NoKey
        /\ heap'[pending'].key \in LockedKeys => heap'[pending'].kind = "aezeed"
  <2>1. pending # NoSeed => heap'[pending].key = heap[pending].key /\ heap'[pending].kind = heap[pending].kind
    BY <1>1, <1>5, <1>6 DEF StorageSound
  <2> QED
    BY <1>1, <2>1 DEF StorageSound
<1>9. pending' \in Objects \cup {NoSeed}
  BY <1>1 DEF StorageSound
<1> QED
  BY <1>1, <1>5, <1>6, <1>7, <1>8, <1>9, StorageUntouched

LEMMA ConvertKeepsStorage ==
    ASSUME SeedInv, NEW o, NEW key \in Keys, ConvertTo(o, key), key \in KeysOf(kind), UNCHANGED wipes
    PROVE  /\ StorageSound' /\ pending' = o /\ pending' # NoSeed
           /\ heap'[pending'].key = key /\ key # NoKey
<1> DEFINE c == [kind |-> kind, key |-> key, pass |-> ""]
<1>1. /\ o \in Objects /\ o \notin Live /\ pending' = o /\ seeds' = seeds /\ wipes' = wipes
      /\ heap' = [heap EXCEPT ![o] = c]
  BY DEF ConvertTo
<1>2. o # NoSeed /\ key # NoKey
  BY <1>1, SeedFlowAssumption
<1>3. o \notin Stored
  BY <1>1, <1>2 DEF Live
<1>4. heap \in [Objects -> Contents] /\ kind \in {"bip39", "electrum", "aezeed"}
  BY InvFacts DEF StorageSound, WordsTyped
<1>5. c \in Contents /\ c.key = key /\ c.kind = kind
  BY <1>4 DEF Contents
<1> HIDE DEF c
<1>6. /\ heap' \in [Objects -> Contents] /\ heap'[o] = c
      /\ \A x \in Objects \ {o} : heap'[x] = heap[x]
  BY <1>1, <1>4, <1>5
<1>7. Stored \ {NoSeed} \subseteq Objects \ {o}
  BY <1>3, InvFacts, StoredAreSeeds
<1>8. heap'[o].key = key /\ heap'[o].kind = kind
  BY <1>5, <1>6
<1>9. key \in LockedKeys => kind = "aezeed"
  BY DEF KeysOf
<1>10. seeds' = seeds /\ \A x \in Stored \ {NoSeed} : heap'[x] = heap[x]
  BY <1>1, <1>6, <1>7
<1>11. StorageSound'
  BY <1>1, <1>2, <1>3, <1>6, <1>8, <1>9, <1>10, StorageUntouched
<1> QED
  BY <1>1, <1>2, <1>8, <1>11

LEMMA ClearKeepsStorage ==
    ASSUME SeedInv, ClearPendingSeed, UNCHANGED wipes
    PROVE  StorageSound' /\ pending' = NoSeed
<1>1. /\ pending' = NoSeed /\ seeds' = seeds /\ wipes' = wipes
      /\ heap' = [o \in Objects |-> IF o = pending THEN Wiped(heap[o]) ELSE heap[o]]
  BY DEF ClearPendingSeed
<1>2. StorageSound
  BY InvFacts
<1>3. \A o \in Objects : heap[o] \in Contents /\ Wiped(heap[o]) \in Contents
  BY <1>2 DEF StorageSound, Contents, Wiped
<1>4. heap' \in [Objects -> Contents]
  BY <1>1, <1>3
<1>5. \A x \in Stored \ {NoSeed} : x \in Objects /\ x # pending
  BY <1>2, StoredAreSeeds DEF StorageSound
<1> QED
  BY <1>1, <1>4, <1>5, StorageUntouched

LEMMA PendedIs ==
    ASSUME NEW v \in PendingViews \cup {"SeedDiscardView"}
    PROVE  /\ Plain(v) \in Destinations /\ Plain(v).view = v /\ Level(Plain(v)) = 4
           /\ Needed(Plain(v)) /\ HeldBy(Plain(v)) = pending'
<1>1. Plain(v).view = v
  BY ViewOf
<1>2. Plain(v) \in Destinations
  BY Endpoints DEF PlainViews, PendingViews
<1>3. Needed(Plain(v)) /\ HeldBy(Plain(v)) = pending'
  BY <1>1 DEF Needed, HeldBy
<1> QED
  BY <1>1, <1>2, <1>3, Levels

LEMMA CanShowPended ==
    ASSUME NEW v \in PendingViews \cup {"SeedDiscardView"}, pending' # NoSeed,
           v \in {"SeedFinalizeView", "SeedReviewPassphraseView", "SeedDiscardView"} => HasBytes(heap'[pending'])
    PROVE  CanShow(Plain(v))
<1>1. Plain(v).view = v /\ HeldBy(Plain(v)) = pending' /\ v # "SeedsMenuView" /\ v # "SeedOptionsView"
  BY PendedIs DEF PendingViews, PassphraseViews
<1> QED
  BY <1>1 DEF CanShow, UsableNext

(* From a view of the pending seed to another, and what that one needs.     *)
LEMMA PendedStep ==
    ASSUME SeedInv, NEW v \in PendingViews, Goto(Plain(v)), StorageSound', UNCHANGED <<pending, wipes>>,
           KeepsWords, Level(cur) = 4, v = "SeedScanPassphraseView" => cur.view \in BeforeScan,
           pending # NoSeed /\ v \in {"SeedFinalizeView", "SeedReviewPassphraseView"} => HasBytes(heap'[pending]),
           pending # NoSeed /\ v \in {"SeedAddPassphraseExitDialogView", "SeedReviewPassphraseView"}
             => heap'[pending].key \notin LockedKeys
    PROVE  SeedInv'
<1>1. Plain(v) \in Destinations /\ Plain(v).view = v /\ Level(Plain(v)) = 4 /\ v # "SeedDiscardView"
  BY PendedIs DEF PendingViews, PassphraseViews
<1>2. pending # NoSeed => CanShow(Plain(v))
  BY <1>1, CanShowPended
<1> QED
  BY <1>1, <1>2, GotoPended

(* ... nothing else changed.                                                *)
LEMMA PendedGoto ==
    ASSUME SeedInv, NEW v \in PendingViews, Goto(Plain(v)), KeepsAll, UNCHANGED wipes,
           Level(cur) = 4, v = "SeedScanPassphraseView" => cur.view \in BeforeScan,
           v \notin {"SeedFinalizeView", "SeedReviewPassphraseView", "SeedAddPassphraseExitDialogView"}
    PROVE  SeedInv'
<1>1. StorageSound' /\ pending' = pending /\ wipes' = wipes
  BY StorageKept DEF KeepsAll
<1> QED
  BY <1>1, PendedStep DEF KeepsAll

(* A new seed is pending.                                                   *)
LEMMA Converts ==
    ASSUME SeedInv, Level(cur) # 4, NEW o, NEW key \in Keys, ConvertTo(o, key), key \in KeysOf(kind),
           UNCHANGED wipes, NEW v \in {"SeedFinalizeView", "SeedDiscardView", "SeedAezeedPassphraseModeView"},
           v # "SeedAezeedPassphraseModeView" => key \notin LockedKeys, Goto(Plain(v))
    PROVE  SeedInv'
<1>1. /\ StorageSound' /\ pending' = o /\ pending' # NoSeed
      /\ heap'[pending'].key = key /\ key # NoKey
  BY ConvertKeepsStorage
<1>2. v \in PendingViews \cup {"SeedDiscardView"}
  BY DEF PendingViews, PassphraseViews
<1>3. Plain(v) \in Destinations /\ Plain(v).view = v /\ Level(Plain(v)) = 4 /\ Needed(Plain(v))
  BY <1>2, PendedIs
<1>4. v # "SeedAezeedPassphraseModeView" => HasBytes(heap'[pending'])
  BY <1>1 DEF HasBytes
<1>5. CanShow(Plain(v))
  BY <1>1, <1>2, <1>4, CanShowPended
<1>6. WordsTyped' /\ HistoryReady
  BY WordsDropped DEF ConvertTo
<1>7. HasWords(Plain(v))'
  BY <1>3, HasNoWords
<1>8. HasPending(Plain(v))'
  BY <1>1, <1>3 DEF HasPending
<1>9. Level(cur) <= Level(Plain(v)) /\ Plain(v).view # "SeedScanPassphraseView"
  <2>1. Level(cur) \in 0..4
    BY Levels
  <2> QED
    BY <1>3, <2>1
<1> QED
  BY <1>1, <1>3, <1>5, <1>6, <1>7, <1>8, <1>9, GotoKeeps

LEMMA LastWordTypedKeeps ==
    ASSUME SeedInv, NEW o \in Objects, NEW key \in Keys, LastWordTyped(o, key)
    PROVE  SeedInv'
<1>1. /\ UNCHANGED wipes /\ Level(cur) # 4 /\ key \in KeysOf(kind) /\ ConvertTo(o, key)
  BY OnEntry DEF LastWordTyped, EndsMnemonic, AcceptsWord
<1>2. PICK v \in {"SeedFinalizeView", "SeedAezeedPassphraseModeView"} :
        /\ Goto(Plain(v))
        /\ v # "SeedAezeedPassphraseModeView" => key \notin LockedKeys
  BY DEF LastWordTyped, AfterConversion
<1> QED
  BY <1>1, <1>2, Converts

LEMMA CalcDoneKeeps ==
    ASSUME SeedInv, NEW o \in Objects, NEW key \in Keys, CalcDone(o, key)
    PROVE  SeedInv'
<1>1. Level(cur) = 3 /\ UNCHANGED wipes /\ cur.view \in CalcViews
  BY Levels DEF CalcDone, At, CalcViews
<1>2. pending = NoSeed /\ kind = "bip39"
  BY <1>1, InvFacts, ReadyFinds DEF Calculates
<1>3. CASE KeepsAll /\ Fail
  BY <1>1, <1>2, <1>3, FailUnchanged
<1>4. CASE key \in KeysOf(kind) /\ ConvertTo(o, key)
           /\ (Goto(Plain("SeedFinalizeView")) \/ Goto(Plain("SeedDiscardView")))
  <2>1. key \notin LockedKeys
    BY <1>2, <1>4 DEF KeysOf
  <2> QED
    BY <1>1, <1>4, <2>1, Converts
<1> QED
  BY <1>3, <1>4 DEF CalcDone

-----------------------------------------------------------------------------
(* The passphrase of the pending seed, and storing it                       *)

LEMMA OnPending ==
    ASSUME SeedInv, cur.view \in PendingViews
    PROVE  /\ Level(cur) = 4 /\ (held # NoSeed => held \in Objects /\ held \notin Stored)
           /\ cur.view \notin {"SeedAezeedPassphraseModeView", "SeedScanPassphraseView"} => held # NoSeed
           /\ pending # NoSeed =>
                /\ held = pending /\ heap[pending].key # NoKey
                /\ heap[pending].key \in LockedKeys => heap[pending].kind = "aezeed"
           /\ pending # NoSeed /\ cur.view = "SeedFinalizeView" => HasBytes(heap[pending])
           /\ pending # NoSeed /\ cur.view \in {"SeedAddPassphraseExitDialogView", "SeedReviewPassphraseView"}
                => heap[pending].key \notin LockedKeys
<1>1. Needed(cur) /\ Level(cur) = 4
  BY Levels DEF Needed
<1>2. held \in Objects \cup {NoSeed}
  BY DEF SeedInv, TypeOK
<1> QED
  BY <1>1, <1>2 DEF SeedInv, HeldReady, PendingReady, Usable

(* A passphrase q is given to the seed o, then view v.                      *)
LEMMA Passes ==
    ASSUME SeedInv, NEW o \in Objects, o \notin Stored, NEW q \in Passphrases \cup {""},
           heap' = [heap EXCEPT ![o].pass = q], UNCHANGED <<seeds, pending, wipes>>, KeepsWords,
           cur.view \in PendingViews, pending # NoSeed => o = pending,
           NEW v \in PendingViews, v # "SeedScanPassphraseView", Goto(Plain(v)),
           pending # NoSeed /\ v = "SeedFinalizeView" => heap[o].key \notin LockedKeys \/ q # "",
           pending # NoSeed /\ v \in {"SeedAddPassphraseExitDialogView", "SeedReviewPassphraseView"}
             => heap[o].key \notin LockedKeys
    PROVE  SeedInv'
<1>1. StorageSound' /\ heap'[o].key = heap[o].key /\ heap'[o].pass = q
  BY PassphraseKeepsStorage
<1>2. /\ Level(cur) = 4 /\ (pending # NoSeed => heap[pending].key # NoKey)
  BY OnPending
<1>3. pending # NoSeed /\ v \in {"SeedFinalizeView", "SeedReviewPassphraseView"} => HasBytes(heap'[pending])
  BY <1>1, <1>2 DEF HasBytes
<1>4. pending # NoSeed /\ v \in {"SeedAddPassphraseExitDialogView", "SeedReviewPassphraseView"}
        => heap'[pending].key \notin LockedKeys
  BY <1>1
<1> QED
  BY <1>1, <1>2, <1>3, <1>4, PendedStep

(* The pending seed is stored, unless an equal one is.                      *)
LEMMA StoreKeeps ==
    ASSUME SeedInv, cur.view \in {"SeedFinalizeView", "SeedReviewPassphraseView"}, StoreAndShow, UNCHANGED wipes
    PROVE  SeedInv'
<1>1. /\ KeepsWords /\ wipes' = wipes /\ heap' = heap /\ pending' = NoSeed
      /\ seeds' \in {seeds, Append(seeds, pending)}
      /\ Restart(OfSeed("SeedOptionsView", pending))
  BY DEF StoreAndShow, FinalizePendingSeed
<1>2. StorageSound /\ pending \in Objects \cup {NoSeed}
  BY InvFacts DEF StorageSound
<1>3. pending # NoSeed => pending \notin Stored /\ HasBytes(heap[pending])
  <2>1. pending # NoSeed => Usable(pending)
    BY DEF SeedInv, PendingReady
  <2> QED
    BY <1>2, <2>1 DEF StorageSound, Usable
<1>4. pending = NoSeed => wipes > 0
  BY InvFacts, OnPending DEF PendingViews, PassphraseViews
<1>5. StorageSound'
  <2>1. CASE seeds' = seeds
    BY <1>1, <1>2, <2>1 DEF StorageSound, StoredOnce, StoredSeedsUsable, Stored, Usable, HasBytes
  <2>2. CASE seeds' = Append(seeds, pending)
    <3>1. seeds \in Seq(Objects \cup {NoSeed}) /\ Len(seeds) \in Nat /\ DOMAIN seeds = 1..Len(seeds)
      BY <1>2 DEF StorageSound
    <3>2. /\ seeds' \in Seq(Objects \cup {NoSeed}) /\ Len(seeds') = Len(seeds) + 1
          /\ \A i \in 1..Len(seeds) : seeds'[i] = seeds[i]
          /\ seeds'[Len(seeds) + 1] = pending
      BY <1>2, <2>2, <3>1
    <3>3. \A i \in DOMAIN seeds' :
            \/ i \in DOMAIN seeds /\ seeds'[i] = seeds[i]
            \/ i = Len(seeds) + 1 /\ seeds'[i] = pending
      BY <3>1, <3>2
    <3>4. StoredOnce'
      <4> SUFFICES ASSUME NEW i \in DOMAIN seeds', NEW j \in DOMAIN seeds', seeds'[i] = seeds'[j], seeds'[i] # NoSeed
                   PROVE  i = j
        BY DEF StoredOnce
      <4>1. CASE i \in DOMAIN seeds /\ j \in DOMAIN seeds
        BY <1>2, <3>1, <3>2, <4>1 DEF StorageSound, StoredOnce
      <4>2. ASSUME NEW k \in DOMAIN seeds, seeds[k] = pending PROVE pending = NoSeed
        BY <1>3, <4>2 DEF Stored
      <4> QED
        BY <3>3, <4>1, <4>2
    <3>5. Stored' \subseteq Stored \cup {pending}
      BY <3>3 DEF Stored
    <3>6. StoredSeedsUsable'
      BY <1>1, <1>2, <1>3, <1>4, <3>5 DEF StorageSound, StoredSeedsUsable, Usable, HasBytes
    <3> QED
      BY <1>1, <1>2, <3>2, <3>4, <3>6 DEF StorageSound
  <2> QED
    BY <1>1, <2>1, <2>2
<1>6. PICK o \in Objects \cup {NoSeed} : o = pending
  BY <1>2
<1>7. Restart(OfSeed("SeedOptionsView", o))
  BY <1>1, <1>6
<1> QED
  BY <1>1, <1>5, <1>7, OfSeedIs, WordsKept, RestartKeeps

LEMMA FinalizeKeeps == ASSUME SeedInv, Finalize PROVE SeedInv'
<1>1. cur.view = "SeedFinalizeView" /\ UNCHANGED wipes /\ cur.view \in PendingViews
  BY DEF Finalize, At, PendingViews
<1>2. CASE StoreAndShow
  BY <1>1, <1>2, StoreKeeps
<1>3. CASE KeepsAll /\ (Goto(Plain("SeedAddPassphraseView")) \/ Goto(Plain("SeedScanPassphraseView")))
  BY <1>1, <1>3, OnPending, PendedGoto DEF PendingViews, PassphraseViews, BeforeScan
<1> QED
  BY <1>2, <1>3 DEF Finalize

LEMMA AezeedPassphraseModeKeeps == ASSUME SeedInv, AezeedPassphraseMode PROVE SeedInv'
<1>1. /\ cur.view = "SeedAezeedPassphraseModeView" /\ UNCHANGED wipes /\ cur.view \in PendingViews
      /\ KeepsWords
  BY DEF AezeedPassphraseMode, At, PendingViews, PassphraseViews
<1>2. CASE KeepsStorage /\ (Goto(Plain("SeedAddPassphraseView")) \/ Goto(Plain("SeedScanPassphraseView")))
  BY <1>1, <1>2, OnPending, PendedGoto DEF PendingViews, PassphraseViews, BeforeScan, KeepsAll
<1>3. CASE ClearPendingSeed /\ Restart(Home)
  BY <1>1, <1>3, ClearKeepsStorage, WordsKept, RestartKeeps, Endpoints
<1> QED
  BY <1>2, <1>3 DEF AezeedPassphraseMode

LEMMA AddPassphraseKeeps ==
    ASSUME SeedInv, NEW p \in Passphrases \cup {""}, NEW isBack \in BOOLEAN, AddPassphrase(p, isBack)
    PROVE  SeedInv'
<1>1. /\ cur.view = "SeedAddPassphraseView" /\ UNCHANGED wipes /\ cur.view \in PendingViews
  BY DEF AddPassphrase, At, PendingViews, PassphraseViews
<1>2. PICK o \in Objects : o = held
  BY <1>1, OnPending
<1>3. /\ o \notin Stored /\ (pending # NoSeed => o = pending /\ heap[o].key # NoKey)
      /\ pending # NoSeed /\ heap[o].kind # "aezeed" => heap[o].key \notin LockedKeys
  BY <1>1, <1>2, OnPending
<1>4. CASE heap[held].key = NoKey /\ KeepsAll /\ Fail
  BY <1>1, <1>2, <1>3, <1>4, FailUnchanged
<1>5. CASE WrongPassphrase(held, p) /\ Goto(Plain("SeedAddPassphraseView"))
  <2>1. heap' = [heap EXCEPT ![o].pass = ""] /\ UNCHANGED <<seeds, pending, wipes>> /\ KeepsWords
    BY <1>1, <1>2, <1>5 DEF WrongPassphrase
  <2> QED
    BY <1>1, <1>3, <1>5, <2>1, Passes DEF PendingViews, PassphraseViews
<1>6. ASSUME SetPassphrase(held, p), NEW v \in PendingViews, v # "SeedScanPassphraseView", Goto(Plain(v)),
             pending # NoSeed /\ v = "SeedFinalizeView" => p # "",
             pending # NoSeed /\ v \in {"SeedAddPassphraseExitDialogView", "SeedReviewPassphraseView"}
               => heap[o].key \notin LockedKeys
      PROVE  SeedInv'
  <2>1. heap' = [heap EXCEPT ![o].pass = p] /\ UNCHANGED <<seeds, pending, wipes>> /\ KeepsWords
    BY <1>1, <1>2, <1>6 DEF SetPassphrase
  <2> QED
    BY <1>1, <1>3, <1>6, <2>1, Passes
<1>7. CASE SetPassphrase(held, p) /\ TakesPassphrase(held)
           /\ Goto(Plain(IF isBack \/ p = "" THEN "SeedAddPassphraseExitDialogView"
                         ELSE "SeedReviewPassphraseView"))
  <2>1. PICK v \in {"SeedAddPassphraseExitDialogView", "SeedReviewPassphraseView"} : Goto(Plain(v))
    BY <1>7
  <2>2. v \in PendingViews /\ v # "SeedScanPassphraseView" /\ v # "SeedFinalizeView"
    BY DEF PendingViews, PassphraseViews
  <2>3. heap[o].kind # "aezeed"
    BY <1>2, <1>7 DEF TakesPassphrase
  <2> QED
    BY <1>3, <1>6, <1>7, <2>1, <2>2, <2>3
<1>8. CASE SetPassphrase(held, p) /\ ~TakesPassphrase(held)
           /\ Goto(Plain(CASE isBack -> "SeedAezeedPassphraseModeView"
                           [] ~isBack /\ p # "" -> "SeedFinalizeView"
                           [] OTHER -> IF heap[held].key \in LockedKeys
                                       THEN "SeedAddPassphraseView"
                                       ELSE "SeedAddPassphraseExitDialogView"))
  <2>1. PICK v : /\ Goto(Plain(v))
                 /\ v = CASE isBack -> "SeedAezeedPassphraseModeView"
                           [] ~isBack /\ p # "" -> "SeedFinalizeView"
                           [] OTHER -> IF heap[held].key \in LockedKeys
                                       THEN "SeedAddPassphraseView"
                                       ELSE "SeedAddPassphraseExitDialogView"
    BY <1>8
  <2>2. \/ v \in {"SeedAezeedPassphraseModeView", "SeedAddPassphraseView"}
        \/ v = "SeedFinalizeView" /\ p # ""
        \/ v = "SeedAddPassphraseExitDialogView" /\ heap[o].key \notin LockedKeys
    BY <1>2, <2>1
  <2>3. v \in PendingViews /\ v # "SeedScanPassphraseView" /\ v # "SeedReviewPassphraseView"
    BY <2>2 DEF PendingViews, PassphraseViews
  <2> QED
    BY <1>6, <1>8, <2>1, <2>2, <2>3
<1> QED
  BY <1>4, <1>5, <1>7, <1>8, Zenon DEF AddPassphrase

LEMMA AddPassphraseExitKeeps == ASSUME SeedInv, AddPassphraseExit PROVE SeedInv'
<1>1. /\ cur.view = "SeedAddPassphraseExitDialogView" /\ UNCHANGED wipes /\ cur.view \in PendingViews
  BY DEF AddPassphraseExit, At, PendingViews, PassphraseViews
<1>2. PICK o \in Objects : o = held
  BY <1>1, OnPending
<1>3. /\ o \notin Stored /\ Level(cur) = 4
      /\ pending # NoSeed => o = pending /\ heap[o].key # NoKey /\ heap[o].key \notin LockedKeys
  BY <1>1, <1>2, OnPending
<1>4. CASE KeepsAll /\ Goto(Plain("SeedAddPassphraseView"))
  BY <1>1, <1>3, <1>4, PendedGoto DEF PendingViews, PassphraseViews
<1>5. CASE SetPassphrase(held, "") /\ Goto(Plain("SeedFinalizeView"))
  <2>1. heap' = [heap EXCEPT ![o].pass = ""] /\ UNCHANGED <<seeds, pending, wipes>> /\ KeepsWords
    BY <1>1, <1>2, <1>5 DEF SetPassphrase
  <2> QED
    BY <1>1, <1>3, <1>5, <2>1, Passes DEF PendingViews
<1>6. CASE Refuses(held, "") /\ KeepsAll /\ Fail
  <2>1. pending = NoSeed
    BY <1>2, <1>3, <1>6 DEF Refuses
  <2> QED
    BY <1>1, <1>6, <2>1, FailUnchanged
<1> QED
  BY <1>4, <1>5, <1>6 DEF AddPassphraseExit

LEMMA ReviewPassphraseKeeps == ASSUME SeedInv, ReviewPassphrase PROVE SeedInv'
<1>1. /\ cur.view = "SeedReviewPassphraseView" /\ UNCHANGED wipes /\ cur.view \in PendingViews
  BY DEF ReviewPassphrase, At, PendingViews, PassphraseViews
<1>2. PICK o \in Objects : o = held
  BY <1>1, OnPending
<1>3. /\ o \notin Stored /\ Level(cur) = 4
      /\ pending # NoSeed => o = pending /\ heap[o].key # NoKey /\ heap[o].key \notin LockedKeys
  BY <1>1, <1>2, OnPending
<1>4. CASE KeepsAll /\ (Goto(Plain("SeedAddPassphraseView")) \/ Goto(Plain("SeedScanPassphraseView")))
  BY <1>1, <1>3, <1>4, PendedGoto DEF PendingViews, PassphraseViews, BeforeScan
<1>5. CASE SetPassphrase(held, "") /\ Goto(Plain("SeedFinalizeView"))
  <2>1. heap' = [heap EXCEPT ![o].pass = ""] /\ UNCHANGED <<seeds, pending, wipes>> /\ KeepsWords
    BY <1>1, <1>2, <1>5 DEF SetPassphrase
  <2> QED
    BY <1>1, <1>3, <1>5, <2>1, Passes DEF PendingViews
<1>6. CASE Refuses(held, "") /\ KeepsAll /\ Fail
  <2>1. pending = NoSeed
    BY <1>2, <1>3, <1>6 DEF Refuses
  <2> QED
    BY <1>1, <1>6, <2>1, FailUnchanged
<1>7. CASE StoreAndShow
  BY <1>1, <1>7, StoreKeeps
<1> QED
  BY <1>4, <1>5, <1>6, <1>7 DEF ReviewPassphrase

LEMMA ScanPassphraseKeeps ==
    ASSUME SeedInv, NEW p \in Passphrases, ScanPassphrase(p)
    PROVE  SeedInv'
<1>1. /\ cur.view = "SeedScanPassphraseView" /\ UNCHANGED wipes /\ cur.view \in PendingViews
  BY DEF ScanPassphrase, At, PendingViews, PassphraseViews
<1>2. CASE NoSeed \in {held, pending} /\ KeepsAll /\ Fail
  <2>1. pending = NoSeed
    BY <1>1, <1>2, OnPending
  <2> QED
    BY <1>1, <1>2, <2>1, FailUnchanged
<1>3. CASE NoSeed \notin {held, pending}
  <2>1. PICK o \in Objects : o = held
    BY <1>1, <1>3, OnPending
  <2>2. /\ o \notin Stored /\ o = pending /\ heap[o].key # NoKey
        /\ heap[o].kind # "aezeed" => heap[o].key \notin LockedKeys
    BY <1>1, <1>3, <2>1, OnPending
  <2>3. CASE SetPassphrase(pending, p)
             /\ Goto(Plain(IF TakesPassphrase(held) THEN "SeedReviewPassphraseView" ELSE "SeedFinalizeView"))
    <3>1. heap' = [heap EXCEPT ![o].pass = p] /\ UNCHANGED <<seeds, pending, wipes>> /\ KeepsWords /\ p # ""
      BY <1>1, <2>2, <2>3 DEF SetPassphrase, Passphrases
    <3>2. PICK v \in {"SeedReviewPassphraseView", "SeedFinalizeView"} :
            Goto(Plain(v)) /\ (v = "SeedReviewPassphraseView" => heap[o].kind # "aezeed")
      BY <2>1, <2>3 DEF TakesPassphrase
    <3>3. v \in PendingViews
      BY DEF PendingViews, PassphraseViews
    <3> QED
      BY <1>1, <2>2, <3>1, <3>2, <3>3, Passes
  <2>4. CASE WrongPassphrase(pending, p) /\ Goto(Plain("SeedAezeedPassphraseModeView"))
    <3>1. heap' = [heap EXCEPT ![o].pass = ""] /\ UNCHANGED <<seeds, pending, wipes>> /\ KeepsWords
      BY <1>1, <2>2, <2>4 DEF WrongPassphrase
    <3>2. "SeedAezeedPassphraseModeView" \in PendingViews
      BY DEF PendingViews, PassphraseViews
    <3> QED
      BY <1>1, <2>2, <2>4, <3>1, <3>2, Passes
  <2> QED
    BY <1>3, <2>3, <2>4 DEF ScanPassphrase
<1> QED
  BY <1>2, <1>3 DEF ScanPassphrase

(* "Back" from scanning a passphrase uncovers a view of the pending seed.   *)
LEMMA ScanPassphraseBackKeeps == ASSUME SeedInv, ScanPassphraseBack PROVE SeedInv'
<1>1. /\ cur.view = "SeedScanPassphraseView" /\ UNCHANGED wipes /\ KeepsAll /\ cur.view \in PendingViews
  BY DEF ScanPassphraseBack, At, PendingViews, PassphraseViews
<1>2. /\ Level(cur) = 4
      /\ pending # NoSeed => held = pending /\ heap[pending].key # NoKey
                            /\ (heap[pending].key \in LockedKeys => heap[pending].kind = "aezeed")
  BY <1>1, OnPending
<1>3. StorageSound' /\ WordsTyped' /\ HistoryReady /\ pending' = pending /\ heap' = heap /\ wipes' = wipes
  BY <1>1, StorageKept, WordsKept DEF KeepsAll, KeepsStorage, storage
<1>4. CASE Goto(Plain("SeedAezeedPassphraseModeView"))
  BY <1>1, <1>2, <1>4, PendedGoto DEF PendingViews, PassphraseViews
<1>5. CASE Back /\ (pending # NoSeed => heap[pending].key \notin LockedKeys)
  <2>1. PICK d \in Destinations :
          /\ d = Laws!Below(FALSE)
          /\ \/ d = Home
             \/ Len(hist) - 1 \in 1..Len(hist) /\ d = hist[Len(hist) - 1] /\ hist[Len(hist)] = cur
          /\ CanShow(d) => /\ held' = HeldBy(d) /\ listed' \in {0, Len(seeds')}
                           /\ \E n \in 0..Len(hist) :
                                /\ Laws!Lands(d, n)
                                /\ d = Home \/ (n < Len(hist) /\ hist[n + 1] = d)
    BY <1>5, BackUncovers
  <2>2. Len(hist) \in Nat /\ DOMAIN hist = 1..Len(hist)
    BY InvFacts
  <2>3. d = Home \/ d.view \in BeforeScan
    <3> SUFFICES ASSUME d # Home PROVE d.view \in BeforeScan
      OBVIOUS
    <3>1. Len(hist) - 1 \in 1..Len(hist) /\ d = hist[Len(hist) - 1] /\ hist[Len(hist)] = cur
      BY <2>1
    <3>2. Len(hist) \in 1..Len(hist) /\ Len(hist) > 1
      BY <2>2, <3>1
    <3> QED
      BY <1>1, <2>2, <3>1, <3>2 DEF SeedInv, Climbs
  <2>4. pending # NoSeed => d # Home
    <3> SUFFICES ASSUME pending # NoSeed PROVE d # Home
      OBVIOUS
    <3>1. /\ hist # << >> /\ hist[1].view # "SeedScanPassphraseView"
          /\ Len(hist) >= 1 /\ hist[Len(hist)] = cur
      BY InvFacts DEF SeedInv, PendingReady
    <3>2. Len(hist) # 1
      BY <1>1, <3>1
    <3>3. ~(Len(hist) < 2) /\ Len(hist) - 1 \in 1..Len(hist)
      BY <2>2, <3>1, <3>2
    <3>4. d = hist[Len(hist) - 1]
      BY <2>1, <3>3, NavHasLaws
    <3>5. hist \in Seq(Destinations \ {Home})
      BY InvFacts DEF Laws!Tidy
    <3> QED
      BY <3>3, <3>4, <3>5
  <2>5. d # Home => Level(d) = 4 /\ Needed(d) /\ d.view \in BeforeScan
    BY <2>3, Levels DEF BeforeScan, PendingViews, PassphraseViews
  <2>6. pending' # NoSeed => CanShow(d)
    <3> SUFFICES ASSUME pending' # NoSeed PROVE CanShow(d)
      OBVIOUS
    <3>1. d.view \in BeforeScan /\ HasBytes(heap'[pending'])
      BY <1>2, <1>3, <1>5, <2>4, <2>5 DEF HasBytes
    <3>2. HeldBy(d) = pending'
      BY <3>1 DEF BeforeScan, HeldBy, PendingViews, PassphraseViews
    <3> QED
      BY <3>1, <3>2 DEF CanShow, UsableNext, BeforeScan
  <2>7. CASE ~CanShow(d)
    BY <1>3, <1>5, <2>1, <2>6, <2>7, BackShows, ErrorKeeps
  <2>8. CASE CanShow(d) /\ d = Home
    <3>1. PICK n \in 0..Len(hist) : Laws!Lands(d, n)
      BY <2>1, <2>8
    <3>2. cur' = d /\ hist' = << >> /\ 0 \in 0..Len(hist)
      BY <2>2, <2>8, <3>1 DEF Laws!Lands
    <3>3. Laws!Lands(d, 0)
      BY <2>8, <3>2 DEF Laws!Lands
    <3> QED
      BY <1>3, <2>1, <2>4, <2>8, <3>3, ArriveLow, ListsEntries, Endpoints
  <2>9. CASE CanShow(d) /\ d # Home
    <3>1. PICK n \in 0..Len(hist) : Laws!Lands(d, n) /\ n < Len(hist) /\ hist[n + 1] = d
      BY <2>1, <2>9
    <3>2. n \in Nat /\ 1..n \subseteq 1..Len(hist)
      BY <2>2
    <3>3. \A i \in 1..n : Level(hist[i]) <= Level(d)
      BY <2>5, <2>9, Levels
    <3>4. d.view # "SeedScanPassphraseView"
      BY <2>5, <2>9 DEF BeforeScan
    <3>5. pending' # NoSeed => hist[1].view # "SeedScanPassphraseView"
      BY <1>3 DEF SeedInv, PendingReady
    <3>6. Fits(d, n)
      BY <1>3, <3>2, <3>3, <3>4, <3>5 DEF Fits, HistoryReady
    <3>7. HasWords(d)'
      BY <2>5, <2>9, HasNoWords
    <3>8. wipes = 0 => pending # NoSeed
      BY <1>2, InvFacts
    <3>9. pending # NoSeed => heap[pending].key \notin LockedKeys
      BY <1>5
    <3>10. HasPending(d)'
      BY <1>3, <2>5, <2>9, <3>8, <3>9 DEF HasPending
    <3> QED
      BY <1>3, <2>1, <2>9, <3>1, <3>6, <3>7, <3>10, Arrive, ListsEntries
  <2> QED
    BY <2>7, <2>8, <2>9
<1>6. Back /\ ~Goto(Plain("SeedAezeedPassphraseModeView")) => (pending # NoSeed => heap[pending].key \notin LockedKeys)
  BY <1>2 DEF ScanPassphraseBack, TakesPassphrase
<1> QED
  BY <1>4, <1>5, <1>6 DEF ScanPassphraseBack

-----------------------------------------------------------------------------
(* A stored seed, and discarding one                                        *)

LEMMA SeedOptionsKeeps == ASSUME SeedInv, SeedOptions PROVE SeedInv'
<1>1. cur.view = "SeedOptionsView" /\ UNCHANGED wipes /\ KeepsAll
  BY DEF SeedOptions, At
<1>2. Level(cur) = 0
  BY <1>1, Levels DEF MenuViews
<1>3. CASE Goto(Home)
  BY <1>1, <1>2, <1>3, GotoMenu, Endpoints
<1>4. CASE Goto(OfSeed("SeedDiscardView", held))
  <2>1. held # NoSeed /\ held \in Objects \cup {NoSeed}
    BY <1>1 DEF SeedInv, HeldReady, TypeOK
  <2>2. PICK o \in Objects : o = held
    BY <2>1
  <2>3. Goto(OfSeed("SeedDiscardView", o))
    BY <1>4, <2>2
  <2>4. o # NoSeed
    BY <2>1, <2>2
  <2> QED
    BY <1>1, <1>2, <2>3, <2>4, OfSeedIs, GotoMenu
<1> QED
  BY <1>3, <1>4 DEF SeedOptions

\* The question about the pending seed, and the one about a stored seed.
LEMMA OnDiscard ==
    ASSUME SeedInv, cur.view = "SeedDiscardView"
    PROVE  /\ IsPendingDiscard => cur = Plain("SeedDiscardView") /\ Level(cur) = 4
           /\ ~IsPendingDiscard => /\ Level(cur) = 0 /\ pending = NoSeed
                                  /\ held = cur.seed /\ held \in Objects
<1>1. cur.seed = NoSeed <=> cur = Plain("SeedDiscardView")
  BY InvFacts, ByView
<1>2. CASE cur.seed = NoSeed
  <2>1. Needed(cur)
    BY <1>1, <1>2 DEF Needed
  <2> QED
    BY <1>1, <1>2, <2>1, Levels DEF IsPendingDiscard
<1>3. CASE cur.seed # NoSeed
  <2>1. ~Needed(cur)
    BY <1>1, <1>3 DEF Needed, PendingViews, PassphraseViews
  <2>2. Level(cur) = 0
    BY <2>1, Levels
  <2>3. held = cur.seed /\ cur.seed \in Objects
    BY <1>3, <2>1, InvFacts, ByView DEF SeedInv, HeldReady
  <2>4. pending = NoSeed
    BY <2>2, InvFacts
  <2> QED
    BY <1>3, <2>2, <2>3, <2>4 DEF IsPendingDiscard
<1> QED
  BY <1>2, <1>3

(* The view is replaced by d, which comes no earlier in the workflow.       *)
LEMMA ForwardKeeps ==
    ASSUME SeedInv, NEW d \in Destinations, Forward(d), KeepsAll, UNCHANGED wipes,
           Level(d) \in {0, 4}, Level(cur) = Level(d), d.view # "SeedScanPassphraseView",
           d.view \notin {"SeedAddPassphraseExitDialogView", "SeedReviewPassphraseView"},
           pending # NoSeed => CanShow(d)
    PROVE  SeedInv'
<1>1. StorageSound' /\ WordsTyped' /\ HistoryReady /\ pending' = pending /\ wipes' = wipes
  BY StorageKept, WordsKept DEF KeepsAll
<1>2. CASE ~CanShow(d)
  BY <1>1, <1>2, ForwardShows, ErrorKeeps
<1>3. CASE CanShow(d)
  <2>1. Nav!Visit(d, TRUE, FALSE) /\ held' = HeldBy(d) /\ listed' \in Nat
    BY <1>1, <1>3, ForwardShows, ListsEntries
  <2>2. Laws!Visit(d, TRUE, FALSE) /\ Laws!Tidy
    BY <2>1, InvFacts, NavHasLaws
  <2>3. PICK n \in 0..Len(hist) : Laws!Lands(d, n)
    BY <2>2, Laws!ForwardLands, Endpoints
  <2>4. Len(hist) \in Nat /\ n \in Nat /\ 1..n \subseteq 1..Len(hist)
    BY InvFacts
  <2>5. \A i \in 1..n : Level(hist[i]) <= Level(d)
    BY <2>4, InvFacts
  <2>6. pending' # NoSeed => hist[1].view # "SeedScanPassphraseView"
    BY <1>1 DEF SeedInv, PendingReady
  <2>7. Fits(d, n)
    BY <1>1, <2>4, <2>5, <2>6 DEF Fits, HistoryReady
  <2>8. HasWords(d)'
    BY HasNoWords
  <2>9. HasPending(d)'
    <3>1. Needed(d) <=> Level(cur) = 4
      BY Levels
    <3>2. pending # NoSeed => Level(cur) = 4
      BY InvFacts
    <3>3. wipes = 0 /\ Level(cur) = 4 => pending # NoSeed
      BY InvFacts
    <3> QED
      BY <1>1, <3>1, <3>2, <3>3 DEF HasPending
  <2> QED
    BY <1>1, <1>3, <2>1, <2>3, <2>7, <2>8, <2>9, Arrive
<1> QED
  BY <1>2, <1>3

LEMMA KeepSeedKeeps == ASSUME SeedInv, KeepSeed PROVE SeedInv'
<1>1. cur.view = "SeedDiscardView" /\ UNCHANGED wipes /\ KeepsAll
  BY DEF KeepSeed, At
<1>2. CASE IsPendingDiscard
  <2>1. Forward(Plain("SeedFinalizeView")) /\ Level(cur) = 4
    BY <1>1, <1>2, OnDiscard DEF KeepSeed
  <2>2. /\ Plain("SeedFinalizeView") \in Destinations /\ Plain("SeedFinalizeView").view = "SeedFinalizeView"
        /\ Level(Plain("SeedFinalizeView")) = 4
    BY PendedIs DEF PendingViews
  <2>3. pending # NoSeed => HasBytes(heap[pending])
    BY <1>1 DEF SeedInv, PendingReady, Usable
  <2>4. heap' = heap /\ pending' = pending
    BY <1>1 DEF KeepsAll, KeepsStorage, storage
  <2>5. pending # NoSeed => CanShow(Plain("SeedFinalizeView"))
    BY <2>3, <2>4, CanShowPended DEF PendingViews
  <2> QED
    BY <1>1, <2>1, <2>2, <2>5, ForwardKeeps
<1>3. CASE ~IsPendingDiscard
  <2>1. /\ Forward(OfSeed("SeedOptionsView", held)) /\ Level(cur) = 0
        /\ pending = NoSeed /\ held \in Objects
    BY <1>1, <1>3, OnDiscard DEF KeepSeed
  <2>2. PICK o \in Objects : o = held
    BY <2>1
  <2>3. Forward(OfSeed("SeedOptionsView", o))
    BY <2>1, <2>2
  <2>4. /\ OfSeed("SeedOptionsView", o) \in Destinations
        /\ OfSeed("SeedOptionsView", o).view = "SeedOptionsView"
        /\ Level(OfSeed("SeedOptionsView", o)) = 0
    BY OfSeedIs
  <2> QED
    BY <1>1, <2>1, <2>3, <2>4, ForwardKeeps
<1> QED
  BY <1>2, <1>3

(* list.remove: what is left of a list without its k-th entry.              *)
WithoutAt(s, k) == SubSeq(s, 1, k - 1) \o SubSeq(s, k + 1, Len(s))

LEMMA WithoutEntry ==
    ASSUME NEW S, NEW s \in Seq(S), NEW k \in 1..Len(s)
    PROVE  /\ WithoutAt(s, k) \in Seq(S) /\ Len(WithoutAt(s, k)) = Len(s) - 1
           /\ \A i \in 1..(Len(s) - 1) : WithoutAt(s, k)[i] = IF i < k THEN s[i] ELSE s[i + 1]
<1> DEFINE a == SubSeq(s, 1, k - 1)
           b == SubSeq(s, k + 1, Len(s))
           t == WithoutAt(s, k)
           m == Len(s)
<1>1. Len(s) \in Nat /\ k \in Nat /\ 1 <= k /\ k <= Len(s) /\ \A i \in 1..Len(s) : s[i] \in S
  OBVIOUS
<1>2. a \in Seq(S) /\ Len(a) = k - 1 /\ \A i \in 1..(k - 1) : a[i] = s[i]
  <2>1. 1 \in Int /\ k - 1 \in Int /\ \A i \in 1..(k - 1) : s[i] \in S
    BY <1>1
  <2>2. /\ a \in Seq(S) /\ Len(a) = IF 1 <= k - 1 THEN (k - 1) - 1 + 1 ELSE 0
        /\ \A i \in 1..((k - 1) - 1 + 1) : a[i] = s[1 + i - 1]
    BY <2>1, SubSeqProperties
  <2> HIDE DEF a
  <2>3. \A i \in 1..(k - 1) : i \in 1..((k - 1) - 1 + 1) /\ 1 + i - 1 = i
    BY <1>1
  <2> QED
    BY <1>1, <2>2, <2>3
<1>3. b \in Seq(S) /\ Len(b) = Len(s) - k /\ \A i \in 1..(Len(s) - k) : b[i] = s[k + i]
  <2>1. k + 1 \in Int /\ Len(s) \in Int /\ \A i \in (k + 1)..Len(s) : s[i] \in S
    BY <1>1
  <2>2. /\ b \in Seq(S) /\ Len(b) = IF k + 1 <= Len(s) THEN Len(s) - (k + 1) + 1 ELSE 0
        /\ \A i \in 1..(Len(s) - (k + 1) + 1) : b[i] = s[k + 1 + i - 1]
    BY <2>1, SubSeqProperties
  <2> HIDE DEF b
  <2>3. \A i \in 1..(Len(s) - k) : i \in 1..(Len(s) - (k + 1) + 1) /\ k + 1 + i - 1 = k + i
    BY <1>1
  <2> QED
    BY <1>1, <2>2, <2>3
<1> HIDE DEF a, b
<1>4. /\ a \o b \in Seq(S) /\ Len(a \o b) = Len(a) + Len(b)
      /\ \A i \in 1..(Len(a) + Len(b)) : (a \o b)[i] = IF i <= Len(a) THEN a[i] ELSE b[i - Len(a)]
  BY <1>2, <1>3, ConcatProperties
<1>5. t = a \o b
  BY DEF a, b, WithoutAt
<1>6. m \in Nat /\ k \in Nat /\ Len(a) = k - 1 /\ Len(b) = m - k /\ k <= m
  BY <1>1, <1>2, <1>3
<1> HIDE DEF t, m
<1>7. (k - 1) + (m - k) = m - 1
  BY <1>6
<1>8. ASSUME NEW i \in 1..(m - 1) PROVE t[i] = IF i < k THEN s[i] ELSE s[i + 1]
  <2>1. t[i] = IF i <= k - 1 THEN a[i] ELSE b[i - (k - 1)]
    BY <1>4, <1>5, <1>6, <1>7
  <2>2. CASE i < k
    <3>1. i <= k - 1 /\ i \in 1..(k - 1)
      BY <1>6, <2>2
    <3> QED
      BY <1>2, <2>1, <2>2, <3>1
  <2>3. CASE ~(i < k)
    <3>1. ~(i <= k - 1) /\ i - (k - 1) \in 1..(m - k) /\ k + (i - (k - 1)) = i + 1
      BY <1>6, <2>3
    <3> QED
      BY <1>3, <2>1, <2>3, <3>1 DEF m
  <2> QED
    BY <2>2, <2>3
<1> QED
  BY <1>4, <1>5, <1>6, <1>7, <1>8 DEF t, m

(* The entry that is removed is the discarded seed's own: every other one   *)
(* can be used, and a seed that was just wiped cannot.                      *)
LEMMA RemovesItself ==
    ASSUME SeedInv, NEW o \in Objects
    PROVE  Removable(WipedHeap(o), o) = {i \in DOMAIN seeds : seeds[i] = o}
<1>1. /\ heap \in [Objects -> Contents] /\ StoredSeedsUsable /\ o # NoSeed
      /\ \A i \in DOMAIN seeds : seeds[i] \in Objects \cup {NoSeed}
  BY InvFacts, SeedFlowAssumption DEF StorageSound
<1>2. WipedHeap(o)[o].key = NoKey /\ \A x \in Objects \ {o} : WipedHeap(o)[x] = heap[x]
  BY <1>1 DEF WipedHeap, Wiped, Contents
<1>3. ASSUME NEW i \in DOMAIN seeds PROVE SameIn(WipedHeap(o), seeds[i], o) <=> seeds[i] = o
  <2>1. CASE seeds[i] = o \/ seeds[i] = NoSeed
    BY <1>1, <2>1 DEF SameIn
  <2>2. CASE seeds[i] # o /\ seeds[i] # NoSeed
    <3>1. seeds[i] \in Objects \ {o}
      BY <1>1, <2>2
    <3>2. HasBytes(heap[seeds[i]])
      BY <1>1, <2>2 DEF StoredSeedsUsable, Stored, Usable
    <3>3. WipedHeap(o)[seeds[i]] = heap[seeds[i]]
      BY <1>2, <3>1
    <3>4. heap[seeds[i]].key # NoKey
      BY <3>2 DEF HasBytes
    <3>5. ~SameIn(WipedHeap(o), seeds[i], o)
      BY <1>1, <1>2, <2>2, <3>2, <3>3, <3>4 DEF SameIn
    <3> QED
      BY <2>2, <3>5
  <2> QED
    BY <2>1, <2>2
<1> QED
  BY <1>3 DEF Removable

(* The entries of a list without one of them.                               *)
LEMMA EntriesLeft ==
    ASSUME SeedInv, NEW k \in 1..Len(seeds), seeds[k] # NoSeed, seeds' = WithoutAt(seeds, k)
    PROVE  /\ seeds' \in Seq(Objects \cup {NoSeed}) /\ StoredOnce'
           /\ Stored' \subseteq Stored \ {seeds[k]}
<1> DEFINE n == Len(seeds)
           from(i) == IF i < k THEN i ELSE i + 1
<1>1. seeds \in Seq(Objects \cup {NoSeed}) /\ StoredOnce
  BY InvFacts DEF StorageSound
<1>2. n \in Nat /\ k \in Nat /\ 1 <= k /\ k <= n /\ DOMAIN seeds = 1..n
  BY <1>1
<1>3. /\ seeds' \in Seq(Objects \cup {NoSeed}) /\ Len(seeds') = n - 1
      /\ \A i \in 1..(n - 1) : seeds'[i] = IF i < k THEN seeds[i] ELSE seeds[i + 1]
  BY <1>1, WithoutEntry
<1>4. DOMAIN seeds' = 1..(n - 1)
  BY <1>3
<1> HIDE DEF n
<1>5. \A i \in 1..(n - 1) : from(i) \in 1..n /\ from(i) # k /\ seeds'[i] = seeds[from(i)]
  BY <1>2, <1>3
<1>6. \A i, j \in 1..(n - 1) : from(i) = from(j) => i = j
  BY <1>2
<1> HIDE DEF from
<1>7. StoredOnce'
  <2> SUFFICES ASSUME NEW i \in DOMAIN seeds', NEW j \in DOMAIN seeds',
                      seeds'[i] = seeds'[j], seeds'[i] # NoSeed
               PROVE  i = j
    BY DEF StoredOnce
  <2>1. from(i) = from(j)
    BY <1>1, <1>2, <1>4, <1>5 DEF StoredOnce
  <2> QED
    BY <1>4, <1>6, <2>1
<1>8. ASSUME NEW i \in DOMAIN seeds' PROVE seeds'[i] \in Stored /\ seeds'[i] # seeds[k]
  BY <1>1, <1>2, <1>4, <1>5 DEF StoredOnce, Stored
<1> QED
  BY <1>3, <1>7, <1>8 DEF Stored

LEMMA DiscardSeedKeeps ==
    ASSUME SeedInv, NEW o \in Objects, DiscardSeed(o), pending = NoSeed, KeepsWords, UNCHANGED wipes
    PROVE  SeedInv'
<1> DEFINE found == Removable(WipedHeap(o), o)
           first == CHOOSE i \in found : \A j \in found : i <= j
<1>1. /\ heap' = WipedHeap(o) /\ pending' = NoSeed /\ wipes' = wipes
      /\ seeds' = IF found = {} THEN seeds ELSE WithoutAt(seeds, first)
      /\ IF found = {} THEN Fail ELSE Restart(Home)
  BY DEF DiscardSeed, WithoutAt
<1>2. found = {i \in DOMAIN seeds : seeds[i] = o}
  BY RemovesItself
<1>3. /\ heap \in [Objects -> Contents] /\ StoredOnce /\ StoredSeedsUsable /\ o # NoSeed
      /\ seeds \in Seq(Objects \cup {NoSeed}) /\ DOMAIN seeds = 1..Len(seeds)
      /\ wipes \in 0..MaxWipes
  BY InvFacts, SeedFlowAssumption DEF StorageSound
<1>4. heap' \in [Objects -> Contents] /\ \A x \in Objects \ {o} : heap'[x] = heap[x]
  <2>1. \A c \in Contents : Wiped(c) \in Contents
    BY DEF Wiped, Contents
  <2> QED
    BY <1>1, <1>3, <2>1 DEF WipedHeap
<1>5. WordsTyped'
  BY WordsKept
<1>6. CASE found = {}
  <2>1. o \notin Stored /\ seeds' = seeds /\ Fail
    BY <1>1, <1>2, <1>6 DEF Stored
  <2>2. \A x \in Stored \ {NoSeed} : heap'[x] = heap[x]
    BY <1>4, <2>1, InvFacts, StoredAreSeeds
  <2>3. StorageSound'
    BY <1>1, <1>4, <2>1, <2>2, StorageUntouched
  <2> QED
    BY <1>1, <1>5, <2>1, <2>3, FailKeeps
<1>7. CASE found # {}
  <2>1. PICK k \in found : TRUE
    BY <1>7
  <2>2. k \in 1..Len(seeds) /\ seeds[k] = o /\ \A j \in found : j = k
    BY <1>2, <1>3, <2>1 DEF StoredOnce
  <2>3. \A j \in found : k <= j
    BY <1>3, <2>2
  <2> HIDE DEF found
  <2>4. first \in found
    BY <2>1, <2>3
  <2>5. first = k
    BY <2>2, <2>4
  <2> HIDE DEF first
  <2>6. seeds' = WithoutAt(seeds, k) /\ Restart(Home)
    BY <1>1, <1>7, <2>5
  <2>7. seeds' \in Seq(Objects \cup {NoSeed}) /\ StoredOnce' /\ Stored' \subseteq Stored \ {o}
    BY <1>3, <2>2, <2>6, EntriesLeft
  <2>8. \A x \in Stored' : x # NoSeed => x \in Objects \ {o}
    BY <2>7, InvFacts, StoredAreSeeds
  <2>9. StoredSeedsUsable'
    <3> SUFFICES ASSUME NEW x \in Stored'
                 PROVE  IF x = NoSeed THEN wipes' > 0 ELSE HasBytes(heap'[x])
      BY DEF StoredSeedsUsable, Usable, HasBytes
    <3>1. x \in Stored
      BY <2>7
    <3>2. IF x = NoSeed THEN wipes > 0 ELSE HasBytes(heap[x])
      BY <1>3, <3>1 DEF StoredSeedsUsable, Usable
    <3> QED
      BY <1>1, <1>4, <2>8, <3>2
  <2>10. StorageSound'
    BY <1>1, <1>3, <1>4, <2>7, <2>9 DEF StorageSound
  <2> QED
    BY <1>1, <1>5, <2>6, <2>10, RestartKeeps, Endpoints
<1> QED
  BY <1>6, <1>7

LEMMA DiscardAnsweredKeeps == ASSUME SeedInv, DiscardAnswered PROVE SeedInv'
<1>1. cur.view = "SeedDiscardView" /\ UNCHANGED wipes /\ KeepsWords
  BY DEF DiscardAnswered, At
<1>2. CASE IsPendingDiscard
  <2>1. ClearPendingSeed /\ Restart(Home)
    BY <1>2 DEF DiscardAnswered
  <2>2. StorageSound' /\ pending' = NoSeed /\ WordsTyped'
    BY <1>1, <2>1, ClearKeepsStorage, WordsKept
  <2> QED
    BY <2>1, <2>2, RestartKeeps, Endpoints
<1>3. CASE ~IsPendingDiscard
  <2>1. DiscardSeed(held) /\ pending = NoSeed /\ held \in Objects
    BY <1>1, <1>3, OnDiscard DEF DiscardAnswered
  <2>2. PICK o \in Objects : o = held
    BY <2>1
  <2>3. DiscardSeed(o)
    BY <2>1, <2>2
  <2> QED
    BY <1>1, <2>1, <2>3, DiscardSeedKeeps
<1> QED
  BY <1>2, <1>3

-----------------------------------------------------------------------------
(* The auto-wipe, under whatever view waits for its answer                  *)

LEMMA WipeKeeps == ASSUME SeedInv, Wipe PROVE SeedInv'
<1>1. /\ hist' = << >> /\ cur' = cur /\ held' = held /\ listed' = listed
      /\ mnemonic' = mnemonic /\ kind' = kind /\ seeds' = << >> /\ pending' = NoSeed
      /\ wipes' = wipes + 1 /\ wipes < MaxWipes
      /\ heap' = [o \in Objects |-> IF o \in Stored \cup {pending} THEN Wiped(heap[o]) ELSE heap[o]]
  BY DEF Wipe, Nav!Forget, words
<1>2. TypeOK'
  <2>1. \A c \in Contents : Wiped(c) \in Contents
    BY DEF Wiped, Contents
  <2>2. heap' \in [Objects -> Contents]
    BY <1>1, <2>1 DEF SeedInv, TypeOK
  <2>3. wipes' \in 0..MaxWipes
    BY <1>1, SeedFlowAssumption DEF SeedInv, TypeOK
  <2> QED
    BY <1>1, <2>2, <2>3 DEF SeedInv, TypeOK, Nav!TypeOK
<1>3. Nav!EndsWithCurrent' /\ Nav!NoRepeats' /\ Climbs'
  BY <1>1 DEF Nav!EndsWithCurrent, Nav!NoRepeats, Climbs
<1>4. WordsReady'
  BY <1>1 DEF SeedInv, WordsReady, DoneWordsValid, Complete, FinalWord
<1>5. PendingReady'
  <2>1. wipes' # 0
    BY <1>1 DEF SeedInv, TypeOK
  <2> QED
    BY <1>1, <2>1 DEF PendingReady
<1>6. StoredOnce' /\ StoredSeedsUsable' /\ Stored' = {}
  BY <1>1 DEF StoredOnce, StoredSeedsUsable, Stored
<1>7. HeldReady'
  BY <1>1, <1>6 DEF SeedInv, HeldReady
<1> QED
  BY <1>2, <1>3, <1>4, <1>5, <1>6, <1>7 DEF SeedInv

LEMMA InitHolds == ASSUME Init PROVE SeedInv
<1> DEFINE blank == [kind |-> "bip39", key |-> NoKey, pass |-> ""]
<1>1. /\ cur = Home /\ hist = << >> /\ held = NoSeed /\ listed = 0
      /\ seeds = << >> /\ pending = NoSeed /\ mnemonic = << >> /\ kind = "bip39" /\ wipes = 0
  BY DEF Init, Nav!Init
<1>2. heap = [o \in Objects |-> blank] /\ blank \in Contents
  BY DEF Init, Contents
<1> HIDE DEF blank
<1>3. Home \in Destinations /\ Home.view = "MainMenuView" /\ Home.seed = NoSeed /\ Level(Home) = 0
  BY Endpoints, ViewOf DEF Home
<1>4. ~Needed(Home)
  BY <1>3, Levels
<1>5. TypeOK
  <2>1. heap \in [Objects -> Contents]
    BY <1>2
  <2>2. wipes \in 0..MaxWipes
    BY <1>1, SeedFlowAssumption
  <2> QED
    BY <1>1, <1>3, <2>1, <2>2 DEF TypeOK, Nav!TypeOK
<1>6. Nav!EndsWithCurrent /\ Nav!NoRepeats /\ Climbs
  BY <1>1 DEF Nav!EndsWithCurrent, Nav!NoRepeats, Climbs
<1>7. WordsReady
  BY <1>1, <1>3, ReadyAnyway DEF WordsReady, DoneWordsValid
<1>8. PendingReady /\ HeldReady
  BY <1>1, <1>3, <1>4 DEF PendingReady, HeldReady
<1>9. StoredOnce /\ StoredSeedsUsable
  BY <1>1 DEF StoredOnce, StoredSeedsUsable, Stored
<1> QED
  BY <1>5, <1>6, <1>7, <1>8, <1>9 DEF SeedInv

LEMMA SeedNext == ASSUME SeedInv, [Next]_vars PROVE SeedInv'
<1>1. CASE UNCHANGED vars
  <2>1. /\ cur' = cur /\ hist' = hist /\ held' = held /\ listed' = listed /\ heap' = heap /\ seeds' = seeds
        /\ pending' = pending /\ mnemonic' = mnemonic /\ kind' = kind /\ wipes' = wipes
    BY <1>1 DEF vars, screen, storage, words
  <2>2. TypeOK'
    BY <2>1 DEF SeedInv, TypeOK, Nav!TypeOK
  <2>3. Nav!EndsWithCurrent' /\ Nav!NoRepeats' /\ Climbs'
    BY <2>1 DEF SeedInv, Nav!EndsWithCurrent, Nav!NoRepeats, Climbs
  <2>4. WordsReady'
    BY <2>1 DEF SeedInv, WordsReady, DoneWordsValid, Complete, FinalWord
  <2>5. PendingReady' /\ HeldReady'
    BY <2>1 DEF SeedInv, PendingReady, HeldReady, Stored, Usable, HasBytes
  <2>6. StoredOnce' /\ StoredSeedsUsable'
    BY <2>1 DEF SeedInv, StoredOnce, StoredSeedsUsable, Stored, Usable, HasBytes
  <2> QED
    BY <2>2, <2>3, <2>4, <2>5, <2>6 DEF SeedInv
<1>2. CASE Wipe
  BY <1>2, WipeKeeps
<1>3. CASE MainMenu \/ LeaveError \/ SeedsMenu \/ LoadSeed \/ StartElectrum \/ StartAezeed
  BY <1>3, MainMenuKeeps, LeaveErrorKeeps, SeedsMenuKeeps, LoadSeedKeeps, StartMnemonicKeeps
<1>4. CASE EntryBack \/ WordRefused \/ WordTyped \/ LastWordInvalid \/ InvalidMnemonic
  BY <1>4, EntryBackKeeps, WordRefusedKeeps, WordTypedKeeps, LastWordInvalidKeeps, InvalidMnemonicKeeps
<1>5. CASE \E o \in Objects, key \in Keys : LastWordTyped(o, key) \/ CalcDone(o, key)
  BY <1>5, LastWordTypedKeeps, CalcDoneKeeps
<1>6. CASE ToolsMenu \/ CalcNumWords \/ CalcPrompt \/ CalcCoinFlips \/ CalculateFinalWord
  BY <1>6, ToolsMenuKeeps, CalcNumWordsKeeps, CalcPromptKeeps, CalcCoinFlipsKeeps, CalculateFinalWordKeeps
<1>7. CASE CalcShow \/ CalcDoneBack \/ Finalize \/ AezeedPassphraseMode
  BY <1>7, CalcShowKeeps, CalcDoneBackKeeps, FinalizeKeeps, AezeedPassphraseModeKeeps
<1>8. CASE \/ \E p \in Passphrases \cup {""}, isBack \in BOOLEAN : AddPassphrase(p, isBack)
           \/ AddPassphraseExit \/ ScanPassphraseBack \/ \E p \in Passphrases : ScanPassphrase(p)
  BY <1>8, AddPassphraseKeeps, AddPassphraseExitKeeps, ScanPassphraseBackKeeps, ScanPassphraseKeeps
<1>9. CASE ReviewPassphrase \/ SeedOptions \/ KeepSeed \/ DiscardAnswered
  BY <1>9, ReviewPassphraseKeeps, SeedOptionsKeeps, KeepSeedKeeps, DiscardAnsweredKeeps
<1> QED
  BY <1>1, <1>2, <1>3, <1>4, <1>5, <1>6, <1>7, <1>8, <1>9 DEF Next, Answer

LEMMA SeedAlways == Spec => []SeedInv
<1>1. SeedInv /\ [Next]_vars => SeedInv'
  BY SeedNext
<1> QED
  BY InitHolds, <1>1, PTL DEF Spec

(* Type correctness: every destination is one of the views with arguments   *)
(* it takes, and the mnemonic is empty or has all its places.               *)
THEOREM LoadingIsTyped == Spec => []TypeOK
<1>1. SeedInv => TypeOK
  BY DEF SeedInv
<1> QED
  BY <1>1, SeedAlways, PTL

-----------------------------------------------------------------------------
(* Who comes to the entry of words, and with which mnemonic                 *)

\* e may lie below d: the first word is entered from a menu, and edited from the view of an invalid mnemonic.
From(d, e) ==
    /\ d = EditWords => e.view = "SeedMnemonicInvalidView"
    /\ d \in {Entry(0, FALSE), Entry(0, TRUE)} => Level(e) = 0

FirstFrom == \A i \in DOMAIN hist : i > 1 => From(hist[i], hist[i - 1])

EntryFinds == IsEntry(cur) /\ mnemonic = << >> => cur = EditWords

\* The view on screen has come on top of the first n views of the history.
Grown(n) ==
    /\ n \in 0..Len(hist) /\ DOMAIN hist' = 1..(n + 1)
    /\ \A i \in 1..n : hist'[i] = hist[i]
    /\ hist'[n + 1] = cur'

LEMMA FromWords ==
    /\ \A d, e : ~IsEntry(d) \/ d.word # 0 => From(d, e)
    /\ \A d \in Destinations : IsEntry(d) /\ d.word = 0 => d = EditWords \/ d \in {Entry(0, FALSE), Entry(0, TRUE)}
<1>1. ASSUME NEW d, NEW e, ~IsEntry(d) \/ d.word # 0
      PROVE  From(d, e)
  <2>1. /\ IsEntry(EditWords) /\ EditWords.word = 0
        /\ IsEntry(Entry(0, FALSE)) /\ Entry(0, FALSE).word = 0
        /\ IsEntry(Entry(0, TRUE)) /\ Entry(0, TRUE).word = 0
    BY ViewOf DEF IsEntry
  <2>2. d # EditWords /\ d # Entry(0, FALSE) /\ d # Entry(0, TRUE)
    BY <1>1, <2>1
  <2> QED
    BY <2>2 DEF From
<1>2. ASSUME NEW d \in Destinations, IsEntry(d), d.word = 0
      PROVE  d = EditWords \/ d \in {Entry(0, FALSE), Entry(0, TRUE)}
  <2>1. CASE \E v \in PlainViews : d = Plain(v)
    BY <1>2, <2>1, ViewOf DEF IsEntry, PlainViews, CalcViews, PassphraseViews
  <2>2. CASE \E i \in 0..(NumWords - 1), calc \in BOOLEAN : d = Entry(i, calc)
    <3>1. PICK i \in 0..(NumWords - 1), calc \in BOOLEAN : d = Entry(i, calc)
      BY <2>2
    <3>2. i = 0
      BY <1>2, <3>1, ViewOf
    <3> QED
      BY <3>1, <3>2
  <2>3. CASE \E coin \in BOOLEAN : d = ShowFinalWord(coin)
    BY <1>2, <2>3, ViewOf DEF IsEntry
  <2>5. CASE d = EditWords
    BY <2>5
  <2>6. \/ \E v \in PlainViews : d = Plain(v)
        \/ \E i \in 0..(NumWords - 1), calc \in BOOLEAN : d = Entry(i, calc)
        \/ d = EditWords
        \/ \E coin \in BOOLEAN : d = ShowFinalWord(coin)
        \/ \E v \in {"SeedOptionsView", "SeedDiscardView"}, o \in Objects \cup {NoSeed} : d = OfSeed(v, o)
    BY DEF Destinations
  <2>4. CASE \E v \in {"SeedOptionsView", "SeedDiscardView"}, o \in Objects \cup {NoSeed} : d = OfSeed(v, o)
    BY <1>2, <2>4, ViewOf DEF IsEntry
  <2> QED
    BY <2>1, <2>2, <2>3, <2>4, <2>5, <2>6
<1> QED
  BY <1>1, <1>2

LEMMA GrownFrom ==
    ASSUME SeedInv, FirstFrom, NEW n, Grown(n), n >= 1 => From(cur', hist[n])
    PROVE  FirstFrom'
<1>1. n \in Nat /\ Len(hist) \in Nat /\ n <= Len(hist) /\ DOMAIN hist = 1..Len(hist)
  BY InvFacts DEF Grown
<1> SUFFICES ASSUME NEW i \in DOMAIN hist', i > 1 PROVE From(hist'[i], hist'[i - 1])
  BY DEF FirstFrom, From
<1>2. i \in 1..(n + 1) /\ i - 1 \in 1..n
  BY <1>1 DEF Grown
<1>3. hist'[i - 1] = hist[i - 1]
  BY <1>2 DEF Grown
<1>4. CASE i = n + 1
  BY <1>1, <1>2, <1>3, <1>4 DEF Grown
<1>5. CASE i # n + 1
  <2>1. i \in 1..n /\ i \in 1..Len(hist)
    BY <1>1, <1>2, <1>5
  <2>2. hist'[i] = hist[i]
    BY <2>1 DEF Grown
  <2> QED
    BY <1>1, <1>3, <2>1, <2>2 DEF FirstFrom
<1> QED
  BY <1>4, <1>5

LEMMA LandsGrown ==
    ASSUME SeedInv, NEW d, NEW n, Laws!Lands(d, n)
    PROVE  cur' = d /\ (hist' = << >> \/ Grown(n))
<1>1. CASE d = Home
  BY <1>1 DEF Laws!Lands
<1>2. CASE d # Home
  <2>1. hist' \in Seq(Destinations \ {Home}) /\ Len(hist') = n + 1
    BY <1>2 DEF Laws!Lands
  <2>2. DOMAIN hist' = 1..(n + 1)
    BY <2>1
  <2> QED
    BY <1>2, <2>2 DEF Laws!Lands, Grown
<1> QED
  BY <1>1, <1>2

LEMMA EmptyFrom == hist' = << >> => FirstFrom'
BY DEF FirstFrom

LEMMA EntriesDiffer == \A calc \in BOOLEAN : Entry(0, calc) # EditWords
<1>1. EditWords.edit = TRUE
  BY DEF EditWords, Plain
<1>2. \A calc \in BOOLEAN : Entry(0, calc).edit = FALSE
  BY DEF Entry, Plain
<1> QED
  BY <1>1, <1>2

LEMMA NextOnScreen == ASSUME SeedInv' PROVE cur' \in Destinations
BY Endpoints DEF SeedInv, TypeOK, Nav!TypeOK

LEMMA ErrorIs == Error \in Destinations /\ ~IsEntry(Error)
BY Endpoints DEF IsEntry

(* A visit shows the view it is for, or the error, and where it lies fits.  *)
LEMMA GotoFrom ==
    ASSUME SeedInv, SeedInv', FirstFrom, NEW d, Goto(d), From(d, cur)
    PROVE  FirstFrom' /\ cur' \in {d, Error}
<1>1. CASE ~CanShow(d)
  <2>1. Nav!Visit(Error, FALSE, TRUE)
    BY <1>1, GotoShows
  <2>2. Laws!Lands(Error, 0)
    BY <2>1, InvFacts, NavHasLaws, Laws!ClearLands, Endpoints
  <2>3. cur' = Error /\ (hist' = << >> \/ Grown(0))
    BY <2>2, LandsGrown
  <2> QED
    BY <2>3, EmptyFrom, GrownFrom
<1>2. CASE CanShow(d)
  <2>1. Nav!Visit(d, FALSE, FALSE)
    BY <1>2, GotoShows
  <2>2. cur' = d
    BY <2>1 DEF Nav!Visit, Nav!Enter
  <2>3. d \in Destinations
    BY <2>2, NextOnScreen
  <2>4. PICK n \in 0..Len(hist) : Laws!Lands(d, n) /\ (n = Len(hist) \/ hist[n + 1] = d)
    BY <2>1, <2>3, InvFacts, NavHasLaws, Laws!GotoLands, Endpoints
  <2> DEFINE m == Len(hist)
  <2>5. n \in Nat /\ m \in Nat /\ n <= m /\ DOMAIN hist = 1..m
    BY InvFacts
  <2> HIDE DEF m
  <2>6. ASSUME n >= 1 PROVE From(d, hist[n])
    <3>1. CASE n = m
      <4>1. hist # << >>
        BY <2>5, <2>6, <3>1 DEF m
      <4>2. hist[n] = cur
        BY <3>1, <4>1, InvFacts DEF m
      <4> QED
        BY <4>2
    <3>2. CASE n # m
      <4>1. n + 1 \in 1..m /\ n + 1 > 1 /\ (n + 1) - 1 = n
        BY <2>5, <2>6, <3>2
      <4>2. hist[n + 1] = d
        BY <2>4, <3>2 DEF m
      <4> QED
        BY <2>5, <4>1, <4>2 DEF FirstFrom
    <3> QED
      BY <3>1, <3>2
  <2>7. hist' = << >> \/ Grown(n)
    BY <2>4, LandsGrown
  <2> QED
    BY <2>2, <2>6, <2>7, EmptyFrom, GrownFrom
<1> QED
  BY <1>1, <1>2

(* Neither does a step to another view than the entry disturb the history.  *)
Away == \E d : ~IsEntry(d) /\ (Goto(d) \/ Forward(d) \/ Restart(d))

LEMMA AwayFrom ==
    ASSUME SeedInv, SeedInv', FirstFrom, Away
    PROVE  FirstFrom' /\ ~IsEntry(cur')
<1>1. PICK d : ~IsEntry(d) /\ (Goto(d) \/ Forward(d) \/ Restart(d))
  BY DEF Away
<1>2. CASE Goto(d)
  BY <1>1, <1>2, FromWords, GotoFrom, ErrorIs
<1>3. CASE Forward(d) \/ Restart(d)
  <2>1. PICK e : e \in {d, Error} /\ (Nav!Visit(e, TRUE, FALSE) \/ Nav!Visit(e, FALSE, TRUE))
    <3>1. Nav!Visit(d, TRUE, FALSE) \/ Nav!Visit(d, FALSE, TRUE) \/ Nav!Visit(Error, FALSE, TRUE)
      BY <1>3, ForwardShows, RestartShows
    <3> QED
      BY <3>1
  <2>2. cur' = e /\ ~IsEntry(e)
    BY <1>1, <2>1, ErrorIs DEF Nav!Visit, Nav!Enter
  <2>3. e \in Destinations /\ e \in (Destinations \ {Home}) \cup {Home}
    BY <2>2, NextOnScreen, Endpoints
  <2>4. (Laws!Visit(e, TRUE, FALSE) \/ Laws!Visit(e, FALSE, TRUE)) /\ Laws!Tidy
    BY <2>1, InvFacts, NavHasLaws
  <2>5. \E n : Laws!Lands(e, n)
    BY <2>3, <2>4, Laws!ClearLands, Laws!ForwardLands
  <2>6. PICK n : hist' = << >> \/ Grown(n)
    BY <2>5, LandsGrown
  <2> QED
    BY <2>2, <2>6, FromWords, EmptyFrom, GrownFrom
<1> QED
  BY <1>1, <1>2, <1>3

(* "Back" uncovers what lies below.                                         *)
LEMMA BackFrom ==
    ASSUME SeedInv, FirstFrom, Back
    PROVE  /\ FirstFrom'
           /\ IsEntry(cur') =>
                /\ Len(hist) - 1 \in 1..Len(hist) /\ Len(hist) \in DOMAIN hist /\ Len(hist) > 1
                /\ cur' = hist[Len(hist) - 1] /\ From(cur, cur') /\ Level(cur') <= Level(cur)
<1>1. PICK d \in Destinations :
        /\ d = Laws!Below(FALSE)
        /\ \/ d = Home
           \/ Len(hist) - 1 \in 1..Len(hist) /\ d = hist[Len(hist) - 1] /\ hist[Len(hist)] = cur
        /\ CanShow(d) => /\ held' = HeldBy(d) /\ listed' \in {0, Len(seeds')}
                         /\ \E n \in 0..Len(hist) :
                              /\ Laws!Lands(d, n)
                              /\ d = Home \/ (n < Len(hist) /\ hist[n + 1] = d)
  BY BackUncovers
<1>2. Len(hist) \in Nat /\ DOMAIN hist = 1..Len(hist)
  BY InvFacts
<1>3. CASE ~CanShow(d)
  <2>1. Nav!Visit(Error, FALSE, TRUE)
    BY <1>1, <1>3, BackShows
  <2>2. Laws!Lands(Error, 0)
    BY <2>1, InvFacts, NavHasLaws, Laws!ClearLands, Endpoints
  <2>3. cur' = Error /\ (hist' = << >> \/ Grown(0))
    BY <2>2, LandsGrown
  <2> QED
    BY <2>3, EmptyFrom, GrownFrom, ErrorIs
<1>4. CASE CanShow(d) /\ d = Home
  <2>1. cur' = Home /\ hist' = << >>
    BY <1>1, <1>4 DEF Laws!Lands
  <2> QED
    BY <2>1, EmptyFrom, Endpoints DEF IsEntry
<1>5. CASE CanShow(d) /\ d # Home
  <2>1. PICK n \in 0..Len(hist) : Laws!Lands(d, n) /\ n < Len(hist) /\ hist[n + 1] = d
    BY <1>1, <1>5
  <2>2. n \in Nat /\ n + 1 \in DOMAIN hist
    BY <1>2, <2>1
  <2>3. cur' = d /\ (hist' = << >> \/ Grown(n))
    BY <2>1, LandsGrown
  <2>4. n >= 1 => From(d, hist[n])
    <3>1. n >= 1 => n + 1 > 1 /\ (n + 1) - 1 = n
      BY <2>2
    <3> QED
      BY <2>1, <2>2, <3>1 DEF FirstFrom
  <2>5. FirstFrom'
    BY <2>3, <2>4, EmptyFrom, GrownFrom
  <2>6. Len(hist) - 1 \in 1..Len(hist) /\ d = hist[Len(hist) - 1] /\ hist[Len(hist)] = cur
    BY <1>1, <1>5
  <2>7. Len(hist) \in DOMAIN hist /\ Len(hist) > 1
    BY <1>2, <2>6
  <2>8. From(cur, d) /\ Level(d) <= Level(cur)
    BY <2>6, <2>7, InvFacts DEF FirstFrom
  <2> QED
    BY <2>3, <2>5, <2>6, <2>7, <2>8
<1> QED
  BY <1>3, <1>4, <1>5

LEMMA AwayIs ==
    /\ \A v : v # "SeedMnemonicEntryView" => ~IsEntry(Plain(v)) /\ \A o : ~IsEntry(OfSeed(v, o))
    /\ \A coin \in BOOLEAN : ~IsEntry(ShowFinalWord(coin))
    /\ ~IsEntry(Home) /\ ~IsEntry(Error)
BY ViewOf, Endpoints DEF IsEntry

(* Menus lead to menus, back as well, or start the entry of a new mnemonic. *)
LEMMA StartedNotEmpty ==
    ASSUME NEW k, InitPendingMnemonic(k)
    PROVE  mnemonic' # << >>
<1>1. mnemonic' = [i \in 1..NumWords |-> NoWord] /\ NumWords \in Nat /\ NumWords > 1
  BY SeedFlowAssumption DEF InitPendingMnemonic
<1>2. mnemonic' \in Seq({NoWord}) /\ Len(mnemonic') = NumWords
  BY <1>1
<1> QED
  BY <1>1, <1>2

LEMMA MenuFinds ==
    ASSUME SeedInv, SeedInv', FirstFrom, Level(cur) = 0,
           Away \/ Back \/ \E calc \in BOOLEAN : \E k : InitPendingMnemonic(k) /\ Goto(Entry(0, calc))
    PROVE  FirstFrom' /\ EntryFinds'
<1>1. CASE Away
  BY <1>1, AwayFrom DEF EntryFinds
<1>2. CASE Back
  <2>1. ASSUME IsEntry(cur') PROVE FALSE
    <3>1. Level(cur') <= 0 /\ Level(cur') \in 1..2
      BY <1>2, <2>1, BackFrom, Levels
    <3> QED
      BY <3>1
  <2> QED
    BY <1>2, <2>1, BackFrom DEF EntryFinds
<1>3. CASE \E calc \in BOOLEAN : \E k : InitPendingMnemonic(k) /\ Goto(Entry(0, calc))
  <2>4. PICK calc \in BOOLEAN : \E k : InitPendingMnemonic(k) /\ Goto(Entry(0, calc))
    BY <1>3
  <2>1. PICK k : InitPendingMnemonic(k) /\ Goto(Entry(0, calc))
    BY <2>4
  <2>2. Entry(0, calc) # EditWords
    BY EntriesDiffer
  <2>3. From(Entry(0, calc), cur)
    BY <2>2 DEF From
  <2> QED
    BY <2>1, <2>3, GotoFrom, StartedNotEmpty DEF EntryFinds
<1> QED
  BY <1>1, <1>2, <1>3

LEMMA MenusFind ==
    ASSUME SeedInv, SeedInv', FirstFrom,
           MainMenu \/ LeaveError \/ SeedsMenu \/ LoadSeed \/ StartElectrum \/ StartAezeed
           \/ ToolsMenu \/ CalcNumWords \/ SeedOptions
    PROVE  FirstFrom' /\ EntryFinds'
<1>1. Level(cur) = 0
  BY Levels DEF MainMenu, LeaveError, SeedsMenu, LoadSeed, StartElectrum, StartAezeed, StartMnemonic,
                ToolsMenu, CalcNumWords, SeedOptions, At, MenuViews
<1>2. Away \/ Back \/ \E calc \in BOOLEAN : \E k : InitPendingMnemonic(k) /\ Goto(Entry(0, calc))
  <2>1. CASE MainMenu \/ LeaveError \/ SeedsMenu \/ SeedOptions
    BY <2>1, AwayIs DEF MainMenu, LeaveError, SeedsMenu, SeedOptions, Away, Fail
  <2>2. CASE LoadSeed \/ ToolsMenu
    BY <2>2, AwayIs DEF LoadSeed, ToolsMenu, Away
  <2>3. CASE StartElectrum \/ StartAezeed \/ CalcNumWords
    BY <2>3 DEF StartElectrum, StartAezeed, StartMnemonic, CalcNumWords
  <2> QED
    BY <2>1, <2>2, <2>3
<1> QED
  BY <1>1, <1>2, MenuFinds

(* Entering words.                                                          *)
LEMMA WordsFind ==
    ASSUME SeedInv, SeedInv', FirstFrom, EntryFinds,
           EntryBack \/ WordRefused \/ WordTyped \/ LastWordInvalid \/ InvalidMnemonic
           \/ \E o \in Objects, key \in Keys : LastWordTyped(o, key)
    PROVE  FirstFrom' /\ EntryFinds'
<1>1. CASE EntryBack
  <2>1. IsEntry(cur) /\ Back /\ cur \in Destinations
    BY <1>1, InvFacts DEF EntryBack, At, IsEntry
  <2>2. CASE cur.word = 0
    <3>1. cur = EditWords \/ cur \in {Entry(0, FALSE), Entry(0, TRUE)}
      BY <2>1, <2>2, FromWords
    <3>2. ASSUME IsEntry(cur') PROVE FALSE
      <4>1. cur'.view = "SeedMnemonicInvalidView" \/ Level(cur') = 0
        BY <2>1, <3>1, <3>2, BackFrom DEF From
      <4> QED
        BY <3>2, <4>1, Levels DEF IsEntry
    <3> QED
      BY <2>1, <3>2, BackFrom DEF EntryFinds
  <2>3. CASE cur.word # 0
    <3>1. cur # EditWords
      BY <2>3, ViewOf
    <3>2. mnemonic # << >> /\ mnemonic' = mnemonic
      BY <1>1, <2>1, <2>3, <3>1 DEF EntryFinds, EntryBack, KeepsWords, words
    <3> QED
      BY <2>1, <3>2, BackFrom DEF EntryFinds
  <2> QED
    BY <2>2, <2>3
<1>2. CASE WordRefused \/ LastWordInvalid
  <2>1. Away
    BY <1>2, AwayIs DEF WordRefused, LastWordInvalid, Fail, Away
  <2> QED
    BY <2>1, AwayFrom DEF EntryFinds
<1>3. CASE WordTyped
  <2>1. AcceptsWord /\ UpdatePendingMnemonic(Typed, cur.word)
    BY <1>3 DEF WordTyped
  <2>2. mnemonic' # << >> /\ cur.word \in 0..(NumWords - 1)
    BY <2>1, WordEntered, OnEntry DEF AcceptsWord
  <2>3. CASE Away
    BY <2>3, AwayFrom DEF EntryFinds
  <2>4. CASE Goto(Entry(cur.word + 1, cur.calc))
    <3>1. cur.calc \in BOOLEAN /\ cur.word + 1 # 0
      BY <2>1, <2>2, OnEntry, SeedFlowAssumption DEF AcceptsWord
    <3>2. Entry(cur.word + 1, cur.calc).word # 0
      BY <3>1, ViewOf
    <3> QED
      BY <2>2, <2>4, <3>2, FromWords, GotoFrom DEF EntryFinds
  <2> QED
    BY <1>3, <2>3, <2>4, AwayIs DEF WordTyped, Away
<1>4. CASE InvalidMnemonic
  <2>1. CASE Goto(EditWords)
    <3>1. cur.view = "SeedMnemonicInvalidView"
      BY <1>4 DEF InvalidMnemonic, At
    <3>2. From(EditWords, cur)
      BY <3>1, EntriesDiffer DEF From
    <3> QED
      BY <2>1, <3>2, GotoFrom, ErrorIs DEF EntryFinds
  <2>2. CASE Goto(Home)
    <3>1. Away
      BY <2>2, AwayIs DEF Away
    <3> QED
      BY <3>1, AwayFrom DEF EntryFinds
  <2> QED
    BY <1>4, <2>1, <2>2 DEF InvalidMnemonic
<1>5. ASSUME NEW o \in Objects, NEW key \in Keys, LastWordTyped(o, key)
      PROVE  FirstFrom' /\ EntryFinds'
  <2>1. Away
    BY <1>5, AwayIs DEF LastWordTyped, AfterConversion, Away
  <2> QED
    BY <2>1, AwayFrom DEF EntryFinds
<1> QED
  BY <1>1, <1>2, <1>3, <1>4, <1>5

(* Calculating the final word.                                              *)
LEMMA CalcFinds ==
    ASSUME SeedInv, SeedInv', FirstFrom,
           CalcPrompt \/ CalcCoinFlips \/ CalculateFinalWord \/ CalcShow \/ CalcDoneBack
           \/ \E o \in Objects, key \in Keys : CalcDone(o, key)
    PROVE  FirstFrom' /\ EntryFinds'
<1>1. CASE Away
  BY <1>1, AwayFrom DEF EntryFinds
<1>2. CASE Back /\ KeepsWords /\ Level(cur) \in {2, 3}
  <2>1. mnemonic' # << >>
    BY <1>2, ReadyFinds DEF KeepsWords, words
  <2> QED
    BY <1>2, <2>1, BackFrom DEF EntryFinds
<1>3. CASE UNCHANGED screen /\ cur.view = "ToolsCalcFinalWordShowFinalWordView"
  <2>1. cur' = cur /\ hist' = hist /\ ~IsEntry(cur)
    BY <1>3 DEF screen, IsEntry
  <2> QED
    BY <2>1 DEF FirstFrom, From, EntryFinds, IsEntry
<1>4. CASE CalcPrompt /\ Goto(Entry(Len(mnemonic) - 1, TRUE)) /\ UpdatePendingMnemonic(NoWord, Len(mnemonic) - 1)
  <2>1. cur.view \in CalcViews \ {"ToolsCalcFinalWordDoneView"}
    BY <1>4 DEF CalcPrompt, At, CalcViews
  <2>2. /\ Len(mnemonic) = NumWords /\ NumWords \in Nat /\ NumWords > 1
        /\ NumWords - 1 \in 0..(Len(mnemonic) - 1)
    BY <2>1, OnCalculation
  <2>3. mnemonic' # << >>
    BY <1>4, <2>2, WordsUpdated DEF NoWord, Typed, Checked
  <2>4. Entry(Len(mnemonic) - 1, TRUE).word # 0
    <3>1. Entry(Len(mnemonic) - 1, TRUE).word = Len(mnemonic) - 1
      BY ViewOf
    <3>2. ASSUME NEW m, m = NumWords, NumWords \in Nat, NumWords > 1 PROVE m - 1 # 0
      BY <3>2
    <3> QED
      BY <2>2, <3>1, <3>2
  <2> QED
    BY <1>4, <2>3, <2>4, FromWords, GotoFrom DEF EntryFinds
<1>5. CASE CalcPrompt
  <2>1. Level(cur) = 2
    BY <1>5, Levels DEF CalcPrompt, At, CalcViews
  <2> QED
    BY <1>1, <1>2, <1>4, <1>5, <2>1, AwayIs DEF CalcPrompt, Away
<1>6. CASE CalcCoinFlips \/ CalcShow \/ CalcDoneBack
  <2>1. Level(cur) \in {2, 3} /\ KeepsWords
    BY <1>6, Levels DEF CalcCoinFlips, CalcShow, CalcDoneBack, At, CalcViews, KeepsAll
  <2> QED
    BY <1>1, <1>2, <1>6, <2>1, AwayIs DEF CalcCoinFlips, CalcShow, CalcDoneBack, Away
<1>7. CASE CalculateFinalWord
  BY <1>1, <1>3, <1>7, AwayIs DEF CalculateFinalWord, At, Fail, Away
<1>8. ASSUME NEW o \in Objects, NEW key \in Keys, CalcDone(o, key)
      PROVE  Away
  BY <1>8, AwayIs DEF CalcDone, Fail, Away
<1> QED
  BY <1>1, <1>5, <1>6, <1>7, <1>8

(* A pending or a stored seed.                                              *)
LEMMA SeedsFind ==
    ASSUME SeedInv, SeedInv', FirstFrom,
           \/ Finalize \/ AezeedPassphraseMode
           \/ \E p, isBack : AddPassphrase(p, isBack)
           \/ AddPassphraseExit \/ ScanPassphraseBack \/ \E p : ScanPassphrase(p)
           \/ ReviewPassphrase \/ KeepSeed \/ DiscardAnswered
    PROVE  FirstFrom' /\ EntryFinds'
<1>1. CASE Away
  BY <1>1, AwayFrom DEF EntryFinds
<1>2. CASE Finalize \/ AezeedPassphraseMode
  <2>1. Away
    BY <1>2, AwayIs DEF Finalize, AezeedPassphraseMode, StoreAndShow, Away
  <2> QED
    BY <1>1, <2>1
<1>3. ASSUME NEW p, NEW isBack, AddPassphrase(p, isBack)
      PROVE  Away
  <2>1. \E v : (v # "SeedMnemonicEntryView" /\ Goto(Plain(v))) \/ Fail
    BY <1>3 DEF AddPassphrase
  <2> QED
    BY <2>1, AwayIs DEF Away, Fail
<1>4. CASE AddPassphraseExit \/ ReviewPassphrase
  <2>1. Away
    BY <1>4, AwayIs DEF AddPassphraseExit, ReviewPassphrase, StoreAndShow, Fail, Away
  <2> QED
    BY <1>1, <2>1
<1>5. ASSUME NEW p, ScanPassphrase(p)
      PROVE  Away
  <2>1. \E v : (v # "SeedMnemonicEntryView" /\ Goto(Plain(v))) \/ Fail
    BY <1>5 DEF ScanPassphrase
  <2> QED
    BY <2>1, AwayIs DEF Away, Fail
<1>6. CASE ScanPassphraseBack
  <2>1. CASE Back
    <3>1. ASSUME IsEntry(cur') PROVE FALSE
      <4>1. Len(hist) \in DOMAIN hist /\ Len(hist) > 1 /\ cur' = hist[Len(hist) - 1]
        BY <2>1, <3>1, BackFrom
      <4>2. hist[Len(hist)].view = "SeedScanPassphraseView"
        BY <1>6, <4>1, InvFacts DEF ScanPassphraseBack, At
      <4>3. cur'.view \in BeforeScan
        BY <4>1, <4>2 DEF SeedInv, Climbs
      <4> QED
        BY <3>1, <4>3 DEF BeforeScan, IsEntry
    <3> QED
      BY <2>1, <3>1, BackFrom DEF EntryFinds
  <2>2. CASE Goto(Plain("SeedAezeedPassphraseModeView"))
    <3>1. Away
      BY <2>2, AwayIs DEF Away
    <3> QED
      BY <1>1, <3>1
  <2> QED
    BY <1>6, <2>1, <2>2 DEF ScanPassphraseBack
<1>7. CASE KeepSeed \/ DiscardAnswered
  <2>1. Away
    BY <1>7, AwayIs DEF KeepSeed, DiscardAnswered, DiscardSeed, Fail, Away
  <2> QED
    BY <1>1, <2>1
<1> QED
  BY <1>1, <1>2, <1>3, <1>4, <1>5, <1>6, <1>7

LEMMA FindsNext ==
    ASSUME SeedInv, SeedInv', FirstFrom, EntryFinds, [Next]_vars
    PROVE  FirstFrom' /\ EntryFinds'
<1>1. CASE UNCHANGED vars
  BY <1>1 DEF vars, screen, words, FirstFrom, From, EntryFinds, IsEntry
<1>2. CASE Wipe
  BY <1>2, EmptyFrom DEF Wipe, Nav!Forget, words, EntryFinds, IsEntry
<1>3. CASE Answer
  BY <1>3, MenusFind, WordsFind, CalcFinds, SeedsFind, Zenon DEF Answer
<1> QED
  BY <1>1, <1>2, <1>3 DEF Next

LEMMA FindsAlways == Spec => [](FirstFrom /\ EntryFinds)
<1>1. Init => FirstFrom /\ EntryFinds
  <2> SUFFICES ASSUME Init PROVE FirstFrom /\ EntryFinds
    OBVIOUS
  <2>1. cur = Home /\ hist = << >>
    BY DEF Init, Nav!Init
  <2> QED
    BY <2>1, AwayIs DEF FirstFrom, EntryFinds
<1>2. SeedInv /\ SeedInv' /\ (FirstFrom /\ EntryFinds) /\ [Next]_vars => (FirstFrom /\ EntryFinds)'
  BY FindsNext
<1> QED
  BY <1>1, <1>2, SeedAlways, PTL DEF Spec

(* Every word before the one that is being entered is there, whichever way   *)
(* back, edited or started over; only a second Review & edit comes up with  *)
(* no mnemonic (update_pending_mnemonic raises on the index then), and the  *)
(* view that converts a calculated mnemonic is only reached with all of its *)
(* words, the checked last one included.                                    *)
THEOREM EntrySound == Spec => []EntryIsSound
<1>1. SeedInv /\ EntryFinds => EntryIsSound
  <2> SUFFICES ASSUME SeedInv, EntryFinds PROVE EntryIsSound
    OBVIOUS
  <2>1. DoneWordsValid
    BY DEF SeedInv, WordsReady
  <2>2. ASSUME IsEntry(cur)
        PROVE  /\ \A j \in 1..cur.word : j \in DOMAIN mnemonic /\ mnemonic[j] # NoWord
               /\ cur.word < Len(mnemonic) \/ (cur = EditWords /\ mnemonic = << >>)
    <3>1. cur.word \in 0..(NumWords - 1) /\ mnemonic \in Seq({NoWord, Typed, Checked})
          /\ Len(mnemonic) \in {0, NumWords}
      BY InvFacts, ByView DEF WordsTyped
    <3>2. CASE mnemonic = << >>
      <4>1. cur = EditWords /\ cur.word = 0
        BY <2>2, <3>2, ViewOf DEF EntryFinds
      <4> QED
        BY <3>2, <4>1
    <3>3. CASE mnemonic # << >>
      <4>1. Len(mnemonic) = NumWords
        BY <3>1, <3>3, EmptySeq
      <4>2. Filled(mnemonic, cur.word)
        BY <2>2, <3>3 DEF SeedInv, WordsReady, Ready
      <4> QED
        BY <3>1, <4>1, <4>2, SeedFlowAssumption DEF Filled
    <3> QED
      BY <3>2, <3>3
  <2> QED
    BY <2>1, <2>2 DEF EntryIsSound, WordsFit, IsEntry
<1> QED
  BY <1>1, SeedAlways, FindsAlways, PTL

(* A pending seed is never left behind by a workflow that was abandoned,    *)
(* and until an auto-wipe takes it away no view of the passphrase workflow  *)
(* finds None where SeedStorage.pending_seed should be.                     *)
THEOREM PendingStaysInFlow == Spec => []PendingInFlow
<1>1. SeedInv => PendingInFlow
  BY DEF SeedInv, PendingReady, PendingInFlow, Needed
<1> QED
  BY <1>1, SeedAlways, PTL

(* Every Seed in SeedStorage.seeds can be used: no path through the          *)
(* passphrase screens stores an Aezeed that is still locked, and no Seed    *)
(* that an auto-wipe emptied under a waiting view gets back into the list.  *)
(* The None that such a view may store after a wipe is not a Seed: the      *)
(* theorem says of it only that no wipe, no None.                          *)
THEOREM StoredUsable == Spec => []StoredSeedsUsable
<1>1. SeedInv => StoredSeedsUsable
  BY DEF SeedInv
<1> QED
  BY <1>1, SeedAlways, PTL
=============================================================================
