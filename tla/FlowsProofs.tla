----------------------------- MODULE FlowsProofs -----------------------------
(***************************************************************************)
(* Workflows of the device, for any sizes of what they work on.            *)
(*                                                                         *)
(* The search for an address: the bound on what it says when it has found  *)
(* nothing is not inductive.  A skip between the comparison of an address  *)
(* and its being counted moves the counter away from under the index.  The *)
(* addresses that are passed over are nevertheless as many as were         *)
(* skipped, because the thread then counts one more of them as tried than  *)
(* it compared, and compared one that the skip had counted.                *)
(*                                                                         *)
(* Shares: words that are begun anew must not be continued in the middle,  *)
(* where a step back, a retry or an error may lead.  The invariant says of  *)
(* the whole history that the view of the first word lies below that of any *)
(* other, so that beginning anew, which cuts the history at the first word, *)
(* leaves no view of a word behind.                                        *)
(*                                                                         *)
(* Messages: one that waits for a key can be taken back before the key is  *)
(* loaded, and the Controller goes on waiting.  That it is still the right *)
(* one which is read when a key has been loaded rests again on the         *)
(* history: the views that load keys lie above the message they are for,   *)
(* so that who has gone back to it has left them.                          *)
(*                                                                         *)
(* Workflows that need a seed: what was confirmed or chosen is looked at   *)
(* when a later view acts on it, and any view between the two could change *)
(* it.  The views that may not are on top of the history, with none but    *)
(* each other above them, so that only they can lead back to themselves.   *)
(*                                                                         *)
(* Decryption: a scan stores a code as soon as it looks encrypted, also    *)
(* when it leads elsewhere, so that one may be stored that nobody agreed   *)
(* to decrypt.  It is out of reach then: a scanner is at the bottom of the *)
(* history, with no view that asks for a key below it.                     *)
(*                                                                         *)
(* Keys that are rebuilt: the three views number a subkey on their own.    *)
(* The invariant is how each one on record was derived, t of a set that     *)
(* was begun at some length of the list; that the numbers agree for the     *)
(* ones of whole sets at index 0, and for no others, is arithmetic.  It     *)
(* needs the length to be a number, so the subkeys in the keyring a list,   *)
(* and those on record finitely many, which are put in order to list them.  *)
(***************************************************************************)
EXTENDS AddressSearch, GpgMessages, GpgKeys, Slip39Flow, Workflows, ScanFlow, FiniteSetTheorems, SequenceTheorems, TLAPS

-----------------------------------------------------------------------------
(* The search for an address *)

SearchAssumption == SkipStep \in Nat

\* The addresses before n that were not compared.
Missing(n) == 0..(n - 1) \ tried

Numbers == counter \in Nat /\ i \in Nat /\ skips \in Nat

\* What was compared lies before the counter, or before the index.
TriedBefore ==
    /\ worker = "take" => tried \subseteq 0..(counter - 1)
    /\ worker = "compare" => i <= counter /\ tried \subseteq 0..(i - 1)
    /\ worker = "count" => i <= counter /\ i \in tried /\ tried \subseteq 0..i

\* No more are missing than were skipped, also when the address compared last
\* comes to be counted.
FewMissing ==
    /\ Cardinality(Missing(counter)) <= SkipStep * skips
    /\ worker = "count" => Cardinality(Missing(counter + 1)) <= SkipStep * skips

AnswerIsNumber == answer.kind = "not found" => answer.index \in Nat

SearchInv == Numbers /\ TriedBefore /\ FewMissing /\ AnswerIsNumber /\ NoneMissed

-----------------------------------------------------------------------------
(* The addresses before n that are not in a set T *)
LEMMA BeforeIsFinite ==
    ASSUME NEW n \in Nat, NEW T
    PROVE  IsFiniteSet(0..(n - 1) \ T) /\ Cardinality(0..(n - 1) \ T) \in Nat
<1>1. IsFiniteSet(0..(n - 1))
  BY FS_Interval
<1>2. IsFiniteSet(0..(n - 1) \ T)
  BY <1>1, FS_Difference
<1> QED
  BY <1>2, FS_CardinalityType

LEMMA MoreTriedFewerMissing ==
    ASSUME NEW n \in Nat, NEW T, NEW U, T \subseteq U
    PROVE  Cardinality(0..(n - 1) \ U) <= Cardinality(0..(n - 1) \ T)
<1>1. (0..(n - 1) \ U) \in SUBSET (0..(n - 1) \ T)
  OBVIOUS
<1> QED
  BY <1>1, BeforeIsFinite, FS_Subset

(* s addresses further, at most s more are missing.                         *)
LEMMA FurtherMissing ==
    ASSUME NEW n \in Nat, NEW s \in Nat, NEW T
    PROVE  Cardinality(0..((n + s) - 1) \ T) <= Cardinality(0..(n - 1) \ T) + s
<1> DEFINE A == 0..(n - 1) \ T
           B == n..((n + s) - 1)
<1>1. IsFiniteSet(A) /\ Cardinality(A) \in Nat
  BY BeforeIsFinite
<1>2. IsFiniteSet(B) /\ Cardinality(B) = s
  BY FS_Interval
<1>3. IsFiniteSet(A \cup B) /\ Cardinality(A \cup B) <= Cardinality(A) + s
  <2>1. Cardinality(A \cap B) \in Nat
    BY <1>1, FS_Intersection, FS_CardinalityType
  <2>2. IsFiniteSet(A \cup B) /\ Cardinality(A \cup B) = Cardinality(A) + Cardinality(B) - Cardinality(A \cap B)
    BY <1>1, <1>2, FS_Union
  <2> QED
    BY <1>1, <1>2, <2>1, <2>2
<1>4. (0..((n + s) - 1) \ T) \in SUBSET (A \cup B)
  OBVIOUS
<1>5. Cardinality(0..((n + s) - 1) \ T) <= Cardinality(A \cup B) /\ Cardinality(A \cup B) \in Nat
  BY <1>3, <1>4, FS_Subset, FS_CardinalityType
<1>6. n + s \in Nat
  OBVIOUS
<1>7. Cardinality(0..((n + s) - 1) \ T) \in Nat
  BY <1>6, BeforeIsFinite
<1> QED
  BY <1>1, <1>3, <1>5, <1>7

(* An address that is compared makes up for the one that is counted.        *)
LEMMA OneForOne ==
    ASSUME NEW n \in Nat, NEW k \in 0..n, NEW T, k \notin T
    PROVE  Cardinality(0..((n + 1) - 1) \ (T \cup {k})) <= Cardinality(0..(n - 1) \ T)
<1> DEFINE A == 0..((n + 1) - 1) \ T
<1>1. n + 1 \in Nat
  OBVIOUS
<1>2. IsFiniteSet(A) /\ Cardinality(A) \in Nat
  BY <1>1, BeforeIsFinite
<1>3. Cardinality(A) <= Cardinality(0..(n - 1) \ T) + 1
  BY FurtherMissing
<1>4. Cardinality(A \ {k}) = Cardinality(A) - 1
  <2>1. k \in A
    OBVIOUS
  <2> QED
    BY <1>2, <2>1, FS_RemoveElement
<1>5. 0..((n + 1) - 1) \ (T \cup {k}) = A \ {k}
  <2>1. \A R : R \ (T \cup {k}) = (R \ T) \ {k}
    OBVIOUS
  <2> QED
    BY <2>1
<1>6. Cardinality(0..(n - 1) \ T) \in Nat
  BY BeforeIsFinite
<1>7. Cardinality(A \ {k}) <= Cardinality(0..(n - 1) \ T)
  <2>1. ASSUME NEW a \in Nat, NEW b \in Nat, a <= b + 1 PROVE a - 1 <= b
    BY <2>1
  <2> HIDE DEF A
  <2> QED
    BY <1>2, <1>3, <1>4, <1>6, <2>1
<1> HIDE DEF A
<1> QED
  BY <1>5, <1>7

LEMMA MoreSkips ==
    ASSUME NEW s \in Nat, NEW a \in Nat, NEW b \in Nat, a <= b
    PROVE  s * a <= s * b /\ s * a \in Nat /\ s * b \in Nat
<1>1. PICK d \in Nat : b = a + d
  <2>1. b - a \in Nat /\ b = a + (b - a)
    OBVIOUS
  <2> QED
    BY <2>1
<1>2. s * (a + d) = s * a + s * d /\ s * a \in Nat /\ s * d \in Nat
  OBVIOUS
<1> QED
  BY <1>1, <1>2

-----------------------------------------------------------------------------
LEMMA InitSearch == ASSUME SearchAssumption, SearchInit PROVE SearchInv
<1>1. Numbers /\ TriedBefore /\ AnswerIsNumber /\ NoneMissed
  BY DEF SearchInit, Numbers, TriedBefore, AnswerIsNumber, NoneMissed, NoAnswer
<1>2. FewMissing
  <2>1. Missing(counter) = {} /\ worker # "count"
    BY DEF SearchInit, Missing
  <2> QED
    BY <2>1, FS_EmptySet DEF FewMissing, SearchAssumption, SearchInit
<1> QED
  BY <1>1, <1>2 DEF SearchInv

(* An answer stays right: what was compared stays compared, and the skips   *)
(* are never fewer.                                                        *)
LEMMA AnswerStays ==
    ASSUME SearchAssumption, SearchInv, UNCHANGED answer,
           skips' \in Nat, skips <= skips', tried \subseteq tried'
    PROVE  AnswerIsNumber' /\ NoneMissed'
<1>1. AnswerIsNumber'
  BY DEF SearchInv, AnswerIsNumber
<1>2. SUFFICES ASSUME answer.kind = "not found"
               PROVE  Cardinality(0..(answer.index - 1) \ tried') <= SkipStep * skips'
  BY <1>1 DEF NoneMissed
<1>3. answer.index \in Nat /\ Cardinality(0..(answer.index - 1) \ tried) <= SkipStep * skips
  BY <1>2 DEF SearchInv, AnswerIsNumber, NoneMissed
<1>4. Cardinality(0..(answer.index - 1) \ tried') <= Cardinality(0..(answer.index - 1) \ tried)
  BY <1>3, MoreTriedFewerMissing
<1>5. /\ Cardinality(0..(answer.index - 1) \ tried') \in Nat
      /\ Cardinality(0..(answer.index - 1) \ tried) \in Nat
  BY <1>3, BeforeIsFinite
<1>6. SkipStep * skips <= SkipStep * skips' /\ SkipStep * skips \in Nat /\ SkipStep * skips' \in Nat
  BY MoreSkips DEF SearchAssumption, SearchInv, Numbers
<1> QED
  BY <1>1, <1>3, <1>4, <1>5, <1>6

LEMMA TakeKeeps == ASSUME SearchAssumption, SearchInv, Take PROVE SearchInv'
<1> USE DEF SearchInv
<1>1. UNCHANGED <<counter, tried, skips, answer>> /\ worker' \in {"compare", "ended"}
  BY DEF Take, WorkerVars
<1>2. Numbers'
  BY <1>1 DEF Take, Numbers
<1>3. TriedBefore'
  BY <1>1 DEF Take, Numbers, TriedBefore
<1>4. FewMissing'
  BY <1>1 DEF FewMissing, Missing
<1> QED
  BY <1>1, <1>2, <1>3, <1>4, AnswerStays DEF Numbers

LEMMA CompareKeeps == ASSUME SearchAssumption, SearchInv, Compare PROVE SearchInv'
<1> USE DEF SearchInv
<1>1. /\ UNCHANGED <<counter, i, skips, answer>> /\ worker' \in {"found", "count", "ended"}
      /\ tried' = tried \cup {i} /\ worker = "compare"
  BY DEF Compare, WorkerVars
<1>2. i \in 0..counter /\ tried \subseteq 0..(i - 1) /\ i \notin tried
  BY <1>1 DEF TriedBefore, Numbers
<1>3. Numbers' /\ TriedBefore'
  BY <1>1, <1>2 DEF Numbers, TriedBefore
<1>4. FewMissing'
  <2> DEFINE K == SkipStep * skips
  <2>1. K \in Nat /\ Cardinality(Missing(counter)) <= K
    BY DEF FewMissing, SearchAssumption, Numbers
  <2>2. Cardinality(0..(counter - 1) \ (tried \cup {i})) <= Cardinality(Missing(counter))
    BY MoreTriedFewerMissing DEF Missing, Numbers
  <2>3. Cardinality(0..((counter + 1) - 1) \ (tried \cup {i})) <= Cardinality(Missing(counter))
    BY <1>2, OneForOne DEF Missing, Numbers
  <2>4. /\ Cardinality(Missing(counter)) \in Nat
        /\ Cardinality(0..(counter - 1) \ (tried \cup {i})) \in Nat
        /\ Cardinality(0..((counter + 1) - 1) \ (tried \cup {i})) \in Nat
    <3>1. counter + 1 \in Nat /\ counter \in Nat
      BY DEF Numbers
    <3> QED
      BY <3>1, BeforeIsFinite DEF Missing
  <2>5. /\ Cardinality(0..(counter - 1) \ (tried \cup {i})) <= K
        /\ Cardinality(0..((counter + 1) - 1) \ (tried \cup {i})) <= K
    BY <2>1, <2>2, <2>3, <2>4
  <2> QED
    BY <1>1, <2>5 DEF FewMissing, Missing
<1> QED
  BY <1>1, <1>3, <1>4, AnswerStays DEF Numbers

LEMMA CountKeeps == ASSUME SearchAssumption, SearchInv, Count PROVE SearchInv'
<1> USE DEF SearchInv
<1>1. /\ UNCHANGED <<i, tried, skips, answer>> /\ worker = "count" /\ worker' = "take"
      /\ counter' = counter + 1
  BY DEF Count, WorkerVars
<1>2. Numbers' /\ TriedBefore'
  BY <1>1 DEF Numbers, TriedBefore
<1>3. FewMissing'
  BY <1>1 DEF FewMissing, Missing
<1> QED
  BY <1>1, <1>2, <1>3, AnswerStays DEF Numbers

LEMMA SkipKeeps == ASSUME SearchAssumption, SearchInv, Skip PROVE SearchInv'
<1> USE DEF SearchInv
<1>1. UNCHANGED <<i, worker, tried, answer>>
  BY DEF Skip
<1>2. CASE UNCHANGED <<counter, skips>>
  <2>1. Numbers' /\ TriedBefore' /\ FewMissing'
    BY <1>1, <1>2 DEF Numbers, TriedBefore, FewMissing, Missing
  <2> QED
    BY <1>1, <1>2, <2>1, AnswerStays DEF Numbers
<1>3. CASE counter' = counter + SkipStep /\ skips' = skips + 1
  <2>1. Numbers' /\ TriedBefore'
    BY <1>1, <1>3 DEF Numbers, TriedBefore, SearchAssumption
  <2>2. SkipStep * skips' = SkipStep * skips + SkipStep /\ SkipStep * skips \in Nat
    BY <1>3 DEF Numbers, SearchAssumption
  <2>3. ASSUME NEW n \in Nat, Cardinality(0..(n - 1) \ tried) <= SkipStep * skips
        PROVE  Cardinality(0..((n + SkipStep) - 1) \ tried) <= SkipStep * skips'
    <3>1. Cardinality(0..((n + SkipStep) - 1) \ tried) <= Cardinality(0..(n - 1) \ tried) + SkipStep
      BY FurtherMissing DEF SearchAssumption
    <3>2. n + SkipStep \in Nat
      BY DEF SearchAssumption
    <3>3. /\ Cardinality(0..(n - 1) \ tried) \in Nat
          /\ Cardinality(0..((n + SkipStep) - 1) \ tried) \in Nat
      BY <3>2, BeforeIsFinite
    <3> QED
      BY <2>2, <2>3, <3>1, <3>3 DEF SearchAssumption
  <2>4. FewMissing'
    <3>1. Cardinality(0..((counter + SkipStep) - 1) \ tried) <= SkipStep * skips'
      BY <2>3 DEF FewMissing, Missing, Numbers
    <3>2. ASSUME worker = "count"
          PROVE  Cardinality(0..(((counter + 1) + SkipStep) - 1) \ tried) <= SkipStep * skips'
      <4>1. counter + 1 \in Nat /\ Cardinality(0..((counter + 1) - 1) \ tried) <= SkipStep * skips
        BY <3>2 DEF FewMissing, Missing, Numbers
      <4> QED
        BY <2>3, <4>1
    <3>3. (counter + 1) + SkipStep = counter' + 1
      BY <1>3 DEF Numbers, SearchAssumption
    <3> QED
      BY <1>1, <1>3, <3>1, <3>2, <3>3 DEF FewMissing, Missing
  <2> QED
    BY <1>1, <1>3, <2>1, <2>4, AnswerStays DEF Numbers
<1> QED
  BY <1>2, <1>3 DEF Skip

LEMMA DecideKeeps == ASSUME SearchAssumption, SearchInv, Decide PROVE SearchInv'
<1> USE DEF SearchInv
<1>1. UNCHANGED <<counter, i, worker, tried, skips>>
  BY DEF Decide, ViewVars
<1>2. Numbers' /\ TriedBefore' /\ FewMissing'
  BY <1>1 DEF Numbers, TriedBefore, FewMissing, Missing
<1>3. CASE UNCHANGED answer
  BY <1>1, <1>2, <1>3, AnswerStays DEF Numbers
<1>4. CASE answer' = Answer("not found", counter)
  <2>1. answer'.kind = "not found" /\ answer'.index = counter
    BY <1>4 DEF Answer, NoAnswer
  <2> QED
    BY <1>1, <1>2, <2>1 DEF AnswerIsNumber, NoneMissed, FewMissing, Missing, Numbers
<1>5. CASE answer' = Answer("home", 0)
  <2>1. answer'.kind # "not found"
    BY <1>5 DEF Answer, NoAnswer
  <2> QED
    BY <1>2, <2>1 DEF AnswerIsNumber, NoneMissed
<1> QED
  BY <1>3, <1>4, <1>5 DEF Decide

LEMMA ReportKeeps == ASSUME SearchAssumption, SearchInv, Report PROVE SearchInv'
<1> USE DEF SearchInv
<1>1. UNCHANGED <<counter, i, worker, tried, skips>> /\ answer'.kind # "not found"
  BY DEF Report, ViewVars, Answer, NoAnswer
<1> QED
  BY <1>1 DEF Numbers, TriedBefore, FewMissing, Missing, AnswerIsNumber, NoneMissed

LEMMA OthersKeep ==
    ASSUME SearchAssumption, SearchInv, Found \/ Screen \/ Stop \/ UNCHANGED searchVars
    PROVE  SearchInv'
<1> USE DEF SearchInv
<1>1. /\ UNCHANGED <<counter, i, tried, skips, answer>>
      /\ worker' = worker \/ worker' = "ended"
  BY DEF Found, Screen, Stop, ViewVars, searchVars
<1>2. Numbers' /\ TriedBefore' /\ FewMissing'
  BY <1>1 DEF Numbers, TriedBefore, FewMissing, Missing
<1> QED
  BY <1>1, <1>2, AnswerStays DEF Numbers

LEMMA NextSearch == ASSUME SearchAssumption, SearchInv, [SearchNext]_searchVars PROVE SearchInv'
BY TakeKeeps, CompareKeeps, CountKeeps, SkipKeeps, DecideKeeps, ReportKeeps, OthersKeep DEF SearchNext

(* SeedAddressVerificationView says "not found" up to an index before which *)
(* the thread has compared every address but for SkipStep for each skip,   *)
(* although counter, index and skips are shared without a lock.             *)
THEOREM NotFoundIsTrue == SearchAssumption => (SearchSpec => []NoneMissed)
<1> SUFFICES ASSUME SearchAssumption PROVE SearchSpec => []NoneMissed
  OBVIOUS
<1>1. SearchInit => SearchInv
  BY InitSearch
<1>2. SearchInv /\ [SearchNext]_searchVars => SearchInv'
  BY NextSearch
<1>3. SearchInv => NoneMissed
  BY DEF SearchInv
<1> QED
  BY <1>1, <1>2, <1>3, PTL DEF SearchSpec

-----------------------------------------------------------------------------
(* The shares of a SLIP-39 backup *)

\* Whatever word's view is in the history, the first word's lies below it.
EntryStarts ==
    \A k \in DOMAIN shareHist : shareHist[k].view = "SeedSlip39ShareEntryView" =>
        \E j \in 1..k : shareHist[j] = Entry(0)

ShareHistory ==
    /\ ShareNav!TypeOK /\ ShareNav!EndsWithCurrent /\ ShareNav!NoRepeats
    /\ shareHist = <<>> => shareCur = ShareHome
    /\ EntryStarts

SharesInv == ShareHistory /\ SharesTypeOK /\ EntryContinues

\* ContinuesShare, of any words.
Continues(sh, d) ==
    d.view = "SeedSlip39ShareEntryView" =>
        d.word < Len(sh) /\ \A ix \in 1..d.word : sh[ix] = Typed

ShareLaws == INSTANCE NavigationProofs WITH
    Views <- ShareViews, MainMenu <- ShareHome, StartupViews <- {}, cur <- shareCur, hist <- shareHist

LEMMA ShareNavHasLaws ==
    /\ \A d, skip, clear : ShareNav!Visit(d, skip, clear) => ShareLaws!Visit(d, skip, clear)
    /\ \A skip : ShareNav!GoBack(skip) => ShareLaws!GoBack(skip)
    /\ \A skip : ShareLaws!Below(skip) = Previous(skip)
<1>1. /\ \A d, skip, clear : ShareNav!Visit(d, skip, clear) => ShareLaws!Visit(d, skip, clear)
      /\ \A skip : ShareNav!GoBack(skip) => ShareLaws!GoBack(skip)
  BY DEF ShareNav!Visit, ShareNav!GoBack, ShareNav!Enter, ShareNav!Unwound, ShareNav!Occurs, ShareNav!FirstIndex, ShareNav!WithoutLast,
         ShareLaws!Visit, ShareLaws!GoBack, ShareLaws!Enter, ShareLaws!Unwound, ShareLaws!Occurs, ShareLaws!FirstIndex, ShareLaws!WithoutLast
<1>2. \A skip : ShareLaws!Below(skip) = Previous(skip)
  BY DEF ShareLaws!Below, Previous
<1> QED
  BY <1>1, <1>2

LEMMA ShareViewOf ==
    /\ \A v : SharePlain(v).view = v
    /\ \A k : Entry(k).view = "SeedSlip39ShareEntryView" /\ Entry(k).word = k
    /\ \A n, b : /\ ShareInvalid(n, b).view = "SeedSlip39ShareInvalidView"
                 /\ ShareInvalid(n, b).length = n /\ ShareInvalid(n, b).scan = b
<1>1. \A v : SharePlain(v).view = v
  BY DEF SharePlain
<1>2. \A k : Entry(k).view = "SeedSlip39ShareEntryView" /\ Entry(k).word = k
  BY DEF SharePlain, Entry
<1>3. \A n, b : /\ ShareInvalid(n, b).view = "SeedSlip39ShareInvalidView"
               /\ ShareInvalid(n, b).length = n /\ ShareInvalid(n, b).scan = b
  BY DEF SharePlain, ShareInvalid
<1> QED
  BY <1>1, <1>2, <1>3

OtherShareViews == {ShareLoad, ShareError, Start, Scan, Card, MoreShares, ShareFinalize, ScannerError, UnknownCode}

LEMMA ShareViewsAre ==
    /\ ShareHome \notin ShareViews /\ OtherShareViews \subseteq ShareViews
    /\ \A d \in OtherShareViews \cup {ShareHome} :
         d.view # "SeedSlip39ShareEntryView" /\ d.view # "SeedSlip39ShareInvalidView"
    /\ \A n \in ShareLengths \cup {0}, b \in BOOLEAN :
         ShareInvalid(n, b) \in ShareViews /\ ShareInvalid(n, b).view # "SeedSlip39ShareEntryView"
<1> USE ShareViewOf
    DEF ShareHome, ShareLoad, ShareError, Start, Scan, Card, MoreShares, ShareFinalize, ScannerError, UnknownCode
<1>1. OtherShareViews \subseteq ShareViews
  BY DEF ShareViews, OtherShareViews
<1>2. \A n \in ShareLengths \cup {0}, b \in BOOLEAN : ShareInvalid(n, b) \in ShareViews
  BY DEF ShareViews
<1>3. ShareHome \notin ShareViews
  BY DEF ShareViews
<1>4. \A d \in OtherShareViews \cup {ShareHome} :
         d.view # "SeedSlip39ShareEntryView" /\ d.view # "SeedSlip39ShareInvalidView"
  BY DEF OtherShareViews
<1> QED
  BY <1>1, <1>2, <1>3, <1>4

LEMMA ShareArguments ==
    ASSUME NEW d \in ShareViews \cup {ShareHome}
    PROVE  /\ d.view = "SeedSlip39ShareEntryView" => d.word \in Nat /\ d = Entry(d.word)
           /\ d.view = "SeedSlip39ShareInvalidView" => d.length \in ShareLengths \cup {0}
<1>1. CASE d \in OtherShareViews \cup {ShareHome}
  BY <1>1, ShareViewsAre
<1>2. CASE \E k \in 0..(MaxLength - 1) : d = Entry(k)
  BY <1>2, ShareViewOf
<1>3. CASE \E n \in ShareLengths \cup {0}, b \in BOOLEAN : d = ShareInvalid(n, b)
  BY <1>3, ShareViewOf
<1> QED
  BY <1>1, <1>2, <1>3 DEF ShareViews, OtherShareViews

LEMMA LongestShare ==
    /\ MaxLength \in ShareLengths
    /\ \A n \in ShareLengths : n \in Nat \ {0} /\ n <= MaxLength
    /\ \A n \in ShareLengths : \A w \in 0..(n - 1) : Entry(w) \in ShareViews
<1>1. MaxLength \in ShareLengths /\ \A n \in ShareLengths : n <= MaxLength
  BY SharesAssumption DEF MaxLength
<1>2. MaxLength \in Nat /\ \A n \in ShareLengths : n \in Nat \ {0}
  BY <1>1, SharesAssumption
<1>3. ASSUME NEW n \in ShareLengths, NEW w \in 0..(n - 1)
      PROVE  Entry(w) \in ShareViews
  <2>1. w \in 0..(MaxLength - 1)
    BY <1>1, <1>2
  <2> QED
    BY <2>1 DEF ShareViews
<1> QED
  BY <1>1, <1>2, <1>3

LEMMA ShareHistoryFacts ==
    ASSUME ShareHistory
    PROVE  /\ ShareLaws!Tidy /\ Len(shareHist) \in Nat /\ DOMAIN shareHist = 1..Len(shareHist)
           /\ shareCur \in ShareViews \cup {ShareHome}
           /\ \A k \in 1..Len(shareHist) : shareHist[k] \in ShareViews
           /\ shareCur # ShareHome => Len(shareHist) >= 1 /\ shareHist[Len(shareHist)] = shareCur
<1>1. ShareLaws!Tidy
  BY DEF ShareHistory, ShareNav!TypeOK, ShareNav!NoRepeats, ShareLaws!Tidy, ShareLaws!Distinct
<1>2. /\ Len(shareHist) \in Nat /\ DOMAIN shareHist = 1..Len(shareHist)
      /\ \A k \in 1..Len(shareHist) : shareHist[k] \in ShareViews
      /\ Len(shareHist) = 0 => shareHist = << >>
  BY <1>1, EmptySeq DEF ShareLaws!Tidy
<1> QED
  BY <1>1, <1>2 DEF ShareHistory, ShareNav!TypeOK, ShareNav!EndsWithCurrent

(* The view on screen is the last one in the history, and no word's view    *)
(* comes before the first word's.                                          *)
LEMMA ShareLands ==
    ASSUME ShareHistory, NEW d \in ShareViews \cup {ShareHome}, NEW n \in 0..Len(shareHist), ShareLaws!Lands(d, n),
           \/ d.view # "SeedSlip39ShareEntryView" \/ d = Entry(0)
           \/ \E j \in 1..n : shareHist[j] = Entry(0)
    PROVE  ShareHistory' /\ shareCur' = d
<1>1. /\ ShareLaws!Tidy /\ Len(shareHist) \in Nat /\ DOMAIN shareHist = 1..Len(shareHist) /\ shareCur' = d
      /\ \A k \in 1..Len(shareHist) : shareHist[k] \in ShareViews
  BY ShareHistoryFacts DEF ShareLaws!Lands
<1>2. CASE d = ShareHome
  <2>1. shareHist' = << >> /\ shareHist' \in Seq(ShareViews) /\ DOMAIN shareHist' = {}
    BY <1>2 DEF ShareLaws!Lands
  <2> QED
    BY <1>1, <1>2, <2>1 DEF ShareHistory, ShareNav!TypeOK, ShareNav!EndsWithCurrent, ShareNav!NoRepeats, EntryStarts
<1>3. CASE d # ShareHome
  <2>1. /\ shareHist' \in Seq(ShareViews) /\ Len(shareHist') = n + 1 /\ DOMAIN shareHist' = 1..(n + 1)
        /\ \A ix \in 1..n : shareHist'[ix] = shareHist[ix] /\ shareHist[ix] # d
        /\ shareHist'[n + 1] = d
    BY <1>1, <1>3 DEF ShareLaws!Lands
  <2>2. \A k \in 1..(n + 1) : k \in 1..n \/ k = n + 1
    BY <1>1
  <2>3. \A ix, j \in DOMAIN shareHist' : shareHist'[ix] = shareHist'[j] => ix = j
    BY <1>1, <2>1, <2>2 DEF ShareHistory, ShareNav!NoRepeats
  <2>4. ASSUME NEW k \in DOMAIN shareHist', shareHist'[k].view = "SeedSlip39ShareEntryView"
        PROVE  \E j \in 1..k : shareHist'[j] = Entry(0)
    <3>1. CASE k \in 1..n
      <4>1. PICK j \in 1..k : shareHist[j] = Entry(0)
        BY <1>1, <2>1, <2>4, <3>1 DEF ShareHistory, EntryStarts
      <4>2. j \in 1..n
        BY <1>1, <3>1
      <4> QED
        BY <2>1, <4>1, <4>2
    <3>2. CASE k = n + 1
      <4>1. CASE d = Entry(0)
        <5>1. k \in 1..k
          BY <3>2
        <5> QED
          BY <2>1, <3>2, <4>1, <5>1
      <4>2. CASE \E j \in 1..n : shareHist[j] = Entry(0)
        <5>1. PICK j \in 1..n : shareHist[j] = Entry(0)
          BY <4>2
        <5>2. j \in 1..k
          BY <3>2
        <5> QED
          BY <2>1, <5>1, <5>2
      <4> QED
        BY <2>1, <2>4, <3>2, <4>1, <4>2
    <3> QED
      BY <2>1, <2>2, <3>1, <3>2
  <2>5. d \in ShareViews
    BY <1>3
  <2>6. shareHist' # << >> /\ shareHist'[Len(shareHist')] = shareCur'
    BY <1>1, <2>1
  <2> QED
    BY <1>1, <2>1, <2>3, <2>4, <2>5, <2>6
    DEF ShareHistory, ShareNav!TypeOK, ShareNav!EndsWithCurrent, ShareNav!NoRepeats, EntryStarts
<1> QED
  BY <1>2, <1>3

(* Before the first word's view there is no word's view.                    *)
LEMMA NoneBeforeTheFirst ==
    ASSUME ShareHistory, NEW n \in 0..Len(shareHist), \A ix \in 1..n : shareHist[ix] # Entry(0)
    PROVE  \A ix \in 1..n : shareHist[ix].view # "SeedSlip39ShareEntryView"
<1> SUFFICES ASSUME NEW ix \in 1..n, shareHist[ix].view = "SeedSlip39ShareEntryView"
             PROVE  FALSE
  OBVIOUS
<1>1. Len(shareHist) \in Nat /\ ix \in DOMAIN shareHist
  BY ShareHistoryFacts
<1>2. PICK j \in 1..ix : shareHist[j] = Entry(0)
  BY <1>1 DEF ShareHistory, EntryStarts
<1>3. j \in 1..n
  BY <1>1
<1> QED
  BY <1>2, <1>3

-----------------------------------------------------------------------------
\* What is kept of the shares.
Keepable(sh, shs, n, f) ==
    /\ sh \in Seq({NoWord, Typed}) /\ Len(sh) \in ShareLengths \cup {0}
    /\ shs \in Seq(Shares) /\ n \in ShareLengths \cup {0} /\ f \in Shares \cup {NoShare}

LEMMA Kept ==
    /\ Keepable(<< >>, << >>, 0, NoShare)
    /\ SharesInv => /\ ShareHistory /\ Keepable(share, shares, length, first) /\ Len(shares) \in Nat
                    /\ \A n \in ShareLengths \cup {0} :
                         /\ Keepable(share, shares, n, first) /\ Keepable(<< >>, shares, n, first)
                         /\ \A s \in Shares : /\ Keepable(share, Append(shares, s), n, FirstShare(s))
                                              /\ Keepable(<< >>, Append(shares, s), n, FirstShare(s))
    /\ \A n \in ShareLengths \cup {0} : Blank(n) \in Seq({NoWord, Typed}) /\ Len(Blank(n)) = n
    /\ InitShare(0) \in {length, DefaultLength} /\ DefaultLength \in ShareLengths
<1>1. /\ << >> \in Seq({NoWord, Typed}) /\ Len(<< >>) = 0 /\ << >> \in Seq(Shares)
  OBVIOUS
<1>2. ASSUME SharesInv, NEW s \in Shares PROVE Append(shares, s) \in Seq(Shares) /\ FirstShare(s) \in Shares \cup {NoShare}
  BY <1>2 DEF SharesInv, SharesTypeOK, FirstShare
<1>3. ASSUME NEW n \in ShareLengths \cup {0} PROVE Blank(n) \in Seq({NoWord, Typed}) /\ Len(Blank(n)) = n
  <2>1. n \in Nat
    BY SharesAssumption
  <2>2. Blank(n) \in [1..n -> {NoWord, Typed}]
    BY DEF Blank
  <2> QED
    BY <2>1, <2>2
<1>4. InitShare(0) \in {length, DefaultLength} /\ DefaultLength \in ShareLengths
  BY SharesAssumption DEF InitShare
<1> QED
  BY <1>1, <1>2, <1>3, <1>4 DEF SharesInv, SharesTypeOK, Keepable

(* A step that leads to d keeps the words if they are those of every view   *)
(* that is left in the history.                                            *)
LEMMA SharesLand ==
    ASSUME SharesInv, NEW d \in ShareViews \cup {ShareHome}, NEW n \in 0..Len(shareHist), ShareLaws!Lands(d, n),
           \/ d.view # "SeedSlip39ShareEntryView" \/ d = Entry(0)
           \/ \E j \in 1..n : shareHist[j] = Entry(0),
           NEW sh, NEW shs, NEW m, NEW f, Keepable(sh, shs, m, f), UNCHANGED scannerAvailable,
           Keeps(sh, shs, m, f) \/ Arrive(d, sh, shs, m, f),
           sh # << >> => Continues(sh, d) /\ \A k \in 1..n : Continues(sh, shareHist[k])
    PROVE  SharesInv'
<1>1. ShareHistory' /\ shareCur' = d
  BY ShareLands DEF SharesInv
<1>2. Keeps(<< >>, << >>, 0, NoShare) \/ Keeps(sh, shs, m, f)
  BY DEF Arrive
<1>3. Keepable(share', shares', length', first')
  BY <1>2, Kept DEF Keeps
<1>4. EntryContinues'
  <2> SUFFICES ASSUME share' # << >>, NEW k \in DOMAIN shareHist'
               PROVE  Continues(share', shareHist'[k])
    BY DEF EntryContinues, ContinuesShare, Continues
  <2>1. share' = sh /\ sh # << >>
    BY <1>2 DEF Keeps
  <2>2. n \in Nat /\ d # ShareHome /\ DOMAIN shareHist' = 1..(n + 1)
        /\ (\A ix \in 1..n : shareHist'[ix] = shareHist[ix]) /\ shareHist'[n + 1] = d
    <3>1. Len(shareHist) \in Nat
      BY ShareHistoryFacts DEF SharesInv
    <3> QED
      BY <3>1 DEF ShareLaws!Lands
  <2>3. k \in 1..n \/ k = n + 1
    BY <2>2
  <2> QED
    BY <2>1, <2>2, <2>3
<1> QED
  BY <1>1, <1>3, <1>4 DEF SharesInv, SharesTypeOK, ShareHistory, Keepable

(* The words that are held continue in whatever part of the history is left. *)
LEMMA SameWords ==
    ASSUME SharesInv, NEW n \in 0..Len(shareHist), share # << >>
    PROVE  \A k \in 1..n : Continues(share, shareHist[k])
<1>1. \A k \in 1..n : k \in DOMAIN shareHist
  BY ShareHistoryFacts DEF SharesInv
<1> QED
  BY <1>1 DEF SharesInv, EntryContinues, ContinuesShare, Continues

(* To another view, with the words that are held or none.                   *)
LEMMA SharesVisit ==
    ASSUME SharesInv, NEW d \in ShareViews \cup {ShareHome}, d.view # "SeedSlip39ShareEntryView",
           NEW skip \in BOOLEAN, NEW clear \in BOOLEAN, ShareNav!Visit(d, skip, clear),
           NEW sh \in {share, << >>}, NEW shs, NEW m, NEW f, Keepable(sh, shs, m, f), UNCHANGED scannerAvailable,
           Keeps(sh, shs, m, f) \/ Arrive(d, sh, shs, m, f)
    PROVE  SharesInv'
<1>1. ShareLaws!Tidy /\ Len(shareHist) \in Nat /\ ShareLaws!Visit(d, skip, clear)
  BY ShareHistoryFacts, ShareNavHasLaws DEF SharesInv
<1>2. \E n \in 0..Len(shareHist) : ShareLaws!Lands(d, n)
  <2>1. CASE clear
    <3>1. ShareLaws!Visit(d, skip, TRUE)
      BY <1>1, <2>1
    <3>2. ShareLaws!Lands(d, 0)
      BY <1>1, <3>1, ShareLaws!ClearLands
    <3>3. 0 \in 0..Len(shareHist)
      BY <1>1
    <3> QED
      BY <3>2, <3>3
  <2>2. CASE ~clear /\ skip
    <3>1. ShareLaws!Visit(d, TRUE, FALSE)
      BY <1>1, <2>2
    <3> QED
      BY <1>1, <3>1, ShareLaws!ForwardLands
  <2>3. CASE ~clear /\ ~skip
    <3>1. ShareLaws!Visit(d, FALSE, FALSE)
      BY <1>1, <2>3
    <3> QED
      BY <1>1, <3>1, ShareLaws!GotoLands
  <2> QED
    BY <2>1, <2>2, <2>3
<1>3. PICK n \in 0..Len(shareHist) : ShareLaws!Lands(d, n)
  BY <1>2
<1>4. sh # << >> => Continues(sh, d) /\ \A k \in 1..n : Continues(sh, shareHist[k])
  BY <1>3, SameWords DEF Continues
<1> QED
  BY <1>3, <1>4, SharesLand

LEMMA SharesBack ==
    ASSUME SharesInv, NEW skip \in BOOLEAN, ShareNav!GoBack(skip), ArriveSame(Previous(skip)), UNCHANGED scannerAvailable
    PROVE  SharesInv'
<1> DEFINE d == Previous(skip)
<1>1. ShareLaws!Tidy /\ Len(shareHist) \in Nat /\ DOMAIN shareHist = 1..Len(shareHist)
  BY ShareHistoryFacts DEF SharesInv
<1>2. ShareLaws!GoBack(skip) /\ ShareLaws!Below(skip) = d
  BY ShareNavHasLaws
<1> HIDE DEF d
<1>3. /\ d \in ShareViews \cup {ShareHome}
      /\ \E n \in 0..Len(shareHist) :
           ShareLaws!Lands(d, n) /\ (d = ShareHome \/ (n < Len(shareHist) /\ shareHist[n + 1] = d))
  BY <1>1, <1>2, ShareLaws!BackLands
<1>4. PICK n \in 0..Len(shareHist) :
         ShareLaws!Lands(d, n) /\ (d = ShareHome \/ (n < Len(shareHist) /\ shareHist[n + 1] = d))
  BY <1>3
<1>5. \/ d.view # "SeedSlip39ShareEntryView" \/ d = Entry(0)
      \/ \E j \in 1..n : shareHist[j] = Entry(0)
  <2> SUFFICES ASSUME d.view = "SeedSlip39ShareEntryView", d # Entry(0)
               PROVE  \E j \in 1..n : shareHist[j] = Entry(0)
    OBVIOUS
  <2>1. n + 1 \in DOMAIN shareHist /\ shareHist[n + 1] = d
    BY <1>1, <1>4, ShareViewsAre
  <2>2. PICK j \in 1..(n + 1) : shareHist[j] = Entry(0)
    BY <2>1 DEF SharesInv, ShareHistory, EntryStarts
  <2>3. j # n + 1
    BY <2>1, <2>2
  <2> QED
    BY <2>2, <2>3
<1>6. share # << >> => Continues(share, d) /\ \A k \in 1..n : Continues(share, shareHist[k])
  <2> SUFFICES ASSUME share # << >> PROVE Continues(share, d)
    BY SameWords
  <2>1. CASE d = ShareHome
    BY <2>1, ShareViewsAre DEF Continues
  <2>2. CASE n + 1 \in DOMAIN shareHist /\ shareHist[n + 1] = d
    BY <2>2 DEF SharesInv, EntryContinues, ContinuesShare, Continues
  <2> QED
    BY <1>1, <1>4, <2>1, <2>2
<1>7. Keepable(share, shares, length, first) /\ Arrive(d, share, shares, length, first)
  BY Kept DEF ArriveSame, d
<1> QED
  BY <1>3, <1>4, <1>5, <1>6, <1>7, SharesLand

(* Words that are begun anew are begun at the first, and no other view in   *)
(* the history is one of a word.                                           *)
LEMMA SharesAnew ==
    ASSUME SharesInv, NEW skip \in BOOLEAN, ShareNav!Visit(Entry(0), skip, FALSE),
           NEW n \in ShareLengths \cup {0}, Keeps(Blank(n), shares, n, first), UNCHANGED scannerAvailable
    PROVE  SharesInv'
<1>1. ShareLaws!Tidy /\ Len(shareHist) \in Nat /\ ShareLaws!Visit(Entry(0), skip, FALSE)
  BY ShareHistoryFacts, ShareNavHasLaws DEF SharesInv
<1>2. Entry(0) \in ShareViews
  BY LongestShare, SharesAssumption
<1>3. PICK m \in 0..Len(shareHist) : ShareLaws!Lands(Entry(0), m)
  <2>1. CASE skip
    <3>1. ShareLaws!Visit(Entry(0), TRUE, FALSE)
      BY <1>1, <2>1
    <3> QED
      BY <1>1, <1>2, <3>1, ShareLaws!ForwardLands
  <2>2. CASE ~skip
    <3>1. ShareLaws!Visit(Entry(0), FALSE, FALSE)
      BY <1>1, <2>2
    <3> QED
      BY <1>1, <1>2, <3>1, ShareLaws!GotoLands
  <2> QED
    BY <2>1, <2>2
<1>4. \A ix \in 1..m : shareHist[ix] # Entry(0)
  <2>1. Entry(0) # ShareHome
    BY <1>2, ShareViewsAre
  <2> QED
    BY <1>3, <2>1 DEF ShareLaws!Lands
<1>5. \A ix \in 1..m : Continues(Blank(n), shareHist[ix])
  BY <1>3, <1>4, NoneBeforeTheFirst DEF SharesInv, Continues
<1>6. Blank(n) # << >> => Continues(Blank(n), Entry(0))
  <2> SUFFICES ASSUME Blank(n) # << >> PROVE Continues(Blank(n), Entry(0))
    OBVIOUS
  <2>1. Len(Blank(n)) = n /\ n \in Nat /\ (n = 0 => Blank(n) = << >>)
    BY Kept, SharesAssumption, EmptySeq
  <2>2. 0 < Len(Blank(n))
    BY <2>1
  <2> QED
    BY <2>2, ShareViewOf DEF Continues
<1>7. Keepable(Blank(n), shares, n, first)
  BY Kept DEF Keepable
<1> QED
  BY <1>2, <1>3, <1>5, <1>6, <1>7, SharesLand

LEMMA SharesFail == ASSUME SharesInv, ShareFail, UNCHANGED scannerAvailable PROVE SharesInv'
<1>1. ShareError \in ShareViews /\ ShareError.view # "SeedSlip39ShareEntryView"
  BY ShareViewsAre DEF OtherShareViews
<1> QED
  BY <1>1, Kept, SharesVisit DEF ShareFail, ArriveSame

LEMMA SharesGo ==
    ASSUME SharesInv, NEW d \in OtherShareViews, ShareGoto(d), UNCHANGED scannerAvailable PROVE SharesInv'
<1>1. d \in ShareViews /\ d.view # "SeedSlip39ShareEntryView"
  BY ShareViewsAre
<1> QED
  BY <1>1, Kept, SharesVisit DEF ShareGoto, ArriveSame

(* One word more: those before it in the history are typed, it is itself,   *)
(* and the next one's view comes on top.                                   *)
LEMMA OneWordMore == ASSUME SharesInv, WordTyped, UNCHANGED scannerAvailable PROVE SharesInv'
<1> DEFINE w == shareCur.word
<1>1. /\ ShareLaws!Tidy /\ Len(shareHist) \in Nat /\ DOMAIN shareHist = 1..Len(shareHist)
      /\ shareCur \in ShareViews \cup {ShareHome}
      /\ shareCur # ShareHome => Len(shareHist) >= 1 /\ shareHist[Len(shareHist)] = shareCur
  BY ShareHistoryFacts DEF SharesInv
<1>2. /\ shareCur.view = "SeedSlip39ShareEntryView" /\ w < Len(share) - 1
      /\ share \in Seq({NoWord, Typed}) /\ Len(share) \in ShareLengths \cup {0}
  BY DEF WordTyped, AtEntry, SharesInv, SharesTypeOK
<1>3. w \in Nat /\ shareCur # ShareHome
  BY <1>1, <1>2, ShareArguments, ShareViewsAre
<1>4. /\ Len(share) \in ShareLengths /\ Len(share) \in Nat /\ share # << >>
      /\ w + 1 \in 0..(Len(share) - 1) /\ w + 1 \in DOMAIN share
  BY <1>2, <1>3
<1>5. /\ UpdatedShare \in Seq({NoWord, Typed}) /\ Len(UpdatedShare) = Len(share)
      /\ \A ix \in 1..Len(share) : share[ix] = Typed => UpdatedShare[ix] = Typed
      /\ UpdatedShare[w + 1] = Typed
  BY <1>2, <1>3, <1>4 DEF UpdatedShare
<1>6. Entry(w + 1) \in ShareViews
  BY <1>4, LongestShare
<1>7. ShareNav!Visit(Entry(w + 1), FALSE, FALSE) /\ Keeps(UpdatedShare, shares, length, first)
  BY DEF WordTyped
<1>8. Continues(share, shareCur) /\ \E j \in 1..Len(shareHist) : shareHist[j] = Entry(0)
  <2>1. Len(shareHist) \in DOMAIN shareHist /\ shareHist[Len(shareHist)] = shareCur
    BY <1>1, <1>3
  <2> QED
    BY <1>2, <1>4, <2>1 DEF SharesInv, ShareHistory, EntryStarts, EntryContinues, ContinuesShare, Continues
<1> HIDE DEF w
<1>9. PICK n \in 0..Len(shareHist) :
        ShareLaws!Lands(Entry(w + 1), n) /\ (n = Len(shareHist) \/ shareHist[n + 1] = Entry(w + 1))
  <2>1. ShareLaws!Visit(Entry(w + 1), FALSE, FALSE)
    BY <1>7, ShareNavHasLaws
  <2> QED
    BY <1>1, <1>6, <2>1, ShareLaws!GotoLands
<1>10. \E j \in 1..n : shareHist[j] = Entry(0)
  <2>1. CASE n = Len(shareHist)
    <3>1. PICK j \in 1..Len(shareHist) : shareHist[j] = Entry(0)
      BY <1>8
    <3>2. j \in 1..n
      BY <2>1
    <3> QED
      BY <3>1, <3>2
  <2>2. CASE n # Len(shareHist)
    <3>1. n + 1 \in DOMAIN shareHist /\ shareHist[n + 1] = Entry(w + 1)
      <4>1. n + 1 \in 1..Len(shareHist)
        <5>1. Len(shareHist) \in Nat
          BY <1>1
        <5> QED
          BY <2>2, <5>1
      <4>2. shareHist[n + 1] = Entry(w + 1)
        BY <1>9, <2>2
      <4> QED
        BY <1>1, <4>1, <4>2
    <3>2. PICK j \in 1..(n + 1) : shareHist[j] = Entry(0)
      BY <3>1, ShareViewOf DEF SharesInv, ShareHistory, EntryStarts
    <3>3. j # n + 1
      <4>1. Entry(0).word = 0 /\ Entry(w + 1).word = w + 1
        BY ShareViewOf
      <4>2. w + 1 # 0
        BY <1>3 DEF w
      <4> QED
        BY <3>1, <3>2, <4>1, <4>2
    <3> QED
      BY <3>2, <3>3
  <2> QED
    BY <2>1, <2>2
<1>11. \A d \in ShareViews : Continues(share, d) => Continues(UpdatedShare, d)
  <2> SUFFICES ASSUME NEW d \in ShareViews, d.view = "SeedSlip39ShareEntryView", d.word < Len(share),
                      \A ix \in 1..d.word : share[ix] = Typed
               PROVE  d.word < Len(UpdatedShare) /\ \A ix \in 1..d.word : UpdatedShare[ix] = Typed
    BY DEF Continues
  <2>1. d.word \in Nat
    BY ShareArguments
  <2> QED
    BY <1>4, <1>5, <2>1
<1>12. Continues(UpdatedShare, Entry(w + 1))
  <2>1. \A ix \in 1..w : share[ix] = Typed
    BY <1>2, <1>8 DEF Continues, w
  <2>2. w \in Nat
    BY <1>3 DEF w
  <2>3. w + 1 < Len(UpdatedShare) /\ \A ix \in 1..(w + 1) : UpdatedShare[ix] = Typed
    <3>1. \A ix \in 1..(w + 1) : (ix \in 1..w \/ ix = w + 1) /\ ix \in 1..Len(share)
      BY <1>4, <2>2 DEF w
    <3> QED
      BY <1>4, <1>5, <2>1, <2>2, <3>1 DEF w
  <2> QED
    BY <2>3, ShareViewOf DEF Continues
<1>13. \A k \in 1..n : Continues(UpdatedShare, shareHist[k])
  <2>1. \A k \in 1..n : Continues(share, shareHist[k]) /\ shareHist[k] \in ShareViews
    BY <1>1, <1>4, SameWords, ShareHistoryFacts DEF SharesInv
  <2> QED
    BY <1>11, <2>1
<1>14. Keepable(UpdatedShare, shares, length, first)
  BY <1>2, <1>5, Kept DEF Keepable
<1> QED
  BY <1>6, <1>7, <1>9, <1>10, <1>12, <1>13, <1>14, SharesLand

LEMMA EntryShares ==
    ASSUME SharesInv, UNCHANGED scannerAvailable,
           EntryBack \/ WordRefused \/ InvalidShareTyped \/ \E s \in Shares : ShareTyped(s)
    PROVE  SharesInv'
<1>1. CASE EntryBack
  BY <1>1, SharesBack DEF EntryBack, ShareBack
<1>2. CASE WordRefused
  BY <1>2, SharesFail DEF WordRefused
<1>3. CASE InvalidShareTyped
  <2>1. ShareNav!Visit(ShareInvalid(0, FALSE), TRUE, FALSE) /\ Keeps(<< >>, shares, 0, first)
    BY <1>3 DEF InvalidShareTyped
  <2> QED
    BY <2>1, Kept, ShareViewsAre, SharesVisit
<1>4. CASE \E s \in Shares : ShareTyped(s)
  <2>1. PICK s \in Shares : ShareTyped(s)
    BY <1>4
  <2>2. Keepable(<< >>, Append(shares, s), length, FirstShare(s))
    BY Kept DEF SharesInv, SharesTypeOK
  <2>3. ShareNav!Visit(MoreShares, FALSE, FALSE) /\ Keeps(<< >>, Append(shares, s), length, FirstShare(s))
    BY <2>1 DEF ShareTyped
  <2>4. MoreShares \in ShareViews /\ MoreShares.view # "SeedSlip39ShareEntryView"
    BY ShareViewsAre DEF OtherShareViews
  <2> QED
    BY <2>2, <2>3, <2>4, SharesVisit
<1> QED
  BY <1>1, <1>2, <1>3, <1>4

LEMMA OtherShares ==
    ASSUME SharesInv, UNCHANGED scannerAvailable,
           \/ RetryTyped \/ RetryScan \/ ScanBack \/ NoScanner \/ OtherScanned \/ InvalidShareScanned
           \/ \E n \in ShareLengths : InvalidShareFromCard(n)
           \/ \E s \in Shares, n \in ShareLengths : ShareScanned(s, n) \/ ShareFromCard(s, n)
    PROVE  SharesInv'
<1>1. /\ {Scan, ScannerError, UnknownCode, MoreShares} \subseteq ShareViews
      /\ \A d \in {Scan, ScannerError, UnknownCode, MoreShares} : d.view # "SeedSlip39ShareEntryView"
  BY ShareViewsAre DEF OtherShareViews
<1>2. CASE RetryTyped
  <2>1. shareCur.length \in ShareLengths \cup {0}
    BY <1>2, ShareArguments, ShareHistoryFacts DEF RetryTyped, SharesInv
  <2>2. ShareNav!Visit(Entry(0), TRUE, FALSE) /\ Keeps(Blank(shareCur.length), shares, shareCur.length, first)
    BY <1>2 DEF RetryTyped
  <2> QED
    BY <2>1, <2>2, SharesAnew
<1>3. CASE RetryScan
  BY <1>1, <1>3, Kept, SharesVisit DEF RetryScan, ArriveSame
<1>4. CASE ScanBack
  BY <1>4, SharesBack DEF ScanBack, ShareBack
<1>5. CASE NoScanner
  <2>1. CASE ShareNav!Visit(ScannerError, TRUE, FALSE) /\ ArriveSame(ScannerError)
    BY <1>1, <2>1, Kept, SharesVisit DEF ArriveSame
  <2>2. CASE ShareNav!GoBack(TRUE) /\ ArriveSame(Previous(TRUE))
    BY <2>2, SharesBack
  <2> QED
    BY <1>5, <2>1, <2>2 DEF NoScanner
<1>6. CASE OtherScanned
  <2>1. CASE ShareGoto(UnknownCode)
    BY <2>1, SharesGo DEF OtherShareViews
  <2> QED
    BY <1>6, <2>1, SharesFail DEF OtherScanned
<1>7. CASE InvalidShareScanned
  <2>1. /\ ShareNav!Visit(ShareInvalid(DefaultLength, TRUE), TRUE, FALSE) /\ Keeps(share, shares, length, first)
        /\ ShareInvalid(DefaultLength, TRUE) \in ShareViews
        /\ ShareInvalid(DefaultLength, TRUE).view # "SeedSlip39ShareEntryView"
    BY <1>7, Kept, ShareViewsAre DEF InvalidShareScanned
  <2> QED
    BY <2>1, Kept, SharesVisit
<1>8. CASE \E n \in ShareLengths : InvalidShareFromCard(n)
  <2>1. PICK n \in ShareLengths : InvalidShareFromCard(n)
    BY <1>8
  <2>2. /\ ShareNav!Visit(ShareInvalid(n, FALSE), TRUE, FALSE) /\ Keeps(share, shares, length, first)
        /\ ShareInvalid(n, FALSE) \in ShareViews /\ ShareInvalid(n, FALSE).view # "SeedSlip39ShareEntryView"
    BY <2>1, ShareViewsAre DEF InvalidShareFromCard
  <2> QED
    BY <2>2, Kept, SharesVisit
<1>9. CASE \E s \in Shares, n \in ShareLengths : ShareScanned(s, n) \/ ShareFromCard(s, n)
  <2>1. PICK s \in Shares, n \in ShareLengths : ShareScanned(s, n) \/ ShareFromCard(s, n)
    BY <1>9
  <2>2. Keepable(<< >>, Append(shares, s), n, FirstShare(s)) /\ Keepable(share, Append(shares, s), n, FirstShare(s))
    BY Kept
  <2>3. CASE ShareScanned(s, n)
    BY <1>1, <2>2, <2>3, SharesVisit DEF ShareScanned
  <2>4. CASE ShareFromCard(s, n)
    BY <1>1, <2>2, <2>4, SharesVisit DEF ShareFromCard
  <2> QED
    BY <2>1, <2>3, <2>4
<1> QED
  BY <1>2, <1>3, <1>4, <1>5, <1>6, <1>7, <1>8, <1>9

LEMMA MoreOfShares ==
    ASSUME SharesInv, UNCHANGED scannerAvailable, StartShares \/ AddShare \/ MoreSharesBack \/ Combine \/ Elsewhere
    PROVE  SharesInv'
<1>1. /\ Keepable(share, shares, length, first) /\ Keepable(<< >>, << >>, 0, NoShare)
      /\ length \in ShareLengths \cup {0} /\ InitShare(0) \in ShareLengths \cup {0}
      /\ {ShareFinalize, ShareHome} \subseteq ShareViews \cup {ShareHome}
      /\ \A d \in {ShareFinalize, ShareHome} : d.view # "SeedSlip39ShareEntryView"
  BY Kept, ShareViewsAre DEF SharesInv, SharesTypeOK, OtherShareViews
<1>2. CASE ShareBack
  BY <1>2, SharesBack DEF ShareBack
<1>3. CASE ShareGoto(Scan) \/ ShareGoto(Card) \/ ShareGoto(ShareLoad) \/ ShareGoto(Start)
  BY <1>3, SharesGo DEF OtherShareViews
<1>4. CASE \E n \in ShareLengths \cup {0} : ShareNav!Visit(Entry(0), FALSE, FALSE) /\ Keeps(Blank(n), shares, n, first)
  BY <1>4, SharesAnew
<1>5. CASE ShareFail
  BY <1>5, SharesFail
<1>6. CASE ShareNav!Visit(ShareFinalize, FALSE, FALSE) /\ Keeps(<< >>, << >>, 0, NoShare)
  BY <1>1, <1>6, SharesVisit
<1>7. CASE ShareNav!Visit(ShareHome, FALSE, TRUE) /\ ArriveSame(ShareHome)
  BY <1>1, <1>7, SharesVisit DEF ArriveSame
<1>8. CASE StartShares
  BY <1>2, <1>3, <1>4, <1>8 DEF StartShares
<1>9. CASE AddShare
  BY <1>1, <1>3, <1>4, <1>9 DEF AddShare
<1>10. CASE MoreSharesBack \/ Combine
  BY <1>5, <1>6, <1>10 DEF MoreSharesBack, Combine
<1>11. CASE Elsewhere
  BY <1>2, <1>3, <1>7, <1>11 DEF Elsewhere
<1> QED
  BY <1>8, <1>9, <1>10, <1>11

LEMMA SharesStep == SharesInv /\ [SharesNext]_shareVars => SharesInv'
<1> SUFFICES ASSUME SharesInv, [SharesNext]_shareVars PROVE SharesInv'
  OBVIOUS
<1>1. CASE UNCHANGED shareVars
  BY <1>1 DEF shareVars, SharesInv, ShareHistory, SharesTypeOK, EntryContinues, ContinuesShare, EntryStarts,
              ShareNav!TypeOK, ShareNav!EndsWithCurrent, ShareNav!NoRepeats
<1>2. CASE SharesNext
  BY <1>2, EntryShares, OneWordMore, OtherShares, MoreOfShares DEF SharesNext, ShareStep
<1> QED
  BY <1>1, <1>2

LEMMA SharesStart == SharesInit => SharesInv
<1> SUFFICES ASSUME SharesInit PROVE SharesInv
  OBVIOUS
<1>1. shareCur = ShareHome /\ shareHist = << >> /\ shareHist \in Seq(ShareViews) /\ DOMAIN shareHist = {}
  BY DEF SharesInit, ShareNav!Init
<1>2. ShareHistory
  BY <1>1 DEF ShareHistory, ShareNav!TypeOK, ShareNav!EndsWithCurrent, ShareNav!NoRepeats, EntryStarts
<1>3. Keepable(share, shares, length, first) /\ EntryContinues /\ scannerAvailable \in BOOLEAN
  BY Kept DEF SharesInit, EntryContinues
<1> QED
  BY <1>2, <1>3 DEF SharesInv, SharesTypeOK, ShareHistory, Keepable

(* The numbers of words and the shares are what the views expect of them.   *)
THEOREM SharesAreTyped == SharesSpec => []SharesTypeOK
<1>1. SharesInv => SharesTypeOK
  BY DEF SharesInv
<1> QED
  BY <1>1, SharesStart, SharesStep, PTL DEF SharesSpec

(* Words that are begun anew are never continued in the middle: every view  *)
(* of a word that the back stack leads to finds the words before its own    *)
(* typed.  No word's view lies below the first word's, and so none is left  *)
(* in the stack when the first word's is shown for new words.               *)
THEOREM SharesContinue == SharesSpec => []EntryContinues
<1>1. SharesInv => EntryContinues
  BY DEF SharesInv
<1> QED
  BY <1>1, SharesStart, SharesStep, PTL DEF SharesSpec

-----------------------------------------------------------------------------
(* Messages that wait for their key *)

\* The way to a key, from the GPG menu or from a message.
KeyImports == {"Import", "ImportPubkey", "ImportPrivkey"} \cup Pubkeys \cup Privkeys

\* Until a key is loaded, a waiting message lies below the way to it, and below
\* no other view does one look for keys; on the way without a message, it is the
\* menu that is below.
Waypoints(h, waits) ==
    \A n \in DOMAIN h :
        /\ h[n] \in KeyImports => \E m \in 1..(n - 1) : h[m] = IF waits THEN "DecryptMessage" ELSE GpgMenu
        /\ h[n] \notin KeyImports /\ ~(waits /\ h[n] = GpgMenu) => \A m \in 1..(n - 1) : h[m] \notin KeyImports

GpgHistory ==
    /\ GpgNav!TypeOK /\ GpgNav!EndsWithCurrent /\ GpgNav!NoRepeats
    /\ gpgHist = <<>> => gpgCur = GpgHome

Session == [waits : BOOLEAN, pending : Incoming \cup {NoMessage}]

\* A message that waits may have been taken back, but then nobody looks for a key.
NobodyImports ==
    gpgCtl.waits /\ gpgCtl.pending = NoMessage => \A n \in DOMAIN gpgHist : gpgHist[n] \notin KeyImports

\* What waits, and what is being read, is what was loaded last.
LastLoaded ==
    /\ gpgCtl.pending # NoMessage => gpgCtl.pending = chosen
    /\ gpgCur = "DecryptMessage" /\ gpgAt # "start" => msg = chosen /\ msg # NoMessage
    /\ gpgCur = "EncryptMessage" /\ gpgAt # "start" => msg # NoMessage

MessagesInv == GpgHistory /\ MessagesTypeOK /\ Waypoints(gpgHist, gpgCtl.waits) /\ NobodyImports /\ LastLoaded

GpgLaws == INSTANCE NavigationProofs WITH
    Views <- GpgViews, MainMenu <- GpgHome, StartupViews <- {}, cur <- gpgCur, hist <- gpgHist

LEMMA GpgNavHasLaws ==
    /\ \A d, skip, clear : GpgNav!Visit(d, skip, clear) => GpgLaws!Visit(d, skip, clear)
    /\ \A skip : GpgNav!GoBack(skip) => GpgLaws!GoBack(skip)
BY DEF GpgNav!Visit, GpgNav!GoBack, GpgNav!Enter, GpgNav!Unwound, GpgNav!Occurs, GpgNav!FirstIndex, GpgNav!WithoutLast,
       GpgLaws!Visit, GpgLaws!GoBack, GpgLaws!Enter, GpgLaws!Unwound, GpgLaws!Occurs, GpgLaws!FirstIndex, GpgLaws!WithoutLast

(* The menus as they are.                                                   *)
LEMMA MenusAre ==
    /\ DOMAIN MenuEntries = {GpgTools, GpgMenu, "Message", "Import", "Export", "ImportPubkey", "ImportPrivkey"}
    /\ MenuEntries[GpgTools] = {GpgMenu}
    /\ MenuEntries[GpgMenu] = {"Import", "Export", "Message"}
    /\ MenuEntries["Message"] = {"EncryptMessage", "DecryptMessage"}
    /\ MenuEntries["Import"] = {"ImportPubkey", "ImportPrivkey"}
    /\ MenuEntries["Export"] = {"ExportPubkey", "ExportPrivkey"}
    /\ MenuEntries["ImportPubkey"] = Pubkeys
    /\ MenuEntries["ImportPrivkey"] = Privkeys
BY DEF MenuEntries, GpgTools, GpgMenu

LEMMA GpgViewsAre ==
    /\ {GpgTools, GpgMenu, "Message", "Import", "Export", "ImportPubkey", "ImportPrivkey", "ImportKeyToCard",
        "EncryptMessage", "DecryptMessage", "ExportPubkey", "ExportPrivkey"} \subseteq GpgViews
    /\ Pubkeys \cup Privkeys \subseteq GpgViews
    /\ GpgHome \notin GpgViews
    /\ \A m \in DOMAIN MenuEntries : MenuEntries[m] \subseteq GpgViews
<1>1. \A m \in DOMAIN MenuEntries : MenuEntries[m] \subseteq GpgViews
  BY DEF GpgViews
<1>2. {GpgTools, GpgMenu, "Message", "Import", "Export", "ImportPubkey", "ImportPrivkey", "ImportKeyToCard"} \subseteq GpgViews
  <2>1. DOMAIN MenuEntries \subseteq GpgViews /\ "ImportKeyToCard" \in GpgViews
    BY DEF GpgViews
  <2> QED
    BY <2>1, MenusAre
<1>3. {"EncryptMessage", "DecryptMessage", "ExportPubkey", "ExportPrivkey"} \cup Pubkeys \cup Privkeys \subseteq GpgViews
  <2>1. {"Message", "Export", "ImportPubkey", "ImportPrivkey"} \subseteq DOMAIN MenuEntries
    BY MenusAre
  <2>2. /\ MenuEntries["Message"] \subseteq GpgViews /\ MenuEntries["Export"] \subseteq GpgViews
        /\ MenuEntries["ImportPubkey"] \subseteq GpgViews /\ MenuEntries["ImportPrivkey"] \subseteq GpgViews
    BY <1>1, <2>1
  <2> QED
    BY <2>2, MenusAre
<1>4. GpgHome \notin GpgViews
  <2>1. GpgHome \notin DOMAIN MenuEntries /\ GpgHome # "ImportKeyToCard"
    BY MenusAre DEF GpgHome, GpgTools, GpgMenu
  <2>2. ASSUME NEW m \in DOMAIN MenuEntries PROVE GpgHome \notin MenuEntries[m]
    <3>1. m \in {GpgTools, GpgMenu, "Message", "Import", "Export", "ImportPubkey", "ImportPrivkey"}
      BY MenusAre
    <3>2. MenuEntries[m] \subseteq {GpgMenu, "Import", "Export", "Message", "EncryptMessage", "DecryptMessage",
                                   "ImportPubkey", "ImportPrivkey", "ExportPubkey", "ExportPrivkey"} \cup Pubkeys \cup Privkeys
      BY <3>1, MenusAre
    <3> QED
      BY <3>2 DEF GpgHome, GpgMenu, Pubkeys, Privkeys
  <2> QED
    BY <2>1, <2>2 DEF GpgViews
<1> QED
  BY <1>1, <1>2, <1>3, <1>4

LEMMA GpgHistoryFacts ==
    ASSUME GpgHistory
    PROVE  /\ GpgLaws!Tidy /\ Len(gpgHist) \in Nat /\ DOMAIN gpgHist = 1..Len(gpgHist)
           /\ gpgCur \in GpgViews \cup {GpgHome}
           /\ \A n \in 1..Len(gpgHist) : gpgHist[n] \in GpgViews
           /\ gpgCur # GpgHome => Len(gpgHist) \in 1..Len(gpgHist) /\ gpgHist[Len(gpgHist)] = gpgCur /\ gpgHist # << >>
           /\ gpgCur = GpgHome => gpgHist = << >>
<1>1. GpgLaws!Tidy
  BY DEF GpgHistory, GpgNav!TypeOK, GpgNav!NoRepeats, GpgLaws!Tidy, GpgLaws!Distinct
<1>2. /\ Len(gpgHist) \in Nat /\ DOMAIN gpgHist = 1..Len(gpgHist)
      /\ \A n \in 1..Len(gpgHist) : gpgHist[n] \in GpgViews
      /\ gpgHist # << >> => Len(gpgHist) \in 1..Len(gpgHist)
  BY <1>1, EmptySeq DEF GpgLaws!Tidy
<1> QED
  BY <1>1, <1>2, GpgViewsAre DEF GpgHistory, GpgNav!TypeOK, GpgNav!EndsWithCurrent

LEMMA Positions ==
    ASSUME NEW top \in Nat, NEW n \in 0..top
    PROVE  /\ n \in Nat /\ 1..n \subseteq 1..top /\ (n + 1) - 1 = n
           /\ n = top \/ (n < top /\ n + 1 \in 1..top)
           /\ \A m \in 1..n : m = n \/ m \in 1..(n - 1)
           /\ \A m \in 1..n : \A k \in 1..(m - 1) : k \in 1..n
OBVIOUS

(* Where a view may be put on top of the history.                           *)
LEMMA GpgLands ==
    ASSUME GpgHistory, NEW waits \in BOOLEAN, NEW still \in BOOLEAN, Waypoints(gpgHist, waits),
           NEW d \in GpgViews \cup {GpgHome}, NEW n \in 0..Len(gpgHist), GpgLaws!Lands(d, n),
           d \in KeyImports => \E m \in 1..n : gpgHist[m] = IF still THEN "DecryptMessage" ELSE GpgMenu,
           d \notin KeyImports /\ ~(still /\ d = GpgMenu) => \A m \in 1..n : gpgHist[m] \notin KeyImports,
           still = waits \/ \A m \in 1..n : gpgHist[m] \notin KeyImports
    PROVE  /\ GpgHistory' /\ gpgCur' = d /\ Waypoints(gpgHist', still)
           /\ d = GpgHome => gpgHist' = << >>
           /\ \A m \in DOMAIN gpgHist' : gpgHist'[m] = d \/ \E k \in 1..n : gpgHist'[m] = gpgHist[k]
<1>1. /\ Len(gpgHist) \in Nat /\ DOMAIN gpgHist = 1..Len(gpgHist) /\ n \in Nat /\ 1..n \subseteq 1..Len(gpgHist)
      /\ gpgCur' = d
  BY GpgHistoryFacts DEF GpgLaws!Lands
<1>2. CASE d = GpgHome
  <2>1. gpgHist' = << >> /\ gpgHist' \in Seq(GpgViews) /\ DOMAIN gpgHist' = {}
    BY <1>2 DEF GpgLaws!Lands
  <2> QED
    BY <1>1, <1>2, <2>1 DEF GpgHistory, GpgNav!TypeOK, GpgNav!EndsWithCurrent, GpgNav!NoRepeats, Waypoints
<1>3. CASE d # GpgHome
  <2>1. /\ gpgHist' \in Seq(GpgViews) /\ Len(gpgHist') = n + 1 /\ DOMAIN gpgHist' = 1..(n + 1)
        /\ \A p \in 1..n : gpgHist'[p] = gpgHist[p] /\ gpgHist[p] # d
        /\ gpgHist'[n + 1] = d /\ gpgHist' # << >>
    BY <1>1, <1>3 DEF GpgLaws!Lands
  <2>2. \A p \in 1..(n + 1) : p \in 1..n \/ p = n + 1
    BY <1>1
  <2>3. \A p, j \in DOMAIN gpgHist' : gpgHist'[p] = gpgHist'[j] => p = j
    BY <1>1, <2>1, <2>2 DEF GpgHistory, GpgNav!NoRepeats
  <2>4. GpgHistory'
    BY <1>1, <1>3, <2>1, <2>3 DEF GpgHistory, GpgNav!TypeOK, GpgNav!EndsWithCurrent, GpgNav!NoRepeats
  <2>5. ASSUME NEW p \in 1..n
        PROVE  /\ gpgHist[p] \in KeyImports => \E m \in 1..(p - 1) : gpgHist[m] = IF still THEN "DecryptMessage" ELSE GpgMenu
               /\ gpgHist[p] \notin KeyImports /\ ~(still /\ gpgHist[p] = GpgMenu) => \A m \in 1..(p - 1) : gpgHist[m] \notin KeyImports
    <3>1. CASE still = waits
      BY <1>1, <3>1 DEF Waypoints
    <3>2. CASE \A m \in 1..n : gpgHist[m] \notin KeyImports
      <4>1. 1..(p - 1) \subseteq 1..n
        BY <1>1
      <4> QED
        BY <3>2, <4>1
    <3> QED
      BY <3>1, <3>2
  <2>6. ASSUME NEW p \in 1..n, NEW m \in 1..(p - 1) PROVE m \in 1..n
    BY <1>1
  <2>7. (n + 1) - 1 = n
    BY <1>1
  <2>8. Waypoints(gpgHist', still)
    <3>1. ASSUME NEW p \in DOMAIN gpgHist', p \in 1..n
          PROVE  /\ gpgHist'[p] \in KeyImports => \E m \in 1..(p - 1) : gpgHist'[m] = IF still THEN "DecryptMessage" ELSE GpgMenu
                 /\ gpgHist'[p] \notin KeyImports /\ ~(still /\ gpgHist'[p] = GpgMenu) => \A m \in 1..(p - 1) : gpgHist'[m] \notin KeyImports
      <4>1. gpgHist'[p] = gpgHist[p] /\ \A m \in 1..(p - 1) : gpgHist'[m] = gpgHist[m]
        BY <2>1, <2>6, <3>1
      <4> QED
        BY <2>5, <3>1, <4>1
    <3>2. /\ gpgHist'[n + 1] \in KeyImports => \E m \in 1..n : gpgHist'[m] = IF still THEN "DecryptMessage" ELSE GpgMenu
          /\ gpgHist'[n + 1] \notin KeyImports /\ ~(still /\ gpgHist'[n + 1] = GpgMenu) => \A m \in 1..n : gpgHist'[m] \notin KeyImports
      BY <2>1
    <3> QED
      BY <2>1, <2>2, <2>7, <3>1, <3>2 DEF Waypoints
  <2> QED
    BY <1>1, <1>3, <2>1, <2>2, <2>4, <2>8
<1> QED
  BY <1>2, <1>3

-----------------------------------------------------------------------------
(* Steps that show a view *)

\* What a view leaves to the next one.
Leaves(s) == gpgCtl' = s /\ gpgAt' = "start" /\ msg' = NoMessage

\* Keys come to the keyring, and the secret key with the public one.
KeyringGrows == gpgPubs' \subseteq MessageKeys /\ gpgSecs' \subseteq gpgPubs' /\ chosen' = chosen

LEMMA GpgShown ==
    ASSUME MessagesInv, NEW d \in GpgViews \cup {GpgHome}, NEW n \in 0..Len(gpgHist), GpgLaws!Lands(d, n),
           NEW s \in Session, ShowsGpg(d, s), KeyringGrows,
           s.pending # NoMessage => s.pending = chosen,
           d \in KeyImports => \E m \in 1..n : gpgHist[m] = IF s.waits THEN "DecryptMessage" ELSE GpgMenu,
           d \notin KeyImports /\ ~(s.waits /\ d = GpgMenu) => \A m \in 1..n : gpgHist[m] \notin KeyImports,
           s.waits = gpgCtl.waits \/ \A m \in 1..n : gpgHist[m] \notin KeyImports,
           s.waits /\ s.pending = NoMessage => d \notin KeyImports /\ \A m \in 1..n : gpgHist[m] \notin KeyImports
    PROVE  MessagesInv'
<1>1. gpgCtl.waits \in BOOLEAN /\ s.waits \in BOOLEAN /\ Waypoints(gpgHist, gpgCtl.waits) /\ GpgHistory
  BY DEF MessagesInv, MessagesTypeOK, Session
<1>2. /\ GpgHistory' /\ gpgCur' = d /\ Waypoints(gpgHist', s.waits)
      /\ d = GpgHome => gpgHist' = << >>
      /\ \A m \in DOMAIN gpgHist' : gpgHist'[m] = d \/ \E k \in 1..n : gpgHist'[m] = gpgHist[k]
  BY <1>1, GpgLands
<1>3. gpgCtl' \in Session /\ gpgCtl'.pending = s.pending /\ gpgAt' = "start" /\ msg' = NoMessage
  BY DEF ShowsGpg, Session
<1>4. CASE d = GpgHome
  <2>1. gpgHist' = << >> /\ DOMAIN gpgHist' = {} /\ ~gpgCtl'.waits
    BY <1>2, <1>4 DEF ShowsGpg, Session
  <2>2. Waypoints(gpgHist', gpgCtl'.waits) /\ NobodyImports'
    BY <2>1 DEF Waypoints, NobodyImports
  <2> QED
    BY <1>2, <1>3, <2>2 DEF MessagesInv, MessagesTypeOK, Session, KeyringGrows, LastLoaded, GpgHistory
<1>5. CASE d # GpgHome
  <2>1. gpgCtl' = s
    BY <1>5 DEF ShowsGpg
  <2>2. NobodyImports'
    BY <1>2, <2>1 DEF NobodyImports
  <2> QED
    BY <1>2, <1>3, <2>1, <2>2 DEF MessagesInv, MessagesTypeOK, Session, KeyringGrows, LastLoaded, GpgHistory
<1> QED
  BY <1>4, <1>5

(* Back: the history as it was when the view that comes was shown.          *)
LEMMA GpgBackHolds == ASSUME MessagesInv, GpgBack(gpgCtl), KeyringGrows PROVE MessagesInv'
<1> DEFINE d == IF Len(gpgHist) < 2 THEN GpgHome ELSE gpgHist[Len(gpgHist) - 1]
<1>1. /\ GpgHistory /\ GpgLaws!Tidy /\ Len(gpgHist) \in Nat /\ DOMAIN gpgHist = 1..Len(gpgHist) /\ gpgCtl \in Session
      /\ GpgHome \notin KeyImports /\ GpgHome # GpgMenu
  BY GpgHistoryFacts DEF MessagesInv, MessagesTypeOK, Session, KeyImports, Pubkeys, Privkeys, GpgHome, GpgMenu
<1>2. GpgLaws!Below(FALSE) = d
  BY <1>1 DEF GpgLaws!Below
<1>3. PICK n \in 0..Len(gpgHist) : GpgLaws!Lands(d, n) /\ (d = GpgHome \/ (n < Len(gpgHist) /\ gpgHist[n + 1] = d))
  BY <1>1, <1>2, GpgNavHasLaws, GpgLaws!BackLands DEF GpgBack
<1>4. d \in GpgViews \cup {GpgHome} /\ ShowsGpg(d, gpgCtl)
  BY <1>1, <1>2, GpgNavHasLaws, GpgLaws!BackLands DEF GpgBack
<1> HIDE DEF d
<1>5. n \in Nat /\ 1..n \subseteq 1..Len(gpgHist)
  BY <1>1
<1>6. CASE d # GpgHome
  <2>1. n + 1 \in DOMAIN gpgHist /\ gpgHist[n + 1] = d /\ (n + 1) - 1 = n
    BY <1>1, <1>3, <1>5, <1>6
  <2>2. /\ d \in KeyImports => \E m \in 1..n : gpgHist[m] = IF gpgCtl.waits THEN "DecryptMessage" ELSE GpgMenu
        /\ d \notin KeyImports /\ ~(gpgCtl.waits /\ d = GpgMenu) => \A m \in 1..n : gpgHist[m] \notin KeyImports
    BY <2>1 DEF MessagesInv, Waypoints
  <2>3. gpgCtl.waits /\ gpgCtl.pending = NoMessage => d \notin KeyImports /\ \A m \in 1..n : gpgHist[m] \notin KeyImports
    BY <1>1, <1>5, <2>1 DEF MessagesInv, NobodyImports
  <2> QED
    BY <1>1, <1>3, <1>4, <2>2, <2>3, GpgShown DEF MessagesInv, LastLoaded
<1>7. CASE d = GpgHome
  <2>1. 0 \in 0..Len(gpgHist) /\ GpgLaws!Lands(d, 0)
    BY <1>1, <1>3, <1>7 DEF GpgLaws!Lands
  <2>2. d \notin KeyImports /\ \A m \in 1..0 : gpgHist[m] \notin KeyImports
    BY <1>1, <1>7
  <2> QED
    BY <1>1, <1>4, <2>1, <2>2, GpgShown DEF MessagesInv, LastLoaded
<1> QED
  BY <1>6, <1>7

(* Forward, on top of the view that was left or cut back to the view shown. *)
LEMMA GpgGotoHolds ==
    ASSUME MessagesInv, gpgCur # GpgHome, NEW d \in GpgViews, NEW s \in Session, GpgGoto(d, s), KeyringGrows,
           s.pending # NoMessage => s.pending = chosen,
           \/ /\ s = gpgCtl
              /\ d \in KeyImports => gpgCur \in KeyImports \/ (gpgCur = GpgMenu /\ ~s.waits)
              /\ d \notin KeyImports /\ ~(s.waits /\ d = GpgMenu) =>
                    \/ gpgCur \notin KeyImports /\ (gpgCur = GpgMenu => ~s.waits)
                    \/ gpgCur \in KeyImports /\ d = GpgMenu
           \/ s.waits /\ s.pending # NoMessage /\ gpgCur = "DecryptMessage" /\ d \in KeyImports
    PROVE  MessagesInv'
<1>1. /\ GpgHistory /\ GpgLaws!Tidy /\ Len(gpgHist) \in Nat /\ DOMAIN gpgHist = 1..Len(gpgHist)
      /\ Len(gpgHist) \in 1..Len(gpgHist) /\ gpgHist[Len(gpgHist)] = gpgCur
      /\ "DecryptMessage" \notin KeyImports /\ GpgMenu \notin KeyImports /\ "DecryptMessage" # GpgMenu
  BY GpgHistoryFacts DEF MessagesInv, KeyImports, Pubkeys, Privkeys, GpgMenu
<1>2. PICK n \in 0..Len(gpgHist) : GpgLaws!Lands(d, n) /\ (n = Len(gpgHist) \/ gpgHist[n + 1] = d)
  BY <1>1, GpgNavHasLaws, GpgLaws!GotoLands DEF GpgGoto
<1>3. /\ n \in Nat /\ 1..n \subseteq 1..Len(gpgHist) /\ \A m \in 1..n : gpgHist[m] # d
      /\ n = Len(gpgHist) \/ (n < Len(gpgHist) /\ n + 1 \in 1..Len(gpgHist) /\ gpgHist[n + 1] = d /\ (n + 1) - 1 = n)
  <2>1. \A m \in 1..n : gpgHist[m] # d
    BY <1>2, GpgViewsAre DEF GpgLaws!Lands
  <2> QED
    BY <1>1, <1>2, <2>1, Positions
<1>4. ShowsGpg(d, s)
  BY DEF GpgGoto
<1>5. \A k, m \in 1..Len(gpgHist) : m \in 1..(k - 1) => m \in 1..Len(gpgHist)
  BY <1>1
<1>6. CASE s = gpgCtl
  <2>1. d \in KeyImports => \E m \in 1..n : gpgHist[m] = IF s.waits THEN "DecryptMessage" ELSE GpgMenu
    <3>1. CASE n < Len(gpgHist) /\ gpgHist[n + 1] = d
      <4>0. n + 1 \in 1..Len(gpgHist) /\ (n + 1) - 1 = n
        <5>1. Len(gpgHist) \in Nat
          BY <1>1
        <5> QED
          BY <3>1, <5>1, Positions
      <4>1. n + 1 \in DOMAIN gpgHist /\ (n + 1) - 1 = n
        BY <1>1, <4>0
      <4> QED
        BY <1>6, <3>1, <4>1 DEF MessagesInv, Waypoints
    <3>2. CASE n = Len(gpgHist) /\ d \in KeyImports /\ gpgCur \in KeyImports
      <4>1. PICK m \in 1..(Len(gpgHist) - 1) : gpgHist[m] = IF s.waits THEN "DecryptMessage" ELSE GpgMenu
        BY <1>1, <1>6, <3>2 DEF MessagesInv, Waypoints
      <4>2. m \in 1..n
        BY <1>1, <3>2
      <4> QED
        BY <4>1, <4>2
    <3>3. CASE n = Len(gpgHist) /\ gpgCur = GpgMenu /\ ~s.waits
      BY <1>1, <3>3
    <3> QED
      BY <1>1, <1>3, <1>6, <3>1, <3>2, <3>3
  <2>2. d \notin KeyImports /\ ~(s.waits /\ d = GpgMenu) => \A m \in 1..n : gpgHist[m] \notin KeyImports
    <3>1. CASE n < Len(gpgHist) /\ gpgHist[n + 1] = d
      <4>0. n + 1 \in 1..Len(gpgHist) /\ (n + 1) - 1 = n
        <5>1. Len(gpgHist) \in Nat
          BY <1>1
        <5> QED
          BY <3>1, <5>1, Positions
      <4>1. n + 1 \in DOMAIN gpgHist /\ (n + 1) - 1 = n
        BY <1>1, <4>0
      <4> QED
        BY <1>6, <3>1, <4>1 DEF MessagesInv, Waypoints
    <3>2. CASE n = Len(gpgHist) /\ gpgCur \notin KeyImports /\ (gpgCur = GpgMenu => ~s.waits)
      <4>1. \A m \in 1..(Len(gpgHist) - 1) : gpgHist[m] \notin KeyImports
        BY <1>1, <1>6, <3>2 DEF MessagesInv, Waypoints
      <4>2. \A m \in 1..n : m = Len(gpgHist) \/ m \in 1..(Len(gpgHist) - 1)
        BY <1>1, <3>2, Positions
      <4> QED
        BY <1>1, <3>2, <4>1, <4>2
    <3>3. CASE n = Len(gpgHist) /\ gpgCur \in KeyImports /\ d = GpgMenu /\ ~s.waits
      <4>1. PICK m \in 1..(Len(gpgHist) - 1) : gpgHist[m] = GpgMenu
        BY <1>1, <1>6, <3>3 DEF MessagesInv, Waypoints
      <4>2. m \in 1..n
        BY <1>1, <3>3
      <4> QED
        BY <1>3, <3>3, <4>1, <4>2
    <3> QED
      BY <1>1, <1>3, <1>6, <3>1, <3>2, <3>3
  <2>3. s.waits /\ s.pending = NoMessage => d \notin KeyImports /\ \A m \in 1..n : gpgHist[m] \notin KeyImports
    <3> SUFFICES ASSUME s.waits, s.pending = NoMessage PROVE d \notin KeyImports /\ \A m \in 1..n : gpgHist[m] \notin KeyImports
      OBVIOUS
    <3>1. \A m \in 1..Len(gpgHist) : gpgHist[m] \notin KeyImports
      BY <1>1, <1>6 DEF MessagesInv, NobodyImports
    <3> QED
      BY <1>1, <1>3, <1>6, <3>1
  <2> QED
    BY <1>2, <1>4, <1>6, <2>1, <2>2, <2>3, GpgShown
<1>7. CASE s.waits /\ s.pending # NoMessage /\ gpgCur = "DecryptMessage" /\ d \in KeyImports
  <2>1. \A m \in 1..Len(gpgHist) : gpgHist[m] \notin KeyImports
    <3>1. \A m \in 1..(Len(gpgHist) - 1) : gpgHist[m] \notin KeyImports
      BY <1>1, <1>7 DEF MessagesInv, Waypoints
    <3>2. \A m \in 1..Len(gpgHist) : m = Len(gpgHist) \/ m \in 1..(Len(gpgHist) - 1)
      <4>1. Len(gpgHist) \in 0..Len(gpgHist)
        BY <1>1
      <4> QED
        BY <1>1, <4>1, Positions
    <3> QED
      BY <1>1, <1>7, <3>1, <3>2
  <2>2. n = Len(gpgHist)
    BY <1>3, <1>7, <2>1
  <2>3. \E m \in 1..n : gpgHist[m] = "DecryptMessage"
    BY <1>1, <1>7, <2>2
  <2>4. \A m \in 1..n : gpgHist[m] \notin KeyImports
    BY <2>1, <2>2
  <2> QED
    BY <1>2, <1>4, <1>7, <2>3, <2>4, GpgShown
<1> QED
  BY <1>6, <1>7

(* From the main menu there is nothing below.                               *)
LEMMA GpgFromHome ==
    ASSUME MessagesInv, gpgCur = GpgHome, GpgGoto(GpgTools, gpgCtl), KeyringGrows
    PROVE  MessagesInv'
<1>1. /\ GpgHistory /\ GpgLaws!Tidy /\ gpgHist = << >> /\ Len(gpgHist) = 0 /\ DOMAIN gpgHist = {}
      /\ GpgTools \in GpgViews /\ GpgTools \notin KeyImports /\ gpgCtl \in Session
  BY GpgHistoryFacts, GpgViewsAre DEF MessagesInv, MessagesTypeOK, Session, KeyImports, Pubkeys, Privkeys, GpgTools
<1>2. PICK n \in 0..Len(gpgHist) : GpgLaws!Lands(GpgTools, n)
  BY <1>1, GpgNavHasLaws, GpgLaws!GotoLands DEF GpgGoto
<1>3. \A m \in 1..n : gpgHist[m] \notin KeyImports
  BY <1>1, <1>2
<1> QED
  BY <1>1, <1>2, <1>3, GpgShown DEF GpgGoto, MessagesInv, LastLoaded

(* Resuming, the message comes back on top of what was below it.            *)
LEMMA ResumeHolds == ASSUME MessagesInv, ResumeMessage PROVE MessagesInv'
<1> DEFINE s == [gpgCtl EXCEPT !.waits = FALSE]
           d == "DecryptMessage"
<1>1. /\ GpgHistory /\ GpgLaws!Tidy /\ Len(gpgHist) \in Nat /\ DOMAIN gpgHist = 1..Len(gpgHist)
      /\ gpgHist # << >> /\ gpgHist[Len(gpgHist)] = GpgMenu /\ gpgCtl \in Session /\ gpgCtl.waits
      /\ d \in GpgViews /\ d \notin KeyImports /\ GpgMenu # GpgHome /\ d # GpgHome
  BY GpgHistoryFacts, GpgViewsAre DEF ResumeMessage, MessagesInv, MessagesTypeOK, Session, KeyImports, Pubkeys, Privkeys, GpgMenu, GpgHome
<1>2. GpgNav!Visit(d, TRUE, FALSE) /\ ShowsGpg(d, s) /\ KeyringGrows
  BY DEF ResumeMessage, GpgForward, KeyringGrows, Keyring, MessagesInv, MessagesTypeOK
<1>3. s \in Session /\ ~s.waits /\ s.pending = gpgCtl.pending
  BY <1>1 DEF Session
<1> HIDE DEF s
<1>4. PICK n \in 0..Len(gpgHist) : /\ GpgLaws!Lands(d, n)
                                  /\ n < Len(gpgHist) /\ (n = Len(gpgHist) - 1 \/ gpgHist[n + 1] = d)
  BY <1>1, <1>2, GpgNavHasLaws, GpgLaws!ForwardLands
<1>5. n \in Nat /\ n + 1 \in 1..Len(gpgHist) /\ (n + 1) - 1 = n /\ \A m \in 1..n : gpgHist[m] # d /\ m \in 1..Len(gpgHist)
  <2>1. \A m \in 1..n : gpgHist[m] # d
    BY <1>1, <1>4 DEF GpgLaws!Lands
  <2> HIDE DEF d
  <2>2. n \in Nat /\ 1..n \subseteq 1..Len(gpgHist) /\ (n + 1) - 1 = n /\ n + 1 \in 1..Len(gpgHist)
    <3>1. Len(gpgHist) \in Nat /\ n < Len(gpgHist)
      BY <1>1, <1>4
    <3> QED
      BY <3>1, Positions
  <2> QED
    BY <2>1, <2>2
<1>6. ASSUME NEW m \in 1..n PROVE gpgHist[m] \notin KeyImports
  <2>1. gpgHist[m] \in KeyImports => \E k \in 1..(m - 1) : gpgHist[k] = d
    BY <1>1, <1>5 DEF MessagesInv, Waypoints
  <2>2. \A k \in 1..(m - 1) : k \in 1..n
    BY <1>5
  <2> QED
    BY <1>5, <2>1, <2>2
<1> HIDE DEF d
<1>7. s.pending # NoMessage => s.pending = chosen
  BY <1>3 DEF MessagesInv, LastLoaded
<1> QED
  BY <1>1, <1>2, <1>3, <1>4, <1>6, <1>7, GpgShown

-----------------------------------------------------------------------------
(* Steps on a screen *)
LEMMA StayHolds ==
    ASSUME MessagesInv, NEW to, StayAt(to), gpgCur # "DecryptMessage", UNCHANGED <<Keyring, chosen>>,
           msg' \in AnyMessage \cup {NoMessage}, gpgCur = "EncryptMessage" => msg' \in AnyMessage
    PROVE  MessagesInv'
BY MessagesAssumption DEF MessagesInv, GpgHistory, GpgNav!TypeOK, GpgNav!EndsWithCurrent, GpgNav!NoRepeats, MessagesTypeOK,
                          Waypoints, NobodyImports, LastLoaded, StayAt, Keyring

LEMMA ReadOn ==
    ASSUME MessagesInv, NEW to, StayAt(to), gpgCur = "DecryptMessage", gpgAt # "start", UNCHANGED <<Keyring, chosen, msg>>
    PROVE  MessagesInv'
BY DEF MessagesInv, GpgHistory, GpgNav!TypeOK, GpgNav!EndsWithCurrent, GpgNav!NoRepeats, MessagesTypeOK, Waypoints,
       NobodyImports, LastLoaded, StayAt, Keyring

LEMMA MenuHolds == ASSUME MessagesInv, FromMenu PROVE MessagesInv'
<1>1. KeyringGrows /\ gpgCtl \in Session /\ (gpgCtl.pending # NoMessage => gpgCtl.pending = chosen)
  BY DEF FromMenu, Keyring, KeyringGrows, MessagesInv, MessagesTypeOK, Session, LastLoaded
<1>2. CASE gpgCur = GpgHome /\ GpgGoto(GpgTools, gpgCtl)
  BY <1>1, <1>2, GpgFromHome
<1>3. CASE GpgBack(gpgCtl)
  BY <1>1, <1>3, GpgBackHolds
<1>4. CASE /\ gpgCur \in DOMAIN MenuEntries /\ (gpgCur = GpgMenu => ~gpgCtl.waits)
           /\ \E d \in MenuEntries[gpgCur] : GpgGoto(d, gpgCtl)
  <2>1. PICK d \in MenuEntries[gpgCur] : GpgGoto(d, gpgCtl)
    BY <1>4
  <2>2. d \in GpgViews /\ gpgCur # GpgHome
    BY <1>4, <2>1, MenusAre, GpgViewsAre DEF GpgHome, GpgTools, GpgMenu
  <2>3. gpgCur \in {GpgTools, GpgMenu, "Message", "Import", "Export", "ImportPubkey", "ImportPrivkey"}
    BY <1>4, MenusAre
  <2>4. /\ d \in KeyImports => gpgCur \in KeyImports \/ gpgCur = GpgMenu
        /\ d \notin KeyImports => gpgCur \notin KeyImports
    <3>1. CASE gpgCur \in {GpgTools, GpgMenu, "Message", "Export"}
      BY <3>1, <2>1, MenusAre DEF KeyImports, Pubkeys, Privkeys, GpgTools, GpgMenu
    <3>2. CASE gpgCur \in {"Import", "ImportPubkey", "ImportPrivkey"}
      BY <3>2, <2>1, MenusAre DEF KeyImports
    <3> QED
      BY <2>3, <3>1, <3>2
  <2> QED
    BY <1>1, <1>4, <2>1, <2>2, <2>4, GpgGotoHolds
<1> QED
  BY <1>2, <1>3, <1>4 DEF FromMenu

LEMMA WritingHolds ==
    ASSUME MessagesInv, ChooseRecipient \/ WriteText \/ ChooseSigner \/ EncryptText \/ DeliverText
    PROVE  MessagesInv'
<1>1. UNCHANGED <<Keyring, chosen>> /\ gpgCur = "EncryptMessage" /\ gpgCur # "DecryptMessage"
  BY DEF ChooseRecipient, WriteText, ChooseSigner, EncryptText, DeliverText, GpgStep
<1>2. KeyringGrows
  BY <1>1 DEF Keyring, KeyringGrows, MessagesInv, MessagesTypeOK
<1>3. CASE GpgBack(gpgCtl)
  BY <1>2, <1>3, GpgBackHolds
<1>4. gpgPubs \subseteq MessageKeys /\ gpgSecs \subseteq MessageKeys
  BY DEF MessagesInv, MessagesTypeOK
<1>5. CASE \E k \in gpgPubs \cup {NoGpgKey} : msg' = [to |-> k, from |-> NoGpgKey] /\ StayAt("text")
  <2>1. msg' \in AnyMessage
    BY <1>4, <1>5 DEF AnyMessage
  <2> QED
    BY <1>1, <1>5, <2>1, StayHolds
<1>6. CASE GpgStep("EncryptMessage", "signer") /\ \E k \in gpgSecs \cup {NoGpgKey} : msg' = [msg EXCEPT !.from = k] /\ StayAt("encrypt")
  <2>1. msg \in AnyMessage
    BY <1>6 DEF GpgStep, MessagesInv, MessagesTypeOK, LastLoaded
  <2>2. msg' \in AnyMessage
    BY <1>4, <1>6, <2>1 DEF AnyMessage
  <2> QED
    BY <1>1, <1>6, <2>2, StayHolds
<1>7. CASE \E from \in {"text", "encrypt"} : GpgStep("EncryptMessage", from) /\ \E to \in {"signer", "deliver"} : StayAt(to) /\ UNCHANGED msg
  <2>1. msg \in AnyMessage
    BY <1>7 DEF GpgStep, MessagesInv, MessagesTypeOK, LastLoaded
  <2> QED
    BY <1>1, <1>7, <2>1, StayHolds
<1> QED
  BY <1>3, <1>5, <1>6, <1>7 DEF ChooseRecipient, WriteText, ChooseSigner, EncryptText, DeliverText

(* A message is taken, from the Controller before anywhere else.            *)
LEMMA LoadingHolds == ASSUME MessagesInv, LoadMessage PROVE MessagesInv'
<1>1. /\ gpgCur = "DecryptMessage" /\ gpgCur # GpgHome /\ UNCHANGED Keyring /\ gpgCtl \in Session /\ GpgHistory
      /\ "DecryptMessage" \notin KeyImports /\ "DecryptMessage" # GpgMenu
  BY DEF LoadMessage, GpgStep, MessagesInv, MessagesTypeOK, Session, GpgHome, GpgMenu, KeyImports, Pubkeys, Privkeys
<1>2. CASE GpgBack(gpgCtl) /\ UNCHANGED chosen
  BY <1>1, <1>2, GpgBackHolds DEF Keyring, KeyringGrows, MessagesInv, MessagesTypeOK
<1>3. CASE /\ gpgCtl.pending # NoMessage
           /\ msg' = gpgCtl.pending /\ gpgCtl' = [gpgCtl EXCEPT !.pending = NoMessage] /\ gpgAt' = "open"
           /\ UNCHANGED <<gpgCur, gpgHist, chosen>>
  <2>1. \A n \in DOMAIN gpgHist : gpgHist[n] \notin KeyImports
    <3>1. /\ Len(gpgHist) \in Nat /\ DOMAIN gpgHist = 1..Len(gpgHist) /\ Len(gpgHist) \in 1..Len(gpgHist)
          /\ gpgHist[Len(gpgHist)] = "DecryptMessage"
      BY <1>1, GpgHistoryFacts
    <3>2. \A n \in 1..(Len(gpgHist) - 1) : gpgHist[n] \notin KeyImports
      BY <1>1, <3>1 DEF MessagesInv, Waypoints
    <3>3. \A n \in 1..Len(gpgHist) : n = Len(gpgHist) \/ n \in 1..(Len(gpgHist) - 1)
      <4>1. Len(gpgHist) \in 0..Len(gpgHist)
        BY <3>1
      <4> QED
        BY <3>1, <4>1, Positions
    <3> QED
      BY <1>1, <3>1, <3>2, <3>3
  <2>2. gpgCtl' \in Session /\ gpgCtl'.waits = gpgCtl.waits /\ gpgCtl'.pending = NoMessage
    BY <1>1, <1>3 DEF Session
  <2>3. msg' \in AnyMessage /\ msg' = chosen /\ msg' # NoMessage
    BY <1>1, <1>3, MessagesAssumption DEF Session, MessagesInv, LastLoaded
  <2>4. GpgHistory' /\ Waypoints(gpgHist, gpgCtl.waits)' /\ NobodyImports'
    BY <1>3, <2>1, <2>2 DEF MessagesInv, GpgHistory, GpgNav!TypeOK, GpgNav!EndsWithCurrent, GpgNav!NoRepeats, Waypoints, NobodyImports
  <2> QED
    BY <1>1, <1>3, <2>2, <2>3, <2>4
    DEF MessagesInv, MessagesTypeOK, Session, GpgHistory, LastLoaded, Keyring
<1>4. CASE gpgCtl.pending = NoMessage /\ \E m \in Incoming : msg' = m /\ chosen' = m /\ StayAt("open")
  <2>1. msg' \in AnyMessage /\ msg' # NoMessage /\ chosen' = msg' /\ chosen' \in Incoming
    BY <1>4, MessagesAssumption
  <2>2. GpgHistory' /\ Waypoints(gpgHist, gpgCtl.waits)' /\ NobodyImports'
    BY <1>4 DEF MessagesInv, GpgHistory, GpgNav!TypeOK, GpgNav!EndsWithCurrent, GpgNav!NoRepeats, Waypoints, NobodyImports, StayAt
  <2> QED
    BY <1>1, <1>4, <2>1, <2>2 DEF MessagesInv, MessagesTypeOK, GpgHistory, LastLoaded, Keyring, StayAt
<1> QED
  BY <1>2, <1>3, <1>4 DEF LoadMessage

LEMMA ReadingHolds == ASSUME MessagesInv, OpenMessage \/ NotOpened \/ ReadSignature \/ UseText PROVE MessagesInv'
<1>1. /\ gpgCur = "DecryptMessage" /\ gpgAt # "start" /\ gpgCur # GpgHome /\ UNCHANGED <<Keyring, chosen>> /\ gpgCtl \in Session
  BY DEF OpenMessage, NotOpened, ReadSignature, UseText, GpgStep, MessagesInv, MessagesTypeOK, Session, GpgHome
<1>2. KeyringGrows /\ msg = chosen /\ msg # NoMessage /\ msg \in Incoming
  BY <1>1 DEF Keyring, KeyringGrows, MessagesInv, MessagesTypeOK, LastLoaded
<1>3. CASE GpgBack(gpgCtl)
  BY <1>2, <1>3, GpgBackHolds
<1>4. CASE \E to \in {"signature", "closed", "plain"} : StayAt(to) /\ UNCHANGED msg
  BY <1>1, <1>4, ReadOn
<1>5. CASE \E d \in {"ImportPubkey", "ImportPrivkey"} : GpgGoto(d, WaitsWith(gpgCtl))
  <2>1. PICK d \in {"ImportPubkey", "ImportPrivkey"} : GpgGoto(d, WaitsWith(gpgCtl))
    BY <1>5
  <2>2. d \in GpgViews /\ d \in KeyImports
    BY GpgViewsAre DEF KeyImports
  <2>3. WaitsWith(gpgCtl) \in Session /\ WaitsWith(gpgCtl).waits /\ WaitsWith(gpgCtl).pending = msg
    BY <1>1, <1>2 DEF WaitsWith, Session
  <2> QED
    BY <1>1, <1>2, <2>1, <2>2, <2>3, GpgGotoHolds
<1> QED
  BY <1>3, <1>4, <1>5 DEF OpenMessage, NotOpened, ReadSignature, UseText

LEMMA KeysHold ==
    ASSUME MessagesInv, LoadKeyQR \/ LoadKeySeedkeeper \/ LoadPrivkeyFile \/ LoadPubkeyFile
    PROVE  MessagesInv'
<1>1. gpgCur \in Pubkeys \cup Privkeys
  BY DEF LoadKeyQR, LoadKeySeedkeeper, LoadPrivkeyFile, LoadPubkeyFile, LoadGpgKey, Pubkeys, Privkeys
<1>2. /\ gpgCur \in KeyImports /\ gpgCur # GpgHome /\ gpgCtl \in Session /\ GpgMenu \in GpgViews /\ GpgMenu \notin KeyImports
      /\ gpgCtl.pending # NoMessage => gpgCtl.pending = chosen
  BY <1>1, GpgViewsAre DEF KeyImports, Pubkeys, Privkeys, GpgHome, GpgMenu, MessagesInv, MessagesTypeOK, Session, LastLoaded
<1>3. KeyringGrows
  <2>1. UNCHANGED chosen /\ (UNCHANGED Keyring \/ ImportKey)
    BY DEF LoadKeyQR, LoadKeySeedkeeper, LoadPrivkeyFile, LoadPubkeyFile, LoadGpgKey
  <2>2. gpgPubs \subseteq MessageKeys /\ gpgSecs \subseteq gpgPubs
    BY DEF MessagesInv, MessagesTypeOK
  <2>3. CASE ImportKey
    BY <2>1, <2>2, <2>3 DEF ImportKey, KeyringGrows
  <2>4. CASE UNCHANGED Keyring
    BY <2>1, <2>2, <2>4 DEF Keyring, KeyringGrows
  <2> QED
    BY <2>1, <2>3, <2>4
<1>4. GpgBack(gpgCtl) \/ GpgGoto(GpgMenu, gpgCtl)
  BY DEF LoadKeyQR, LoadKeySeedkeeper, LoadPrivkeyFile, LoadPubkeyFile, LoadGpgKey
<1>5. CASE GpgBack(gpgCtl)
  BY <1>3, <1>5, GpgBackHolds
<1>6. CASE GpgGoto(GpgMenu, gpgCtl)
  BY <1>2, <1>3, <1>6, GpgGotoHolds
<1> QED
  BY <1>4, <1>5, <1>6

LEMMA ExportsHold ==
    ASSUME MessagesInv,
           ChooseExport \/ ShowPubkey \/ KeepPubkey \/ SavePrivkey \/ KeepPrivkey \/ PrivkeyToCard \/ ImportKeyToCard
    PROVE  MessagesInv'
<1>1. gpgCur \in {"ExportPubkey", "ExportPrivkey", "ImportKeyToCard"} /\ UNCHANGED <<Keyring, chosen>>
  BY DEF ChooseExport, Exports, ShowPubkey, KeepPubkey, SavePrivkey, KeepPrivkey, PrivkeyToCard, ImportKeyToCard, GpgStep
<1>2. /\ gpgCur \notin KeyImports /\ gpgCur # GpgHome /\ gpgCur # GpgMenu /\ gpgCur \notin {"DecryptMessage", "EncryptMessage"}
      /\ gpgCtl \in Session /\ {GpgMenu, "ImportKeyToCard"} \subseteq GpgViews /\ {GpgMenu, "ImportKeyToCard"} \cap KeyImports = {}
      /\ gpgCtl.pending # NoMessage => gpgCtl.pending = chosen
  BY <1>1, GpgViewsAre DEF KeyImports, Pubkeys, Privkeys, GpgHome, GpgMenu, MessagesInv, MessagesTypeOK, Session, LastLoaded
<1>3. KeyringGrows
  BY <1>1 DEF Keyring, KeyringGrows, MessagesInv, MessagesTypeOK
<1>4. CASE GpgBack(gpgCtl)
  BY <1>3, <1>4, GpgBackHolds
<1>5. CASE \E d \in {GpgMenu, "ImportKeyToCard"} : GpgGoto(d, gpgCtl)
  <2>1. PICK d \in {GpgMenu, "ImportKeyToCard"} : GpgGoto(d, gpgCtl)
    BY <1>5
  <2>2. d \in GpgViews /\ d \notin KeyImports
    BY <1>2
  <2> QED
    BY <1>2, <1>3, <2>1, <2>2, GpgGotoHolds
<1>6. CASE \E to : StayAt(to) /\ UNCHANGED msg
  BY <1>1, <1>2, <1>6, StayHolds DEF MessagesInv, MessagesTypeOK
<1> QED
  BY <1>4, <1>5, <1>6 DEF ChooseExport, ShowPubkey, KeepPubkey, SavePrivkey, KeepPrivkey, PrivkeyToCard, ImportKeyToCard

LEMMA MessagesStep == MessagesInv /\ [MessagesNext]_messageVars => MessagesInv'
<1> SUFFICES ASSUME MessagesInv, [MessagesNext]_messageVars PROVE MessagesInv'
  OBVIOUS
<1>1. CASE UNCHANGED messageVars
  BY <1>1 DEF messageVars, MessagesInv, GpgHistory, GpgNav!TypeOK, GpgNav!EndsWithCurrent, GpgNav!NoRepeats, MessagesTypeOK,
              Waypoints, NobodyImports, LastLoaded
<1>2. CASE MessagesNext
  BY <1>2, MenuHolds, ResumeHolds, WritingHolds, LoadingHolds, ReadingHolds, KeysHold, ExportsHold DEF MessagesNext
<1> QED
  BY <1>1, <1>2

LEMMA MessagesStart == MessagesInit => MessagesInv
<1> SUFFICES ASSUME MessagesInit PROVE MessagesInv
  OBVIOUS
<1>1. gpgCur = GpgHome /\ gpgHist = << >> /\ gpgHist \in Seq(GpgViews) /\ DOMAIN gpgHist = {}
  BY DEF MessagesInit
<1>2. GpgHistory
  BY <1>1 DEF GpgHistory, GpgNav!TypeOK, GpgNav!EndsWithCurrent, GpgNav!NoRepeats
<1>3. /\ gpgCtl \in Session /\ gpgCtl.pending = NoMessage /\ ~gpgCtl.waits /\ gpgAt = "start" /\ msg = NoMessage /\ chosen = NoMessage
      /\ gpgSecs \subseteq gpgPubs /\ gpgPubs \subseteq MessageKeys
  BY DEF MessagesInit, Session
<1> QED
  BY <1>1, <1>2, <1>3 DEF MessagesInv, GpgHistory, MessagesTypeOK, Session, Waypoints, NobodyImports, LastLoaded

(* Keyring, session and message at hand are what the views expect.          *)
THEOREM MessagesAreTyped == MessagesSpec => []MessagesTypeOK
<1>1. MessagesInv => MessagesTypeOK
  BY DEF MessagesInv
<1> QED
  BY <1>1, MessagesStart, MessagesStep, PTL DEF MessagesSpec

(* A message that waits for its key is the one that was loaded last, also   *)
(* when a message was taken back from an earlier attempt to find a key.     *)
THEOREM MessageComesBack == MessagesSpec => ResumesWithMessage
<1>1. MessagesInv /\ [MessagesNext]_messageVars =>
        [gpgCtl.waits /\ gpgCur \in Pubkeys \cup Privkeys /\ gpgCur' = GpgMenu => gpgCtl'.pending = chosen]_messageVars
  <2> SUFFICES ASSUME MessagesInv, MessagesNext, gpgCtl.waits, gpgCur \in Pubkeys \cup Privkeys, gpgCur' = GpgMenu
               PROVE  gpgCtl'.pending = chosen
    OBVIOUS
  <2>1. /\ gpgCur \in KeyImports /\ gpgCur \notin DOMAIN MenuEntries
        /\ gpgCur \notin {GpgHome, GpgMenu, "EncryptMessage", "DecryptMessage", "ExportPubkey", "ExportPrivkey", "ImportKeyToCard"}
    BY MenusAre DEF KeyImports, Pubkeys, Privkeys, GpgHome, GpgTools, GpgMenu
  <2>2. GpgBack(gpgCtl) \/ GpgGoto(GpgMenu, gpgCtl)
    <3>1. ~(FromMenu \/ ResumeMessage \/ ChooseRecipient \/ WriteText \/ ChooseSigner \/ EncryptText \/ DeliverText)
      BY <2>1 DEF FromMenu, ResumeMessage, ChooseRecipient, WriteText, ChooseSigner, EncryptText, DeliverText, GpgStep
    <3>2. ~(LoadMessage \/ OpenMessage \/ NotOpened \/ ReadSignature \/ UseText)
      BY <2>1 DEF LoadMessage, OpenMessage, NotOpened, ReadSignature, UseText, GpgStep
    <3>3. ~(ChooseExport \/ ShowPubkey \/ KeepPubkey \/ SavePrivkey \/ KeepPrivkey \/ PrivkeyToCard \/ ImportKeyToCard)
      BY <2>1 DEF ChooseExport, Exports, ShowPubkey, KeepPubkey, SavePrivkey, KeepPrivkey, PrivkeyToCard, ImportKeyToCard, GpgStep
    <3> QED
      BY <3>1, <3>2, <3>3 DEF MessagesNext, LoadKeyQR, LoadKeySeedkeeper, LoadPrivkeyFile, LoadPubkeyFile, LoadGpgKey
  <2>3. gpgCtl'.pending = gpgCtl.pending
    <3>1. gpgCtl \in Session
      BY DEF MessagesInv, MessagesTypeOK, Session
    <3> QED
      BY <2>2, <3>1 DEF GpgBack, GpgGoto, ShowsGpg, Session
  <2>4. Len(gpgHist) \in DOMAIN gpgHist /\ gpgHist[Len(gpgHist)] = gpgCur
    BY <2>1, GpgHistoryFacts DEF MessagesInv
  <2>5. gpgCtl.pending # NoMessage
    BY <2>1, <2>4 DEF MessagesInv, NobodyImports
  <2> QED
    BY <2>3, <2>5 DEF MessagesInv, LastLoaded
<1> QED
  BY <1>1, MessagesStart, MessagesStep, PTL DEF MessagesSpec, ResumesWithMessage

-----------------------------------------------------------------------------
(* The workflows that need a seed *)

\* The views that show addresses of the explorer, those from the address of a
\* signer on, and the others.
AddressNames == {"ToolsAddressExplorerAddressListView", "ToolsAddressExplorerAddressView"}
SigningNames == {"SeedSignMessageConfirmAddressView", "SeedSignMessageSignedMessageQRView"}
OtherNames ==
    {"MainMenuView", "ToolsMenuView", "SeedsMenuView", "LoadSeedView", "SeedOptionsView", "SeedDiscardView",
     "SelectSeed sign", "SelectSeed verify", "AddressVerificationSigTypeView", "SeedAddressVerificationView",
     "SeedAddressVerificationSuccessView", "SeedAddressVerificationSimpleNotFoundView",
     "SeedAddressVerificationNotFoundView", "SeedExportXpubVerification", "LoadMultisigWalletDescriptorView",
     "MultisigWalletDescriptorView", "SatochipLoadDescriptorScriptTypeView", "SatochipLoadDescriptorDetailsView",
     "SeedExportXpubSigTypeView", "SeedExportXpubScriptTypeView", "SeedExportXpubCustomDerivationView",
     "AccountNumberView", "SeedExportXpubQRFormatView", "SeedExportXpubVerifyAddressView", "ScanXpubAddressView",
     "ToolsAddressExplorerSelectSourceView", "AddressType", "SeedSignMessageConfirmMessageView",
     "ToolsSatochipImportSeedView", "ScanView", "ScanSeedQRView", "ScanWalletDescriptorView", "ScanAddressView",
     "ScanInvalidQRTypeView", "ErrorView", "UnhandledExceptionView"}
WorkNames == AddressNames \cup SigningNames \cup OtherNames

\* Views, as far as the history tells them apart.
WorkPlaces == [view : WorkNames, key : WorkSeeds \cup {NoSeed}, n : Nat]

\* The views of some names are on top of the history, with nothing above them.
OnTop(names) ==
    \A j, k \in 1..Len(workHist) : j < k /\ workHist[j].view \in names => workHist[k].view \in names

\* A view of the explorer that the addresses on screen belong to.
IsExplored(v) ==
    v.view = "AddressType" /\ workCtl.explored = IF v.key # NoSeed THEN v.key ELSE workCtl.wallet

AddressesAreExplored ==
    \A k \in 1..Len(workHist) :
        workHist[k].view \in AddressNames => \E j \in 1..(k - 1) : IsExplored(workHist[j])

\* The address on screen is the one of the key that will sign.
AddressIsSigners ==
    workCur.view = "SeedSignMessageConfirmAddressView" => workCtl.data.shown = AddressKey(workCtl)

WorkLaws == INSTANCE NavigationProofs WITH
    Views <- WorkPlaces \ {WorkHome}, MainMenu <- WorkHome, StartupViews <- {},
    cur <- workCur, hist <- workHist

WorkHistory == WorkLaws!Tidy /\ IF workHist = <<>> THEN workCur = WorkHome ELSE workHist[Len(workHist)] = workCur
WorkTypes == workCtl \in Sessions /\ workLoaded \subseteq WorkSeeds

WorkInv ==
    /\ WorkHistory /\ WorkTypes
    /\ OnTop(AddressNames) /\ OnTop(SigningNames)
    /\ AddressesAreExplored /\ (workCur.view = "AddressType" => IsExplored(workCur))
    /\ AddressIsSigners /\ ConfirmedIsSigner

LEMMA WorkNavHasLaws ==
    /\ \A d, skip, clear : WorkNav!Visit(d, skip, clear) <=> WorkLaws!Visit(d, skip, clear)
    /\ \A skip : (WorkNav!GoBack(skip) <=> WorkLaws!GoBack(skip)) /\ WorkBelow(skip) = WorkLaws!Below(skip)
BY DEF WorkNav!Visit, WorkLaws!Visit, WorkNav!GoBack, WorkLaws!GoBack, WorkNav!Enter, WorkLaws!Enter,
       WorkNav!Unwound, WorkLaws!Unwound, WorkNav!Occurs, WorkLaws!Occurs, WorkNav!FirstIndex, WorkLaws!FirstIndex,
       WorkNav!WithoutLast, WorkLaws!WithoutLast, WorkBelow, WorkLaws!Below

(* What there is to know of the views' names and arguments.                 *)
LEMMA WorkPlacesAre ==
    /\ \A v \in WorkNames : WorkPlain(v) \in WorkPlaces /\ WorkPlain(v).view = v
    /\ \A v \in WorkNames, k \in WorkSeeds \cup {NoSeed} : Of(v, k) \in WorkPlaces /\ Of(v, k).view = v
    /\ \A p \in WorkPlaces, m \in Nat :
         /\ [p EXCEPT !.n = m] \in WorkPlaces /\ [p EXCEPT !.n = m].view = p.view
         /\ p.n \in Nat /\ p.key \in WorkSeeds \cup {NoSeed}
    /\ WorkHome \in WorkPlaces /\ WorkHome.view = "MainMenuView"
<1>1. ASSUME NEW v \in WorkNames PROVE WorkPlain(v) \in WorkPlaces /\ WorkPlain(v).view = v
  BY DEF WorkPlaces, WorkPlain
<1>2. ASSUME NEW v \in WorkNames, NEW k \in WorkSeeds \cup {NoSeed}
      PROVE  Of(v, k) \in WorkPlaces /\ Of(v, k).view = v
  BY DEF WorkPlaces, WorkPlain, Of
<1>3. ASSUME NEW p \in WorkPlaces, NEW m \in Nat
      PROVE  /\ [p EXCEPT !.n = m] \in WorkPlaces /\ [p EXCEPT !.n = m].view = p.view
             /\ p.n \in Nat /\ p.key \in WorkSeeds \cup {NoSeed}
  <2>1. p.n \in Nat /\ p.key \in WorkSeeds \cup {NoSeed} /\ p.view \in WorkNames
    BY DEF WorkPlaces
  <2>2. [p EXCEPT !.n = m] = [view |-> p.view, key |-> p.key, n |-> m]
    BY DEF WorkPlaces
  <2> QED
    BY <2>1, <2>2 DEF WorkPlaces
<1>4. WorkHome \in WorkPlaces /\ WorkHome.view = "MainMenuView"
  <2>1. "MainMenuView" \in WorkNames
    BY DEF WorkNames, OtherNames
  <2> QED
    BY <1>1, <2>1 DEF WorkHome
<1> QED
  BY <1>1, <1>2, <1>3, <1>4

\* A view d is entered over the first m views of the history.
WorkLands(d, m) ==
    /\ m \in 0..Len(workHist) /\ workCur' = d
    /\ IF d = WorkHome THEN workHist' = <<>>
       ELSE /\ workHist' \in Seq(WorkPlaces \ {WorkHome}) /\ Len(workHist') = m + 1
            /\ \A j \in 1..m : workHist'[j] = workHist[j] /\ workHist[j] # d
            /\ workHist'[m + 1] = d

LEMMA WorkVisits ==
    ASSUME WorkHistory, NEW d \in WorkPlaces, NEW skip \in BOOLEAN, NEW clear \in BOOLEAN,
           WorkNav!Visit(d, skip, clear)
    PROVE  \E m \in 0..Len(workHist) : WorkLands(d, m) /\ (~skip /\ ~clear => m = Len(workHist) \/ workHist[m + 1] = d)
<1>1. WorkLaws!Visit(d, skip, clear) /\ WorkLaws!Tidy /\ d \in (WorkPlaces \ {WorkHome}) \cup {WorkHome}
  BY WorkNavHasLaws DEF WorkHistory
<1>2. CASE clear
  <2>1. WorkLaws!Lands(d, 0)
    BY <1>1, <1>2, WorkLaws!ClearLands
  <2>2. 0 \in 0..Len(workHist)
    BY <1>1 DEF WorkLaws!Tidy
  <2> QED
    BY <1>2, <2>1, <2>2 DEF WorkLaws!Lands, WorkLands
<1>3. CASE ~clear /\ skip
  <2>1. WorkLaws!Visit(d, TRUE, FALSE)
    BY <1>1, <1>3
  <2>2. \E m \in 0..Len(workHist) : WorkLaws!Lands(d, m)
    BY <1>1, <2>1, WorkLaws!ForwardLands
  <2> QED
    BY <1>3, <2>2 DEF WorkLaws!Lands, WorkLands
<1>4. CASE ~clear /\ ~skip
  <2>1. WorkLaws!Visit(d, FALSE, FALSE)
    BY <1>1, <1>4
  <2>2. \E m \in 0..Len(workHist) : WorkLaws!Lands(d, m) /\ (m = Len(workHist) \/ workHist[m + 1] = d)
    BY <1>1, <2>1, WorkLaws!GotoLands
  <2> QED
    BY <2>2 DEF WorkLaws!Lands, WorkLands
<1> QED
  BY <1>2, <1>3, <1>4

LEMMA WorkReturns ==
    ASSUME WorkHistory, NEW skip \in BOOLEAN, WorkNav!GoBack(skip)
    PROVE  /\ WorkBelow(skip) \in WorkPlaces
           /\ \E m \in 0..Len(workHist) :
                /\ WorkLands(WorkBelow(skip), m)
                /\ WorkBelow(skip) = WorkHome \/ (m < Len(workHist) /\ workHist[m + 1] = WorkBelow(skip))
<1>1. WorkLaws!GoBack(skip) /\ WorkLaws!Tidy /\ WorkBelow(skip) = WorkLaws!Below(skip)
  BY WorkNavHasLaws DEF WorkHistory
<1>2. /\ WorkLaws!Below(skip) \in (WorkPlaces \ {WorkHome}) \cup {WorkHome}
      /\ \E m \in 0..Len(workHist) :
           /\ WorkLaws!Lands(WorkLaws!Below(skip), m)
           /\ WorkLaws!Below(skip) = WorkHome \/ (m < Len(workHist) /\ workHist[m + 1] = WorkLaws!Below(skip))
  BY <1>1, WorkLaws!BackLands
<1>3. WorkBelow(skip) \in WorkPlaces
  BY <1>1, <1>2, WorkPlacesAre
<1> QED
  BY <1>1, <1>2, <1>3 DEF WorkLaws!Lands, WorkLands

(* Where a step lands, the history is as it must be.                        *)
LEMMA WorkHistoryStays ==
    ASSUME WorkHistory, NEW d \in WorkPlaces, NEW m, WorkLands(d, m)
    PROVE  WorkHistory'
<1>1. CASE d = WorkHome
  BY <1>1 DEF WorkHistory, WorkLaws!Tidy, WorkLaws!Distinct, WorkLands
<1>2. CASE d # WorkHome
  <2>1. /\ Len(workHist) \in Nat /\ m \in 0..Len(workHist) /\ workCur' = d
        /\ workHist' \in Seq(WorkPlaces \ {WorkHome}) /\ Len(workHist') = m + 1
        /\ DOMAIN workHist = 1..Len(workHist) /\ DOMAIN (workHist') = 1..(m + 1)
        /\ \A j \in 1..m : workHist'[j] = workHist[j] /\ workHist[j] # d
        /\ workHist'[m + 1] = d
    BY <1>2 DEF WorkHistory, WorkLaws!Tidy, WorkLands
  <2>2. \A j, k \in DOMAIN workHist : workHist[j] = workHist[k] => j = k
    BY DEF WorkHistory, WorkLaws!Tidy, WorkLaws!Distinct
  <2>3. ASSUME NEW j \in 1..(m + 1), NEW k \in 1..(m + 1), workHist'[j] = workHist'[k] PROVE j = k
    BY <2>1, <2>2, <2>3
  <2>4. workHist' # <<>> /\ workHist'[Len(workHist')] = d
    BY <2>1
  <2> QED
    BY <2>1, <2>3, <2>4 DEF WorkHistory, WorkLaws!Tidy, WorkLaws!Distinct
<1> QED
  BY <1>1, <1>2

(* Views stay on top when none but them is put on them.                     *)
LEMMA OnTopStays ==
    ASSUME WorkHistory, NEW names, OnTop(names), NEW d \in WorkPlaces, NEW m, WorkLands(d, m),
           \/ d = WorkHome \/ d.view \in names \/ workCur.view \notin names
           \/ m < Len(workHist) /\ workHist[m + 1] = d
    PROVE  OnTop(names)'
<1>1. CASE d = WorkHome
  BY <1>1 DEF WorkLands, OnTop
<1>2. CASE d # WorkHome
  <2>1. /\ Len(workHist) \in Nat /\ m \in 0..Len(workHist)
        /\ Len(workHist') = m + 1 /\ \A j \in 1..m : workHist'[j] = workHist[j]
        /\ workHist'[m + 1] = d
    BY <1>2 DEF WorkHistory, WorkLaws!Tidy, WorkLands
  <2>2. \A j, k \in 1..Len(workHist) : j < k /\ workHist[j].view \in names => workHist[k].view \in names
    BY DEF OnTop
  <2>3. CASE d.view \in names
    BY <2>1, <2>2, <2>3 DEF OnTop
  <2>4. CASE workCur.view \notin names
    <3>1. Len(workHist) # 0 => workHist[Len(workHist)] = workCur
      BY DEF WorkHistory
    <3>2. \A j \in 1..Len(workHist) : workHist[j].view \notin names
      BY <2>1, <2>2, <2>4, <3>1
    <3> QED
      BY <2>1, <3>2 DEF OnTop
  <2>5. CASE d.view \notin names /\ m < Len(workHist) /\ workHist[m + 1] = d
    <3>1. \A j \in 1..m : workHist[j].view \notin names
      BY <2>1, <2>2, <2>5
    <3> QED
      BY <2>1, <3>1 DEF OnTop
  <2> QED
    BY <1>2, <2>3, <2>4, <2>5
<1> QED
  BY <1>1, <1>2

(* Off those views, none of them is in the history.                         *)
LEMMA NoneBelow ==
    ASSUME WorkHistory, NEW names, OnTop(names), workCur.view \notin names
    PROVE  \A j \in 1..Len(workHist) : workHist[j].view \notin names
<1>1. Len(workHist) \in Nat /\ (Len(workHist) # 0 => workHist[Len(workHist)] = workCur)
  BY DEF WorkHistory, WorkLaws!Tidy
<1> QED
  BY <1>1 DEF OnTop

\* Views that neither list addresses nor confirm the address of a signer.
QuietPlaces == {p \in WorkPlaces : p.view \notin AddressNames \cup SigningNames}

LEMMA QuietNames == OtherNames \subseteq WorkNames \ (AddressNames \cup SigningNames)
BY DEF AddressNames, SigningNames, OtherNames, WorkNames

LEMMA QuietOf ==
    ASSUME NEW v \in OtherNames
    PROVE  /\ WorkPlain(v) \in QuietPlaces
           /\ \A k \in WorkSeeds \cup {NoSeed} : Of(v, k) \in QuietPlaces
           /\ \A k \in WorkSeeds \cup {NoSeed}, m \in Nat : [Of(v, k) EXCEPT !.n = m] \in QuietPlaces
           /\ \A m \in Nat : [WorkPlain(v) EXCEPT !.n = m] \in QuietPlaces
<1>1. v \in WorkNames /\ v \notin AddressNames \cup SigningNames
  BY QuietNames
<1>2. \A p \in WorkPlaces : p.view = v => p \in QuietPlaces
  BY <1>1 DEF QuietPlaces
<1>3. /\ WorkPlain(v) \in WorkPlaces /\ WorkPlain(v).view = v
      /\ \A k \in WorkSeeds \cup {NoSeed} : Of(v, k) \in WorkPlaces /\ Of(v, k).view = v
  BY <1>1, WorkPlacesAre
<1>4. \A p \in WorkPlaces, m \in Nat : [p EXCEPT !.n = m] \in WorkPlaces /\ [p EXCEPT !.n = m].view = p.view
  BY WorkPlacesAre
<1> QED
  BY <1>2, <1>3, <1>4

LEMMA QuietPlacesAre ==
    /\ {WorkHome, WorkTools, SeedsMenu, SeedWanted, SelectFor("sign_message"), SelectFor("singlesig_addr"), AskSigType,
        Verified, Exported, DescriptorWanted, DescriptorShown, CardScript, CardDetails, Explorer, ImportSeed, Message,
        WrongCode, WorkError} \subseteq QuietPlaces
    /\ \A v \in {"ScanView", "ScanSeedQRView", "ScanWalletDescriptorView", "ScanAddressView"} :
         WorkPlain(v) \in QuietPlaces
    /\ \A m \in Nat : Confirm(m) \in QuietPlaces
<1>1. \A v \in OtherNames :
        /\ WorkPlain(v) \in QuietPlaces
        /\ \A m \in Nat : [WorkPlain(v) EXCEPT !.n = m] \in QuietPlaces
  BY QuietOf
<1>2. \A m \in Nat : Confirm(m) \in QuietPlaces
  BY <1>1 DEF OtherNames, Confirm
<1>3. \A v \in {"ScanView", "ScanSeedQRView", "ScanWalletDescriptorView", "ScanAddressView"} :
         WorkPlain(v) \in QuietPlaces
  BY <1>1 DEF OtherNames
<1>4. {WorkHome, WorkTools, SeedsMenu, SeedWanted, SelectFor("sign_message"), SelectFor("singlesig_addr"), AskSigType,
       Verified, Exported, DescriptorWanted, DescriptorShown, CardScript, CardDetails, Explorer, ImportSeed, Message,
       WrongCode, WorkError} \subseteq QuietPlaces
  <2>1. {WorkHome, WorkTools, SeedsMenu, SeedWanted, SelectFor("sign_message"), SelectFor("singlesig_addr"), AskSigType}
          \subseteq QuietPlaces
    BY <1>1 DEF OtherNames, WorkHome, WorkTools, SeedsMenu, SeedWanted, SelectFor, AskSigType
  <2>2. {Verified, Exported, DescriptorWanted, DescriptorShown, CardScript, CardDetails} \subseteq QuietPlaces
    BY <1>1 DEF OtherNames, Verified, Exported, DescriptorWanted, DescriptorShown, CardScript, CardDetails
  <2>3. {Explorer, ImportSeed, Message, WrongCode, WorkError} \subseteq QuietPlaces
    BY <1>1 DEF OtherNames, Explorer, ImportSeed, Message, WrongCode, WorkError
  <2> QED
    BY <2>1, <2>2, <2>3
<1> QED
  BY <1>2, <1>3, <1>4

LEMMA QuietPlacesOfKeys ==
    ASSUME NEW k \in WorkSeeds \cup {NoSeed}
    PROVE  /\ {Options(k), DiscardOf(k), Search(k), SearchMore(k), SearchAll(k), SearchExported(k), NotInBatch(k),
               NotFound(k), SigType(k), VerifyExport(k), ScanExported(k), AddressType(k), CustomAddressType(k),
               AccountThen(AddressType(k))} \subseteq QuietPlaces
           /\ \A m \in Nat : {ScriptType(k, m), CustomPath(k, m), Export(k, m), AccountThen(Export(k, m))} \subseteq QuietPlaces
<1>1. \A v \in OtherNames :
        Of(v, k) \in QuietPlaces /\ \A m \in Nat : [Of(v, k) EXCEPT !.n = m] \in QuietPlaces
  BY QuietOf
<1>2. {Options(k), DiscardOf(k), Search(k), NotInBatch(k), NotFound(k), SigType(k), VerifyExport(k), ScanExported(k),
       AddressType(k)} \subseteq QuietPlaces
  BY <1>1 DEF OtherNames, Options, DiscardOf, Search, NotInBatch, NotFound, SigType, VerifyExport, ScanExported, AddressType
<1>3. {SearchMore(k), SearchAll(k), SearchExported(k), CustomAddressType(k)} \subseteq QuietPlaces
  <2>1. Search(k) = Of("SeedAddressVerificationView", k) /\ AddressType(k) = Of("AddressType", k)
    BY DEF Search, AddressType
  <2>2. "SeedAddressVerificationView" \in OtherNames /\ "AddressType" \in OtherNames
    BY DEF OtherNames
  <2>3. /\ \A m \in Nat : [Search(k) EXCEPT !.n = m] \in QuietPlaces
        /\ \A m \in Nat : [AddressType(k) EXCEPT !.n = m] \in QuietPlaces
    BY <1>1, <2>1, <2>2
  <2> QED
    BY <2>3 DEF SearchMore, SearchAll, SearchExported, CustomAddressType
<1>4. ASSUME NEW m \in Nat
      PROVE  {ScriptType(k, m), CustomPath(k, m), Export(k, m)} \subseteq QuietPlaces
  BY <1>1 DEF OtherNames, ScriptType, CustomPath, Export
<1>5. ASSUME NEW m \in Nat
      PROVE  [view |-> "AccountNumberView", key |-> k, n |-> m] \in QuietPlaces
  <2>1. "AccountNumberView" \in OtherNames
    BY DEF OtherNames
  <2> QED
    BY <2>1, QuietNames DEF QuietPlaces, WorkPlaces
<1>6. ASSUME NEW v, NEW m
      PROVE  AccountThen([view |-> v, key |-> k, n |-> m])
               = [view |-> "AccountNumberView", key |-> k, n |-> IF v = "AddressType" THEN 2 ELSE m]
  BY DEF AccountThen
<1>7. AddressType(k) = [view |-> "AddressType", key |-> k, n |-> 0]
  BY DEF AddressType, Of, WorkPlain
<1>8. ASSUME NEW m \in Nat
      PROVE  Export(k, m) = [view |-> "SeedExportXpubQRFormatView", key |-> k, n |-> m]
  <2>1. Of("SeedExportXpubQRFormatView", k) = [view |-> "SeedExportXpubQRFormatView", key |-> k, n |-> 0]
    BY DEF Of, WorkPlain
  <2> QED
    BY <2>1 DEF Export
<1>9. AccountThen(AddressType(k)) \in QuietPlaces
  BY <1>5, <1>6, <1>7
<1>10. ASSUME NEW m \in Nat PROVE AccountThen(Export(k, m)) \in QuietPlaces
  <2>1. AccountThen(Export(k, m)) = [view |-> "AccountNumberView", key |-> k, n |-> m]
    BY <1>8 DEF AccountThen
  <2> QED
    BY <1>5, <2>1
<1> QED
  BY <1>2, <1>3, <1>4, <1>9, <1>10

(* What views set on the Controller keeps its attributes what they are.     *)
LEMMA SessionsAre ==
    ASSUME NEW s \in Sessions
    PROVE  /\ \A f \in Flows : Resuming(s, f) \in Sessions
           /\ Resumed(s) \in Sessions
           /\ \A a \in Addresses \cup {NoAddress} : [s EXCEPT !.address = a] \in Sessions
           /\ \A multi \in BOOLEAN : [s EXCEPT !.multi = multi] \in Sessions
           /\ \A w \in Descriptors \cup {CardSeed, NoSeed} : [s EXCEPT !.wallet = w] \in Sessions
           /\ \A k \in WorkSeeds \cup {NoSeed} : Exploring(s, k) \in Sessions
           /\ [s EXCEPT !.explored = NoSeed] \in Sessions
           /\ \A d \in Data \cup {NoData} : [s EXCEPT !.data = d] \in Sessions
           /\ \A b \in BOOLEAN : [s EXCEPT !.byCard = b] \in Sessions
           /\ FreshSession \in Sessions /\ ForgottenAtHome(s) \in Sessions
<1>1. /\ \A f \in Flows : Resuming(s, f) \in Sessions
      /\ \A a \in Addresses \cup {NoAddress} : [s EXCEPT !.address = a] \in Sessions
      /\ \A multi \in BOOLEAN : [s EXCEPT !.multi = multi] \in Sessions
  BY DEF Sessions, Resuming
<1>2. /\ \A w \in Descriptors \cup {CardSeed, NoSeed} : [s EXCEPT !.wallet = w] \in Sessions
      /\ [s EXCEPT !.explored = NoSeed] \in Sessions
  BY DEF Sessions
<1>3. /\ \A d \in Data \cup {NoData} : [s EXCEPT !.data = d] \in Sessions
      /\ \A b \in BOOLEAN : [s EXCEPT !.byCard = b] \in Sessions
  BY DEF Sessions
<1>4. Resumed(s) \in Sessions
  BY <1>1 DEF Resumed, Flows
<1>5. ASSUME NEW k \in WorkSeeds \cup {NoSeed}
      PROVE  Exploring(s, k) \in Sessions
  <2>1. (IF k # NoSeed THEN k ELSE s.wallet) \in WorkSeeds \cup Descriptors \cup {CardSeed, NoSeed}
    BY DEF Sessions
  <2>2. \A e \in WorkSeeds \cup Descriptors \cup {CardSeed, NoSeed} : [s EXCEPT !.explored = e] \in Sessions
    BY DEF Sessions
  <2> QED
    BY <2>1, <2>2 DEF Exploring
<1>6. FreshSession \in Sessions
  BY DEF FreshSession, Sessions, Flows
<1>7. ForgottenAtHome(s) \in Sessions
  <2>1. s.wallet \in Descriptors \cup {CardSeed, NoSeed} /\ s.data \in Data \cup {NoData}
    BY DEF Sessions
  <2>2. \A w \in Descriptors \cup {CardSeed, NoSeed} : [FreshSession EXCEPT !.wallet = w] \in Sessions
    BY <1>6 DEF Sessions
  <2>3. \A p \in Sessions, d \in Data \cup {NoData} : [p EXCEPT !.data = d] \in Sessions
    BY DEF Sessions
  <2>4. ForgottenAtHome(s) = [[FreshSession EXCEPT !.wallet = s.wallet] EXCEPT !.data = s.data]
    BY DEF ForgottenAtHome
  <2>5. [FreshSession EXCEPT !.wallet = s.wallet] \in Sessions
    BY <2>1, <2>2
  <2>6. [[FreshSession EXCEPT !.wallet = s.wallet] EXCEPT !.data = s.data] \in Sessions
    BY <2>1, <2>3, <2>5
  <2> QED
    BY <2>4, <2>6
<1> QED
  BY <1>1, <1>2, <1>3, <1>4, <1>5, <1>6, <1>7

LEMMA DataAre ==
    /\ \A k \in WorkSeeds \cup {NoSeed} : NewData(k) \in Data
    /\ \A d \in Data :
         /\ \A k \in WorkSeeds \cup {NoSeed} : [d EXCEPT !.seed = k] \in Data
         /\ \A m \in Texts \cup {NoText} : [d EXCEPT !.message = m] \in Data /\ [d EXCEPT !.pages = m] \in Data
         /\ \A k \in WorkSeeds \cup {CardSeed, NoSeed} : [d EXCEPT !.shown = k] \in Data
<1>1. \A k \in WorkSeeds \cup {NoSeed} : NewData(k) \in Data
  BY DEF NewData, Data
<1>2. ASSUME NEW d \in Data
      PROVE  /\ \A k \in WorkSeeds \cup {NoSeed} : [d EXCEPT !.seed = k] \in Data
             /\ \A m \in Texts \cup {NoText} : [d EXCEPT !.message = m] \in Data
  BY DEF Data
<1>3. ASSUME NEW d \in Data
      PROVE  /\ \A m \in Texts \cup {NoText} : [d EXCEPT !.pages = m] \in Data
             /\ \A k \in WorkSeeds \cup {CardSeed, NoSeed} : [d EXCEPT !.shown = k] \in Data
  BY DEF Data
<1> QED
  BY <1>1, <1>2, <1>3

LEMMA DataOf ==
    ASSUME NEW s \in Sessions, s.data # NoData
    PROVE  /\ s.data \in Data
           /\ \A k \in WorkSeeds \cup {NoSeed} : [s EXCEPT !.data.seed = k] \in Sessions
           /\ \A m \in Texts \cup {NoText} : [s EXCEPT !.data.pages = m] \in Sessions
           /\ \A k \in WorkSeeds \cup {CardSeed, NoSeed} : [s EXCEPT !.data.shown = k] \in Sessions
<1>1. s.data \in Data
  BY DEF Sessions
<1>2. \A d \in Data : [s EXCEPT !.data = d] \in Sessions
  BY SessionsAre
<1>3. /\ \A k : [s EXCEPT !.data.seed = k] = [s EXCEPT !.data = [s.data EXCEPT !.seed = k]]
      /\ \A m : [s EXCEPT !.data.pages = m] = [s EXCEPT !.data = [s.data EXCEPT !.pages = m]]
      /\ \A k : [s EXCEPT !.data.shown = k] = [s EXCEPT !.data = [s.data EXCEPT !.shown = k]]
  OBVIOUS
<1>4. /\ \A k \in WorkSeeds \cup {NoSeed} : [s.data EXCEPT !.seed = k] \in Data
      /\ \A m \in Texts \cup {NoText} : [s.data EXCEPT !.pages = m] \in Data
      /\ \A k \in WorkSeeds \cup {CardSeed, NoSeed} : [s.data EXCEPT !.shown = k] \in Data
  BY <1>1, DataAre
<1> QED
  BY <1>1, <1>2, <1>3, <1>4

(* The session that a view is shown with.                                   *)
LEMMA ShownIs ==
    ASSUME NEW d \in WorkPlaces, NEW s \in Sessions, ShowsNext(d, s)
    PROVE  /\ workCtl' \in Sessions
           /\ d.view = "AddressType" => IsExplored(d)'
           /\ d.view \in AddressNames \cup SigningNames => workCtl' = s
<1>1. /\ WorkHome.view = "MainMenuView" /\ Confirm(0).view = "SeedSignMessageConfirmMessageView"
      /\ d.key \in WorkSeeds \cup {NoSeed}
  <2>1. "SeedSignMessageConfirmMessageView" \in WorkNames /\ 0 \in Nat
    BY DEF WorkNames, OtherNames
  <2>2. WorkPlain("SeedSignMessageConfirmMessageView") \in WorkPlaces
    BY <2>1, WorkPlacesAre
  <2>3. Confirm(0).view = WorkPlain("SeedSignMessageConfirmMessageView").view
    BY <2>1, <2>2, WorkPlacesAre DEF Confirm
  <2> QED
    BY <2>1, <2>3, WorkPlacesAre
<1>2. CASE d = WorkHome
  <2>1. workCtl' = ForgottenAtHome(s)
    BY <1>1, <1>2 DEF ShowsNext
  <2> QED
    BY <1>1, <1>2, <2>1, SessionsAre DEF AddressNames, SigningNames
<1>3. CASE d # WorkHome /\ d.view = "AddressType"
  <2>1. workCtl' = Exploring(s, d.key)
    BY <1>1, <1>3 DEF ShowsNext
  <2>2. s \in Sessions /\ workCtl' \in Sessions
    BY <1>1, <2>1, SessionsAre
  <2>3. /\ workCtl'.explored = IF d.key # NoSeed THEN d.key ELSE s.wallet
        /\ workCtl'.wallet = s.wallet
    BY <2>1, <2>2 DEF Exploring, Sessions
  <2> QED
    BY <1>3, <2>2, <2>3 DEF IsExplored, AddressNames, SigningNames
<1>4. CASE d # WorkHome /\ d.view = Confirm(0).view
  <2>1. workCtl' = Paged(s)
    BY <1>1, <1>4 DEF ShowsNext
  <2>2. Paged(s) \in Sessions
    <3>1. CASE s.data # NoData /\ s.data.pages = NoText
      <4>1. s.data \in Data /\ \A m \in Texts \cup {NoText} : [s EXCEPT !.data.pages = m] \in Sessions
        BY <3>1, DataOf
      <4>2. s.data.message \in Texts \cup {NoText}
        BY <4>1 DEF Data
      <4> QED
        BY <3>1, <4>1, <4>2 DEF Paged
    <3> QED
      BY <3>1 DEF Paged
  <2> QED
    BY <1>1, <1>4, <2>1, <2>2 DEF AddressNames, SigningNames
<1>5. CASE d # WorkHome /\ d.view # "AddressType" /\ d.view # Confirm(0).view
  <2>1. workCtl' = s
    BY <1>5 DEF ShowsNext
  <2> QED
    BY <1>5, <2>1
<1> QED
  BY <1>2, <1>3, <1>4, <1>5

\* A step between views that neither show addresses nor have one confirmed.
Quietly == workCur.view \notin AddressNames \cup SigningNames /\ signed' = signed /\ workLoaded' \subseteq WorkSeeds

LEMMA QuietLands ==
    ASSUME WorkInv, Quietly, NEW d \in QuietPlaces, NEW m, WorkLands(d, m), NEW s \in Sessions, ShowsNext(d, s)
    PROVE  WorkInv'
<1>1. d \in WorkPlaces /\ d.view \notin AddressNames \cup SigningNames /\ workCur' = d
  BY DEF QuietPlaces, WorkLands
<1>2. WorkHistory'
  BY <1>1, WorkHistoryStays DEF WorkInv
<1>3. OnTop(AddressNames)' /\ OnTop(SigningNames)'
  <2>1. OnTop(AddressNames)'
    BY <1>1, OnTopStays DEF WorkInv, Quietly
  <2>2. OnTop(SigningNames)'
    BY <1>1, OnTopStays DEF WorkInv, Quietly
  <2> QED
    BY <2>1, <2>2
<1>4. workCtl' \in Sessions /\ (d.view = "AddressType" => IsExplored(d)')
  BY <1>1, ShownIs
<1>5. WorkTypes'
  BY <1>4 DEF WorkTypes, Quietly
<1>6. AddressesAreExplored'
  <2>1. workCur'.view \notin AddressNames
    BY <1>1
  <2>2. Len(workHist') \in Nat /\ (Len(workHist') # 0 => workHist'[Len(workHist')] = workCur')
    BY <1>2 DEF WorkHistory, WorkLaws!Tidy
  <2>3. \A j \in 1..Len(workHist') : workHist'[j].view \notin AddressNames
    BY <1>3, <2>1, <2>2 DEF OnTop
  <2> QED
    BY <2>3 DEF AddressesAreExplored
<1>7. (workCur.view = "AddressType" => IsExplored(workCur))'
  BY <1>1, <1>4 DEF IsExplored
<1>8. AddressIsSigners' /\ ConfirmedIsSigner'
  BY <1>1 DEF AddressIsSigners, SigningNames, ConfirmedIsSigner, Quietly, WorkInv
<1> QED
  BY <1>2, <1>3, <1>5, <1>6, <1>7, <1>8 DEF WorkInv

LEMMA QuietGoes ==
    ASSUME WorkInv, Quietly, NEW d \in QuietPlaces, NEW s \in Sessions,
           NEW skip \in BOOLEAN, NEW clear \in BOOLEAN, WorkVisit(d, skip, clear, s)
    PROVE  WorkInv'
<1>1. WorkNav!Visit(d, skip, clear) /\ ShowsNext(d, s)
  BY DEF WorkVisit
<1>2. d \in WorkPlaces
  BY DEF QuietPlaces
<1>3. \E m \in 0..Len(workHist) : WorkLands(d, m)
  BY <1>1, <1>2, WorkVisits DEF WorkInv
<1> QED
  BY <1>1, <1>3, QuietLands

LEMMA QuietReturns ==
    ASSUME WorkInv, Quietly, NEW s \in Sessions, NEW skip \in BOOLEAN, WorkBackOver(skip, s)
    PROVE  WorkInv'
<1>1. WorkNav!GoBack(skip) /\ ShowsNext(WorkBelow(skip), s)
  BY DEF WorkBackOver
<1>2. PICK m \in 0..Len(workHist) :
        /\ WorkLands(WorkBelow(skip), m)
        /\ WorkBelow(skip) = WorkHome \/ (m < Len(workHist) /\ workHist[m + 1] = WorkBelow(skip))
  BY <1>1, WorkReturns DEF WorkInv
<1>3. WorkBelow(skip) \in WorkPlaces
  BY <1>1, WorkReturns DEF WorkInv
<1>4. WorkBelow(skip).view \notin AddressNames \cup SigningNames
  <2>1. CASE WorkBelow(skip) = WorkHome
    BY <2>1, WorkPlacesAre DEF AddressNames, SigningNames
  <2>2. CASE m < Len(workHist) /\ workHist[m + 1] = WorkBelow(skip)
    <3>1. m + 1 \in 1..Len(workHist)
      BY <1>2, <2>2 DEF WorkInv, WorkHistory, WorkLaws!Tidy
    <3>2. /\ \A j \in 1..Len(workHist) : workHist[j].view \notin AddressNames
          /\ \A j \in 1..Len(workHist) : workHist[j].view \notin SigningNames
      BY NoneBelow DEF WorkInv, Quietly
    <3> QED
      BY <2>2, <3>1, <3>2
  <2> QED
    BY <1>2, <2>1, <2>2
<1>5. WorkBelow(skip) \in QuietPlaces
  BY <1>3, <1>4 DEF QuietPlaces
<1> QED
  BY <1>1, <1>2, <1>5, QuietLands

(* The same for each way to name the next view.                             *)
LEMMA QuietWays ==
    ASSUME WorkInv, Quietly, NEW s \in Sessions
    PROVE  /\ \A d \in QuietPlaces : WorkGoto(d, s) \/ WorkForward(d, s) \/ WorkRestart(d, s) => WorkInv'
           /\ WorkBack(s) => WorkInv'
           /\ WorkFail => WorkInv'
<1>1. ASSUME NEW d \in QuietPlaces, WorkGoto(d, s) \/ WorkForward(d, s) \/ WorkRestart(d, s)
      PROVE  WorkInv'
  <2>1. \E skip, clear \in BOOLEAN : WorkVisit(d, skip, clear, s)
    BY <1>1 DEF WorkGoto, WorkForward, WorkRestart
  <2> QED
    BY <2>1, QuietGoes
<1>2. ASSUME WorkBack(s)
      PROVE  WorkInv'
  BY <1>2, QuietReturns DEF WorkBack
<1>3. ASSUME WorkFail
      PROVE  WorkInv'
  <2>1. WorkVisit(WorkError, FALSE, TRUE, workCtl) /\ workCtl \in Sessions /\ WorkError \in QuietPlaces
    BY <1>3, QuietPlacesAre DEF WorkFail, WorkRestart, WorkInv, WorkTypes
  <2> QED
    BY <2>1, QuietGoes
<1> QED
  BY <1>1, <1>2, <1>3

LEMMA WorkFacts ==
    ASSUME WorkInv
    PROVE  /\ workCtl \in Sessions /\ workLoaded \subseteq WorkSeeds
           /\ workCur \in WorkPlaces /\ workCur.key \in WorkSeeds \cup {NoSeed} /\ workCur.n \in Nat
           /\ KeepSeeds => workLoaded' \subseteq WorkSeeds /\ signed' = signed
<1>1. workCtl \in Sessions /\ workLoaded \subseteq WorkSeeds
  BY DEF WorkInv, WorkTypes
<1>2. workCur \in WorkPlaces
  BY WorkPlacesAre DEF WorkInv, WorkHistory, WorkLaws!Tidy
<1>3. workCur.key \in WorkSeeds \cup {NoSeed} /\ workCur.n \in Nat
  BY <1>2, WorkPlacesAre
<1>4. KeepSeeds => workLoaded' \subseteq WorkSeeds /\ signed' = signed
  BY <1>1 DEF KeepSeeds
<1> QED
  BY <1>1, <1>2, <1>3, <1>4

LEMMA QuietHere ==
    ASSUME workCur.view \in OtherNames \/ workCur \in QuietPlaces, workLoaded' \subseteq WorkSeeds, signed' = signed
    PROVE  Quietly
BY QuietNames DEF Quietly, QuietPlaces

LEMMA MenusHold == ASSUME WorkInv, FromMainMenus PROVE WorkInv'
<1>1. workCtl \in Sessions /\ workLoaded \subseteq WorkSeeds /\ KeepSeeds
  BY WorkFacts DEF FromMainMenus
<1>2. workCur \in QuietPlaces
  BY QuietPlacesAre DEF FromMainMenus
<1>3. Quietly
  BY <1>1, <1>2, QuietHere, WorkFacts
<1>4. /\ \A d \in QuietPlaces : WorkGoto(d, workCtl) \/ WorkForward(d, workCtl) => WorkInv'
      /\ WorkBack(workCtl) => WorkInv'
  BY <1>1, <1>3, QuietWays
<1>5. {WorkPlain("ScanView"), WorkTools, SeedsMenu, SeedWanted, Explorer, WorkPlain("ScanAddressView"), ImportSeed}
        \cup {Options(k) : k \in workLoaded} \subseteq QuietPlaces
  BY <1>1, QuietPlacesAre, QuietPlacesOfKeys
<1> QED
  BY <1>4, <1>5 DEF FromMainMenus

LEMMA LoadingHoldsSeeds == ASSUME WorkInv, Loading PROVE WorkInv'
<1>1. workCtl \in Sessions /\ workLoaded \subseteq WorkSeeds
  BY WorkFacts
<1>2. workCur.view \in OtherNames
  BY DEF Loading, OnScreen, OtherNames
<1>3. Quietly
  BY <1>1, <1>2, QuietHere DEF Loading
<1>4. Resumed(workCtl) \in Sessions
  BY <1>1, SessionsAre
<1>5. /\ \A d \in QuietPlaces : WorkRestart(d, workCtl) \/ WorkRestart(d, Resumed(workCtl)) => WorkInv'
      /\ WorkBack(workCtl) => WorkInv'
  BY <1>1, <1>3, <1>4, QuietWays
<1>6. {ImportSeed} \cup {Options(k) : k \in WorkSeeds} \subseteq QuietPlaces
  BY QuietPlacesAre, QuietPlacesOfKeys
<1> QED
  BY <1>5, <1>6 DEF Loading

LEMMA ResumingHolds == ASSUME WorkInv, ResumeWithSeed PROVE WorkInv'
<1>1. workCtl \in Sessions /\ workCur.key \in WorkSeeds \cup {NoSeed}
  BY WorkFacts
<1>2. workCur.view \in OtherNames
  BY DEF ResumeWithSeed, OnScreen, OtherNames
<1>3. Quietly
  BY <1>2, QuietHere, WorkFacts DEF ResumeWithSeed
<1>4. Resumed(workCtl) \in Sessions
  BY <1>1, SessionsAre
<1>5. {Search(workCur.key), ScriptType(workCur.key, 0), Confirm(0)} \subseteq QuietPlaces
  <2>1. 0 \in Nat
    OBVIOUS
  <2> QED
    BY <1>1, <2>1, QuietPlacesAre, QuietPlacesOfKeys
<1>6. /\ \A d \in QuietPlaces : WorkForward(d, workCtl) \/ WorkForward(d, Resumed(workCtl)) => WorkInv'
      /\ WorkFail => WorkInv'
  BY <1>1, <1>3, <1>4, QuietWays
<1>7. ASSUME workCtl.data # NoData, WorkForward(Confirm(0), [workCtl EXCEPT !.data.seed = workCur.key])
      PROVE  WorkInv'
  <2>1. [workCtl EXCEPT !.data.seed = workCur.key] \in Sessions
    BY <1>1, <1>7, DataOf
  <2> QED
    BY <1>3, <1>5, <1>7, <2>1, QuietWays
<1> QED
  BY <1>5, <1>6, <1>7 DEF ResumeWithSeed

LEMMA OptionsHold == ASSUME WorkInv, FromOptions PROVE WorkInv'
<1>1. workCtl \in Sessions /\ workCur.key \in WorkSeeds \cup {NoSeed}
  BY WorkFacts
<1>2. workCur.view \in OtherNames
  BY DEF FromOptions, OnScreen, OtherNames
<1>3. Quietly
  BY <1>2, QuietHere, WorkFacts DEF FromOptions
<1> DEFINE s == Resuming(workCtl, "address_explorer")
           u == [Resuming(workCtl, "sign_message") EXCEPT !.data = NewData(workCur.key)]
<1>4. s \in Sessions /\ u \in Sessions
  <2>1. s \in Sessions /\ Resuming(workCtl, "sign_message") \in Sessions
    BY <1>1, SessionsAre DEF Flows
  <2>2. NewData(workCur.key) \in Data
    BY <1>1, DataAre
  <2> QED
    BY <2>1, <2>2, SessionsAre
<1>5. {WorkHome, SigType(workCur.key), ScriptType(workCur.key, 0), WorkPlain("ScanView"), DiscardOf(workCur.key)}
        \subseteq QuietPlaces
  <2>1. 0 \in Nat
    OBVIOUS
  <2> QED
    BY <1>1, <2>1, QuietPlacesAre, QuietPlacesOfKeys
<1> HIDE DEF s, u
<1>6. \A d \in QuietPlaces : WorkGoto(d, workCtl) \/ WorkGoto(d, s) \/ WorkGoto(d, u) => WorkInv'
  BY <1>1, <1>3, <1>4, QuietWays
<1> QED
  BY <1>5, <1>6 DEF FromOptions, s, u

LEMMA DiscardHolds == ASSUME WorkInv, DiscardSeed PROVE WorkInv'
<1>1. workCtl \in Sessions /\ workCur.key \in WorkSeeds \cup {NoSeed} /\ workLoaded \subseteq WorkSeeds
  BY WorkFacts
<1>2. workCur.view \in OtherNames
  BY DEF DiscardSeed, OnScreen, OtherNames
<1>3. Quietly
  BY <1>1, <1>2, QuietHere DEF DiscardSeed
<1>4. {Options(workCur.key), WorkHome} \subseteq QuietPlaces
  BY <1>1, QuietPlacesAre, QuietPlacesOfKeys
<1>5. \A d \in QuietPlaces : WorkForward(d, workCtl) \/ WorkRestart(d, workCtl) => WorkInv'
  BY <1>1, <1>3, QuietWays
<1> QED
  BY <1>4, <1>5 DEF DiscardSeed

LEMMA VerifyInIs ==
    ASSUME NEW s \in Sessions, NEW multi \in BOOLEAN
    PROVE  VerifyIn(s, multi)[1] \in QuietPlaces /\ VerifyIn(s, multi)[2] \in Sessions
<1> DEFINE t == [s EXCEPT !.multi = multi]
<1>1. t \in Sessions
  BY SessionsAre
<1>2. Resuming(t, "multisig_addr") \in Sessions
  BY <1>1, SessionsAre DEF Flows
<1>3. SelectFor("singlesig_addr") \in QuietPlaces /\ DescriptorWanted \in QuietPlaces /\ Search(NoSeed) \in QuietPlaces
  BY QuietPlacesAre, QuietPlacesOfKeys
<1>4. VerifyIn(s, multi) =
        IF ~multi THEN <<SelectFor("singlesig_addr"), t>>
        ELSE IF s.wallet # NoSeed THEN <<Search(NoSeed), t>>
        ELSE <<DescriptorWanted, Resuming(t, "multisig_addr")>>
  BY DEF VerifyIn
<1> HIDE DEF t
<1> QED
  BY <1>1, <1>2, <1>3, <1>4

LEMMA ScanAddressHolds == ASSUME WorkInv, ScanAddress PROVE WorkInv'
<1>1. workCtl \in Sessions
  BY WorkFacts
<1>2. workCur.view \in OtherNames
  BY DEF ScanAddress, OtherNames
<1>3. Quietly
  BY <1>2, QuietHere, WorkFacts DEF ScanAddress
<1>4. PICK a \in Addresses :
        LET s == [workCtl EXCEPT !.address = a]
        IN IF Kind(a) = "either" THEN WorkForward(AskSigType, s)
           ELSE LET to == VerifyIn(s, Kind(a) = "multi") IN WorkForward(to[1], to[2])
  BY DEF ScanAddress
<1> DEFINE s == [workCtl EXCEPT !.address = a]
           to == VerifyIn(s, Kind(a) = "multi")
<1>5. s \in Sessions
  BY <1>1, SessionsAre
<1>6. to[1] \in QuietPlaces /\ to[2] \in Sessions
  BY <1>5, VerifyInIs
<1>7. WorkForward(AskSigType, s) \/ WorkForward(to[1], to[2])
  BY <1>4
<1> HIDE DEF s, to
<1>8. CASE WorkForward(AskSigType, s)
  BY <1>3, <1>5, <1>8, QuietPlacesAre, QuietWays
<1>9. CASE WorkForward(to[1], to[2])
  BY <1>3, <1>6, <1>9, QuietWays
<1> QED
  BY <1>7, <1>8, <1>9

LEMMA ChooseSigTypeHolds == ASSUME WorkInv, ChooseSigType PROVE WorkInv'
<1>1. workCtl \in Sessions
  BY WorkFacts
<1>2. workCur \in QuietPlaces
  BY QuietPlacesAre DEF ChooseSigType
<1>3. Quietly
  BY <1>2, QuietHere, WorkFacts DEF ChooseSigType
<1>4. CASE WorkBack([workCtl EXCEPT !.address = NoAddress])
  <2>1. [workCtl EXCEPT !.address = NoAddress] \in Sessions
    BY <1>1, SessionsAre
  <2> QED
    BY <1>3, <1>4, <2>1, QuietWays
<1>5. ASSUME NEW multi \in BOOLEAN, WorkGoto(VerifyIn(workCtl, multi)[1], VerifyIn(workCtl, multi)[2])
      PROVE  WorkInv'
  <2>1. VerifyIn(workCtl, multi)[1] \in QuietPlaces /\ VerifyIn(workCtl, multi)[2] \in Sessions
    BY <1>1, VerifyInIs
  <2> QED
    BY <1>3, <1>5, <2>1, QuietWays
<1> QED
  BY <1>4, <1>5 DEF ChooseSigType

LEMMA ScanMessageHolds == ASSUME WorkInv, ScanMessage PROVE WorkInv'
<1>1. workCtl \in Sessions
  BY WorkFacts
<1>2. workCur.view \in OtherNames
  BY DEF ScanMessage, OnScreen, OtherNames
<1>3. Quietly
  BY <1>2, QuietHere, WorkFacts DEF ScanMessage
<1>4. Confirm(0) \in QuietPlaces /\ SelectFor("sign_message") \in QuietPlaces /\ Message \in QuietPlaces
  <2>1. 0 \in Nat
    OBVIOUS
  <2> QED
    BY <2>1, QuietPlacesAre
<1>5. ASSUME NEW m \in Texts
      PROVE  [workCtl EXCEPT !.data = WithMessage(workCtl, m)] \in Sessions
  <2>1. WithMessage(workCtl, m) \in Data
    <3>1. CASE workCtl.data = NoData
      <4>1. NewData(NoSeed) \in Data
        BY DataAre
      <4> QED
        BY <3>1, <4>1, DataAre DEF WithMessage
    <3>2. CASE workCtl.data # NoData
      <4>1. workCtl.data \in Data
        BY <1>1, <3>2, DataOf
      <4> QED
        BY <3>2, <4>1, DataAre DEF WithMessage
    <3> QED
      BY <3>1, <3>2
  <2> QED
    BY <1>1, <2>1, SessionsAre
<1>6. ASSUME NEW s \in Sessions, NEW d \in {Confirm(0), SelectFor("sign_message"), Message}, WorkGoto(d, s)
      PROVE  WorkInv'
  BY <1>3, <1>4, <1>6, QuietWays
<1>7. Resumed(workCtl) \in Sessions
  BY <1>1, SessionsAre
<1> QED
  BY <1>1, <1>5, <1>6, <1>7 DEF ScanMessage

LEMMA ScanSeedHolds == ASSUME WorkInv, ScanSeedOrDescriptor PROVE WorkInv'
<1>1. workCtl \in Sessions
  BY WorkFacts
<1>2. workCur.view \in OtherNames
  BY DEF ScanSeedOrDescriptor, OtherNames
<1>3. Quietly
  BY <1>2, QuietHere, WorkFacts DEF ScanSeedOrDescriptor
<1>4. SeedWanted \in QuietPlaces /\ DescriptorShown \in QuietPlaces
  BY QuietPlacesAre
<1>5. CASE WorkGoto(SeedWanted, workCtl)
  BY <1>1, <1>3, <1>4, <1>5, QuietWays
<1>6. ASSUME NEW w \in Descriptors, WorkForward(DescriptorShown, [workCtl EXCEPT !.wallet = w])
      PROVE  WorkInv'
  <2>1. [workCtl EXCEPT !.wallet = w] \in Sessions
    BY <1>1, SessionsAre
  <2> QED
    BY <1>3, <1>4, <1>6, <2>1, QuietWays
<1> QED
  BY <1>5, <1>6 DEF ScanSeedOrDescriptor

LEMMA ScanExportedHolds == ASSUME WorkInv, ScanExportedAddress PROVE WorkInv'
<1>1. workCtl \in Sessions /\ workCur.key \in WorkSeeds \cup {NoSeed}
  BY WorkFacts
<1>2. workCur.view \in OtherNames
  BY DEF ScanExportedAddress, OnScreen, OtherNames
<1>3. Quietly
  BY <1>2, QuietHere, WorkFacts DEF ScanExportedAddress
<1>4. SearchExported(workCur.key) \in QuietPlaces /\ Exported \in QuietPlaces
  BY <1>1, QuietPlacesAre, QuietPlacesOfKeys
<1>5. CASE WorkForward(Exported, workCtl)
  BY <1>1, <1>3, <1>4, <1>5, QuietWays
<1>6. ASSUME NEW a \in Addresses,
             WorkForward(SearchExported(workCur.key), [workCtl EXCEPT !.address = a, !.multi = FALSE])
      PROVE  WorkInv'
  <2>1. [workCtl EXCEPT !.address = a] \in Sessions
    BY <1>1, SessionsAre
  <2>2. [[workCtl EXCEPT !.address = a] EXCEPT !.multi = FALSE] \in Sessions
    BY <2>1, SessionsAre
  <2>3. [workCtl EXCEPT !.address = a, !.multi = FALSE] \in Sessions
    BY <2>2
  <2> QED
    BY <1>3, <1>4, <1>6, <2>3, QuietWays
<1> QED
  BY <1>5, <1>6 DEF ScanExportedAddress

LEMMA NothingScannedHolds == ASSUME WorkInv, NothingScanned PROVE WorkInv'
<1>1. workCtl \in Sessions
  BY WorkFacts
<1>2. workCur.view \in OtherNames
  BY DEF NothingScanned, WorkScanners, OtherNames
<1>3. Quietly
  BY <1>2, QuietHere, WorkFacts DEF NothingScanned
<1>4. {WorkHome, Message, WrongCode} \subseteq QuietPlaces
  BY QuietPlacesAre
<1>5. Resumed(workCtl) \in Sessions
  BY <1>1, SessionsAre
<1>6. \A d \in QuietPlaces : WorkGoto(d, workCtl) \/ WorkForward(d, workCtl) \/ WorkGoto(d, Resumed(workCtl)) => WorkInv'
  BY <1>1, <1>3, <1>5, QuietWays
<1> QED
  BY <1>4, <1>6 DEF NothingScanned

LEMMA AfterMessageHolds == ASSUME WorkInv, AfterMessage PROVE WorkInv'
<1>1. workCtl \in Sessions
  BY WorkFacts
<1>2. workCur \in QuietPlaces
  BY QuietPlacesAre DEF AfterMessage
<1>3. Quietly
  BY <1>2, QuietHere, WorkFacts DEF AfterMessage
<1>4. CASE WorkRestart(WorkHome, workCtl)
  BY <1>1, <1>3, <1>4, QuietPlacesAre, QuietWays
<1>5. CASE WorkBackOver(TRUE, workCtl)
  BY <1>1, <1>3, <1>5, QuietReturns
<1> QED
  BY <1>4, <1>5 DEF AfterMessage

LEMMA PickSeedHolds == ASSUME WorkInv, PickSeed PROVE WorkInv'
<1>1. workCtl \in Sessions /\ workLoaded \subseteq WorkSeeds
  BY WorkFacts
<1>2. workCur \in QuietPlaces
  BY QuietPlacesAre DEF PickSeed
<1>3. Quietly
  BY <1>2, QuietHere, WorkFacts DEF PickSeed
<1> DEFINE s == Resuming(workCtl, IF workCur = SelectFor("sign_message") THEN "sign_message" ELSE "singlesig_addr")
<1>4. s \in Sessions
  BY <1>1, SessionsAre DEF Flows
<1>5. \/ WorkBack(workCtl) \/ WorkBack(s) \/ WorkFail
      \/ \E k \in workLoaded : WorkGoto(Search(k), workCtl)
      \/ \E k \in workLoaded : workCtl.data # NoData /\ WorkGoto(Confirm(0), [workCtl EXCEPT !.data.seed = k])
      \/ WorkGoto(CardScript, s) \/ WorkGoto(WorkPlain("ScanView"), s) \/ WorkGoto(SeedWanted, s)
      \/ WorkRestart(WorkError, [s EXCEPT !.byCard = TRUE])
      \/ workCtl.data # NoData /\ WorkGoto(Confirm(0), [s EXCEPT !.byCard = TRUE, !.data.seed = NoSeed])
  BY DEF PickSeed
<1>6. Confirm(0) \in QuietPlaces /\ {WorkError, CardScript, SeedWanted, WorkPlain("ScanView")} \subseteq QuietPlaces
  <2>1. 0 \in Nat
    OBVIOUS
  <2> QED
    BY <2>1, QuietPlacesAre
<1>7. ASSUME NEW k \in workLoaded
      PROVE  /\ Search(k) \in QuietPlaces
             /\ workCtl.data # NoData => [workCtl EXCEPT !.data.seed = k] \in Sessions
  BY <1>1, QuietPlacesOfKeys, DataOf
<1>8. [s EXCEPT !.byCard = TRUE] \in Sessions
  BY <1>4, SessionsAre
<1>9. ASSUME workCtl.data # NoData
      PROVE  [s EXCEPT !.byCard = TRUE, !.data.seed = NoSeed] \in Sessions
  <2> DEFINE t == [s EXCEPT !.byCard = TRUE]
  <2>1. t \in Sessions /\ t.data = workCtl.data
    BY <1>1, <1>8 DEF Resuming, Sessions
  <2>2. [t EXCEPT !.data.seed = NoSeed] \in Sessions
    BY <1>9, <2>1, DataOf
  <2> QED
    BY <2>2
<1> HIDE DEF s
<1>10. WorkBack(workCtl) \/ WorkBack(s) \/ WorkFail => WorkInv'
  BY <1>1, <1>3, <1>4, QuietWays
<1>11. \A d \in QuietPlaces : WorkGoto(d, workCtl) \/ WorkGoto(d, s) \/ WorkRestart(d, [s EXCEPT !.byCard = TRUE]) => WorkInv'
  BY <1>1, <1>3, <1>4, <1>8, QuietWays
<1>12. ASSUME NEW t \in Sessions, WorkGoto(Confirm(0), t)
       PROVE  WorkInv'
  BY <1>3, <1>6, <1>12, QuietWays
<1> QED
  BY <1>5, <1>6, <1>7, <1>9, <1>10, <1>11, <1>12

LEMMA SearchHolds == ASSUME WorkInv, SearchAddress \/ AfterSearch PROVE WorkInv'
<1>1. workCtl \in Sessions /\ workCur.key \in WorkSeeds \cup {NoSeed}
  BY WorkFacts
<1>2. workCur.view \in OtherNames \/ workCur \in QuietPlaces
  <2>1. NotInBatch(NoSeed) \in QuietPlaces /\ NotFound(NoSeed) \in QuietPlaces
    BY QuietPlacesOfKeys
  <2>2. CASE SearchAddress
    BY <2>2 DEF SearchAddress, OnScreen, OtherNames
  <2>3. CASE AfterSearch
    <3>1. \A p : p \in WorkPlaces /\ p.view \in {NotInBatch(NoSeed).view, NotFound(NoSeed).view} => p \in QuietPlaces
      BY <2>1 DEF QuietPlaces
    <3> QED
      BY <2>3, <3>1, WorkFacts, QuietPlacesAre DEF AfterSearch
  <2> QED
    BY <2>2, <2>3
<1>3. Quietly
  BY <1>2, QuietHere, WorkFacts DEF SearchAddress, AfterSearch
<1>4. {WorkHome, Exported, Verified, NotFound(workCur.key), NotInBatch(workCur.key), SearchMore(workCur.key),
       SearchAll(workCur.key)} \subseteq QuietPlaces
  BY <1>1, QuietPlacesAre, QuietPlacesOfKeys
<1>5. [workCtl EXCEPT !.wallet = NoSeed] \in Sessions
  BY <1>1, SessionsAre
<1>6. \A d \in QuietPlaces : WorkGoto(d, workCtl) \/ WorkGoto(d, [workCtl EXCEPT !.wallet = NoSeed]) => WorkInv'
  BY <1>1, <1>3, <1>5, QuietWays
<1>7. CASE SearchAddress
  BY <1>4, <1>6, <1>7 DEF SearchAddress
<1>8. CASE AfterSearch
  BY <1>4, <1>6, <1>8 DEF AfterSearch
<1> QED
  BY <1>7, <1>8

LEMMA DescriptorsHold == ASSUME WorkInv, FindDescriptor \/ ConfirmDescriptor PROVE WorkInv'
<1>1. workCtl \in Sessions
  BY WorkFacts
<1>2. workCur \in QuietPlaces
  BY QuietPlacesAre DEF FindDescriptor, ConfirmDescriptor
<1>3. Quietly
  BY <1>2, QuietHere, WorkFacts DEF FindDescriptor, ConfirmDescriptor
<1>4. {WorkPlain("ScanWalletDescriptorView"), WorkHome, DescriptorShown, Search(NoSeed), AddressType(NoSeed)} \subseteq QuietPlaces
  BY QuietPlacesAre, QuietPlacesOfKeys
<1>5. /\ \A w \in Descriptors \cup {NoSeed} : [workCtl EXCEPT !.wallet = w] \in Sessions
      /\ Resumed(workCtl) \in Sessions
  BY <1>1, SessionsAre
<1>6. \A d \in QuietPlaces : WorkGoto(d, workCtl) \/ WorkGoto(d, Resumed(workCtl)) => WorkInv'
  BY <1>1, <1>3, <1>5, QuietWays
<1>7. ASSUME NEW w \in Descriptors \cup {NoSeed},
             \/ WorkForward(DescriptorShown, [workCtl EXCEPT !.wallet = w])
             \/ WorkBack([workCtl EXCEPT !.wallet = w])
      PROVE  WorkInv'
  BY <1>3, <1>4, <1>5, <1>7, QuietWays
<1>8. CASE FindDescriptor
  BY <1>4, <1>6, <1>7, <1>8 DEF FindDescriptor
<1>9. CASE ConfirmDescriptor
  BY <1>4, <1>6, <1>7, <1>9 DEF ConfirmDescriptor
<1> QED
  BY <1>8, <1>9

LEMMA CardDescriptorHolds == ASSUME WorkInv, CardDescriptor PROVE WorkInv'
<1>1. workCtl \in Sessions
  BY WorkFacts
<1>2. workCur \in QuietPlaces
  BY QuietPlacesAre DEF CardDescriptor
<1>3. Quietly
  BY <1>2, QuietHere, WorkFacts DEF CardDescriptor
<1> DEFINE s == [workCtl EXCEPT !.wallet = CardSeed]
<1>4. s \in Sessions /\ Resumed(s) \in Sessions
  <2>1. s \in Sessions
    BY <1>1, SessionsAre
  <2> QED
    BY <2>1, SessionsAre
<1>5. {CardDetails, DescriptorShown, Search(NoSeed), WorkHome} \subseteq QuietPlaces
  BY QuietPlacesAre, QuietPlacesOfKeys
<1>6. \/ WorkBack(workCtl) \/ WorkGoto(CardDetails, workCtl) \/ WorkForward(DescriptorShown, s)
      \/ WorkForward(Search(NoSeed), Resumed(s)) \/ WorkGoto(WorkHome, s)
  BY DEF CardDescriptor
<1> HIDE DEF s
<1>7. /\ \A d \in QuietPlaces : WorkGoto(d, workCtl) \/ WorkGoto(d, s) \/ WorkForward(d, s) \/ WorkForward(d, Resumed(s)) => WorkInv'
      /\ WorkBack(workCtl) => WorkInv'
  BY <1>1, <1>3, <1>4, QuietWays
<1> QED
  BY <1>5, <1>6, <1>7

LEMMA SourceHolds == ASSUME WorkInv, ChooseSource \/ Import PROVE WorkInv'
<1>1. workCtl \in Sessions /\ workLoaded \subseteq WorkSeeds
  BY WorkFacts
<1>2. workCur \in QuietPlaces
  BY QuietPlacesAre DEF ChooseSource, Import
<1>3. Quietly
  BY <1>2, QuietHere, WorkFacts DEF ChooseSource, Import
<1>4. ASSUME NEW f \in Flows, NEW d \in QuietPlaces, WorkGoto(d, Resuming(workCtl, f))
      PROVE  WorkInv'
  BY <1>1, <1>3, <1>4, QuietWays, SessionsAre
<1>5. ASSUME NEW f \in Flows, WorkBack(Resuming(workCtl, f)) \/ WorkBack(workCtl)
      PROVE  WorkInv'
  BY <1>1, <1>3, <1>5, QuietWays, SessionsAre
<1>6. {AddressType(NoSeed), CardScript, SeedWanted, WorkTools} \cup {WorkPlain(v) : v \in {"ScanSeedQRView", "ScanWalletDescriptorView"}}
        \cup {ScriptType(k, 0) : k \in workLoaded} \subseteq QuietPlaces
  <2>1. 0 \in Nat
    OBVIOUS
  <2>2. \A k \in workLoaded : ScriptType(k, 0) \in QuietPlaces
    BY <1>1, <2>1, QuietPlacesOfKeys
  <2> QED
    BY <2>2, QuietPlacesAre, QuietPlacesOfKeys
<1>7. "address_explorer" \in Flows /\ "satochip_import_seed" \in Flows
  BY DEF Flows
<1>8. CASE ChooseSource
  BY <1>4, <1>5, <1>6, <1>7, <1>8 DEF ChooseSource
<1>9. CASE Import
  BY <1>4, <1>5, <1>6, <1>7, <1>9 DEF Import
<1> QED
  BY <1>8, <1>9

LEMMA ExportsHoldSeeds ==
    ASSUME WorkInv, ExportSigType \/ ChooseScriptType \/ ChoosePath \/ ExportXpub PROVE WorkInv'
<1>1. workCtl \in Sessions /\ workCur.key \in WorkSeeds \cup {NoSeed} /\ workCur.n \in Nat
  BY WorkFacts
<1>2. workCur.view \in OtherNames
  BY DEF ExportSigType, ChooseScriptType, ChoosePath, ExportXpub, OnScreen, OtherNames
<1>3. Quietly
  BY <1>2, QuietHere, WorkFacts DEF ExportSigType, ChooseScriptType, ChoosePath, ExportXpub
<1> DEFINE k == workCur.key
           n == workCur.n
<1>4. /\ {AddressType(k), CustomAddressType(k), VerifyExport(k), ScanExported(k), Export(k, n), CustomPath(k, n),
          AccountThen(AddressType(k)), AccountThen(Export(k, n)), WorkHome} \subseteq QuietPlaces
      /\ \A multi \in {0, 1} : ScriptType(k, multi) \in QuietPlaces
  <2>1. \A multi \in {0, 1} : multi \in Nat
    OBVIOUS
  <2> QED
    BY <1>1, <2>1, QuietPlacesAre, QuietPlacesOfKeys
<1>5. AfterPath \in QuietPlaces /\ AccountThen(AfterPath) \in QuietPlaces
  BY <1>4 DEF AfterPath
<1>6. ASSUME NEW d \in QuietPlaces, NEW skip \in BOOLEAN, WorkVisit(d, skip, FALSE, workCtl)
      PROVE  WorkInv'
  BY <1>1, <1>3, <1>6, QuietGoes
<1>7. \A d \in QuietPlaces : WorkGoto(d, workCtl) => WorkInv'
  BY <1>6 DEF WorkGoto
<1>8. WorkBack(workCtl) \/ WorkBack(BackToOptions(workCtl)) => WorkInv'
  <2>1. BackToOptions(workCtl) \in Sessions
    BY <1>1, SessionsAre DEF BackToOptions
  <2> QED
    BY <1>1, <1>3, <2>1, QuietWays
<1>9. CASE ExportSigType
  BY <1>4, <1>6, <1>8, <1>9 DEF ExportSigType
<1>10. CASE ChooseScriptType
  BY <1>4, <1>5, <1>6, <1>8, <1>10 DEF ChooseScriptType
<1>11. CASE ChoosePath
  BY <1>4, <1>7, <1>8, <1>11 DEF ChoosePath
<1>12. CASE ExportXpub
  BY <1>4, <1>7, <1>8, <1>12 DEF ExportXpub
<1> QED
  BY <1>9, <1>10, <1>11, <1>12

(* What a step keeps wherever it leads.                                     *)
LEMMA AnywhereHolds ==
    ASSUME WorkInv, NEW d \in WorkPlaces, NEW m, WorkLands(d, m), NEW s \in Sessions, ShowsNext(d, s),
           workLoaded' \subseteq WorkSeeds,
           OnTop(AddressNames)', OnTop(SigningNames)', AddressesAreExplored', AddressIsSigners', ConfirmedIsSigner'
    PROVE  WorkInv'
<1>1. WorkHistory' /\ workCur' = d
  BY WorkHistoryStays DEF WorkInv, WorkLands
<1>2. workCtl' \in Sessions /\ (d.view = "AddressType" => IsExplored(d)')
  BY ShownIs
<1>3. WorkTypes'
  BY <1>2 DEF WorkTypes
<1>4. (workCur.view = "AddressType" => IsExplored(workCur))'
  BY <1>1, <1>2 DEF IsExplored
<1> QED
  BY <1>1, <1>3, <1>4 DEF WorkInv

\* The history while a view other than the main menu is on screen.
LEMMA OnScreenIsLast ==
    ASSUME WorkInv, workCur # WorkHome
    PROVE  Len(workHist) \in Nat \ {0} /\ workHist[Len(workHist)] = workCur
<1>1. workHist # <<>> /\ workHist[Len(workHist)] = workCur /\ workHist \in Seq(WorkPlaces \ {WorkHome})
  BY DEF WorkInv, WorkHistory, WorkLaws!Tidy
<1>2. Len(workHist) # 0
  BY <1>1, EmptySeq
<1> QED
  BY <1>1, <1>2

(* From the explorer, or from addresses, to addresses.                      *)
LEMMA AddressesHold ==
    ASSUME WorkInv, KeepSeeds, workCur.view \in {"AddressType"} \cup AddressNames,
           NEW d \in WorkPlaces, d.view \in AddressNames, WorkGoto(d, workCtl)
    PROVE  WorkInv'
<1>1. WorkNav!Visit(d, FALSE, FALSE) /\ ShowsNext(d, workCtl)
  BY DEF WorkGoto, WorkVisit
<1>2. PICK m \in 0..Len(workHist) : WorkLands(d, m) /\ (m = Len(workHist) \/ workHist[m + 1] = d)
  BY <1>1, WorkVisits DEF WorkInv
<1>3. /\ workCtl \in Sessions /\ workLoaded' \subseteq WorkSeeds /\ signed' = signed
      /\ workCtl' = workCtl
  BY <1>1, WorkFacts, ShownIs
<1>4. workCur # WorkHome /\ d # WorkHome
  BY WorkPlacesAre DEF AddressNames
<1>5. Len(workHist) \in Nat \ {0} /\ workHist[Len(workHist)] = workCur
  BY <1>4, OnScreenIsLast
<1>6. OnTop(AddressNames)' /\ OnTop(SigningNames)'
  <2>1. OnTop(AddressNames)'
    BY <1>2, OnTopStays DEF WorkInv
  <2>2. workCur.view \notin SigningNames
    BY DEF AddressNames, SigningNames
  <2>3. OnTop(SigningNames)'
    BY <1>2, <2>2, OnTopStays DEF WorkInv
  <2> QED
    BY <2>1, <2>3
<1>7. /\ Len(workHist') = m + 1 /\ workHist'[m + 1] = d
      /\ \A j \in 1..m : workHist'[j] = workHist[j]
  BY <1>2, <1>4 DEF WorkLands
<1>8. \A j \in 1..m : IsExplored(workHist[j]) => IsExplored(workHist[j])'
  BY <1>3, <1>7 DEF IsExplored
<1>9. \A k \in 1..Len(workHist) :
        workHist[k].view \in AddressNames => \E j \in 1..(k - 1) : IsExplored(workHist[j])
  BY DEF WorkInv, AddressesAreExplored
<1>10. AddressesAreExplored'
  <2>1. ASSUME NEW k \in 1..m, workHist'[k].view \in AddressNames
        PROVE  \E j \in 1..(k - 1) : IsExplored(workHist[j])'
    <3>1. k \in 1..Len(workHist) /\ workHist[k].view \in AddressNames
      BY <1>2, <1>5, <1>7, <2>1
    <3>2. PICK j \in 1..(k - 1) : IsExplored(workHist[j])
      BY <1>9, <3>1
    <3>3. j \in 1..m
      BY <1>2, <1>5, <3>2
    <3> QED
      BY <1>8, <3>2, <3>3
  <2>2. \E j \in 1..m : IsExplored(workHist[j])'
    <3>1. \E j \in 1..m : IsExplored(workHist[j])
      <4>1. CASE m < Len(workHist) /\ workHist[m + 1] = d
        <5>1. m + 1 \in 1..Len(workHist) /\ (m + 1) - 1 = m
          BY <1>2, <1>5, <4>1
        <5> QED
          BY <1>9, <4>1, <5>1
      <4>2. CASE m = Len(workHist) /\ workCur.view \in AddressNames
        <5>1. PICK j \in 1..(Len(workHist) - 1) : IsExplored(workHist[j])
          BY <1>5, <1>9, <4>2
        <5>2. j \in 1..m
          BY <1>5, <4>2, <5>1
        <5> QED
          BY <5>1, <5>2
      <4>3. CASE m = Len(workHist) /\ workCur.view = "AddressType"
        <5>1. IsExplored(workHist[m]) /\ m \in 1..m
          BY <1>5, <4>3 DEF WorkInv
        <5> QED
          BY <5>1
      <4>4. m < Len(workHist) \/ m = Len(workHist)
        BY <1>2, <1>5
      <4>5. m # Len(workHist) => workHist[m + 1] = d
        BY <1>2
      <4> QED
        BY <1>5, <4>1, <4>2, <4>3, <4>4, <4>5
    <3> QED
      BY <1>8, <3>1
  <2>3. m \in Nat
    BY <1>2, <1>5
  <2>4. \A k \in 1..(m + 1) : k \in 1..m \/ (k = m + 1 /\ k - 1 = m)
    BY <2>3
  <2> QED
    BY <1>7, <2>1, <2>2, <2>4 DEF AddressesAreExplored
<1>11. AddressIsSigners' /\ ConfirmedIsSigner'
  <2>1. workCur' = d
    BY <1>2 DEF WorkLands
  <2> QED
    BY <1>3, <2>1 DEF AddressIsSigners, AddressNames, ConfirmedIsSigner, WorkInv
<1> QED
  BY <1>1, <1>2, <1>3, <1>6, <1>10, <1>11, AnywhereHolds

(* Back from addresses, and from the address of a signer.                   *)
LEMMA BackHolds ==
    ASSUME WorkInv, KeepSeeds, workCur.view \in AddressNames \cup {"SeedSignMessageConfirmAddressView"}, WorkBack(workCtl)
    PROVE  WorkInv'
<1> DEFINE d == WorkBelow(FALSE)
<1>1. WorkNav!GoBack(FALSE) /\ ShowsNext(d, workCtl)
  BY DEF WorkBack, WorkBackOver
<1>2. PICK m \in 0..Len(workHist) :
        WorkLands(d, m) /\ (d = WorkHome \/ (m < Len(workHist) /\ workHist[m + 1] = d))
  BY <1>1, WorkReturns DEF WorkInv
<1>3. d \in WorkPlaces
  BY <1>1, WorkReturns DEF WorkInv
<1> HIDE DEF d
<1>4. /\ workCtl \in Sessions /\ workLoaded' \subseteq WorkSeeds /\ signed' = signed
      /\ workCur' = d /\ Len(workHist) \in Nat
  BY <1>2, WorkFacts DEF WorkLands, WorkInv, WorkHistory, WorkLaws!Tidy
<1>5. OnTop(AddressNames)' /\ OnTop(SigningNames)'
  BY <1>2, <1>3, OnTopStays DEF WorkInv
<1>6. AddressesAreExplored'
  <2>1. CASE d = WorkHome
    BY <1>2, <2>1 DEF WorkLands, AddressesAreExplored
  <2>2. CASE d # WorkHome
    <3>1. /\ Len(workHist') = m + 1 /\ \A j \in 1..(m + 1) : workHist'[j] = workHist[j]
          /\ \A j \in 1..(m + 1) : j \in 1..Len(workHist)
      BY <1>2, <1>4, <2>2 DEF WorkLands
    <3>2. CASE d.view \in AddressNames
      <4>1. workCtl' = workCtl
        BY <1>1, <1>3, <1>4, <3>2, ShownIs
      <4>2. \A j \in 1..(m + 1) : IsExplored(workHist[j]) => IsExplored(workHist[j])'
        BY <3>1, <4>1 DEF IsExplored
      <4>3. ASSUME NEW k \in 1..(m + 1), workHist'[k].view \in AddressNames
            PROVE  \E j \in 1..(k - 1) : IsExplored(workHist[j])'
        <5>1. PICK j \in 1..(k - 1) : IsExplored(workHist[j])
          BY <3>1, <4>3 DEF WorkInv, AddressesAreExplored
        <5>2. j \in 1..(m + 1)
          BY <1>2, <1>4, <5>1
        <5> QED
          BY <4>2, <5>1, <5>2
      <4> QED
        BY <3>1, <4>3 DEF AddressesAreExplored
    <3>3. CASE d.view \notin AddressNames
      <4>1. workHist'[m + 1] = d /\ m + 1 \in 1..(m + 1)
        BY <1>2, <1>4, <2>2 DEF WorkLands
      <4>2. \A k \in 1..(m + 1) : k < m + 1 \/ k = m + 1
        BY <1>2, <1>4
      <4>3. \A k \in 1..(m + 1) : workHist'[k].view \notin AddressNames
        BY <1>5, <3>1, <3>3, <4>1, <4>2 DEF OnTop
      <4> QED
        BY <3>1, <4>3 DEF AddressesAreExplored
    <3> QED
      BY <3>2, <3>3
  <2> QED
    BY <2>1, <2>2
<1>7. AddressIsSigners'
  <2> SUFFICES ASSUME d.view = "SeedSignMessageConfirmAddressView"
               PROVE  workCtl'.data.shown = AddressKey(workCtl')
    BY <1>4 DEF AddressIsSigners, AddressKey
  <2>1. workCtl' = workCtl
    BY <1>1, <1>3, <1>4, ShownIs DEF SigningNames
  <2>2. m < Len(workHist) /\ workHist[m + 1] = d /\ m + 1 \in 1..Len(workHist)
    BY <1>2, <1>4, WorkPlacesAre
  <2>3. workCur.view = "SeedSignMessageConfirmAddressView"
    <3>1. workCur.view \in SigningNames
      BY <2>2, NoneBelow DEF WorkInv, SigningNames
    <3> QED
      BY <3>1 DEF SigningNames, AddressNames
  <2> QED
    BY <2>1, <2>3 DEF WorkInv, AddressIsSigners
<1>8. ConfirmedIsSigner'
  BY <1>4 DEF ConfirmedIsSigner, WorkInv
<1> QED
  BY <1>1, <1>2, <1>3, <1>4, <1>5, <1>6, <1>7, <1>8, AnywhereHolds

LEMMA ExplorerHolds == ASSUME WorkInv, ChooseAddressType \/ ListAddresses PROVE WorkInv'
<1>1. workCtl \in Sessions /\ KeepSeeds
  BY WorkFacts DEF ChooseAddressType, ListAddresses
<1>2. /\ AddressList \in WorkPlaces /\ AddressQR \in WorkPlaces
      /\ AddressList.view \in AddressNames /\ AddressQR.view \in AddressNames
  <2>1. AddressNames \subseteq WorkNames
    BY DEF WorkNames
  <2> QED
    BY <2>1, WorkPlacesAre DEF AddressList, AddressQR, AddressNames
<1>3. CASE ChooseAddressType
  <2>1. workCur.view = "AddressType" /\ workCur.view \in OtherNames
    BY <1>3 DEF ChooseAddressType, OnScreen, OtherNames
  <2>2. Quietly
    BY <1>1, <2>1, QuietHere, WorkFacts
  <2> DEFINE s == IF WorkBelow(FALSE).view = "SeedOptionsView"
                  THEN [Resumed(workCtl) EXCEPT !.explored = NoSeed] ELSE workCtl
  <2>3. s \in Sessions
    <3>1. Resumed(workCtl) \in Sessions
      BY <1>1, SessionsAre
    <3>2. [Resumed(workCtl) EXCEPT !.explored = NoSeed] \in Sessions
      BY <3>1, SessionsAre
    <3> QED
      BY <1>1, <3>2
  <2>4. WorkFail \/ WorkBack(s) \/ WorkGoto(AddressList, workCtl)
    BY <1>3 DEF ChooseAddressType
  <2> HIDE DEF s
  <2>5. CASE WorkFail \/ WorkBack(s)
    BY <2>2, <2>3, <2>5, QuietWays
  <2>6. CASE WorkGoto(AddressList, workCtl)
    BY <1>1, <1>2, <2>1, <2>6, AddressesHold
  <2> QED
    BY <2>4, <2>5, <2>6
<1>4. CASE ListAddresses
  <2>1. workCur.view \in AddressNames
    BY <1>2, <1>4 DEF ListAddresses
  <2>2. WorkBack(workCtl) \/ WorkGoto(AddressQR, workCtl) \/ WorkGoto(AddressList, workCtl)
    BY <1>4 DEF ListAddresses
  <2>3. CASE WorkBack(workCtl)
    BY <1>1, <2>1, <2>3, BackHolds
  <2>4. CASE WorkGoto(AddressQR, workCtl) \/ WorkGoto(AddressList, workCtl)
    BY <1>1, <1>2, <2>1, <2>4, AddressesHold
  <2> QED
    BY <2>2, <2>3, <2>4
<1> QED
  BY <1>3, <1>4

(* On to a view of the signing, over views that do not belong to it: the    *)
(* address of the signer is shown, or stays what it was.                    *)
LEMMA SigningHolds ==
    ASSUME WorkInv, workLoaded' \subseteq WorkSeeds, ConfirmedIsSigner',
           workCur.view \notin AddressNames, NEW d \in WorkPlaces, d.view \in SigningNames,
           NEW s \in Sessions, WorkGoto(d, s),
           d.view = "SeedSignMessageConfirmAddressView" => s.data.shown = AddressKey(s)
    PROVE  WorkInv'
<1>1. WorkNav!Visit(d, FALSE, FALSE) /\ ShowsNext(d, s)
  BY DEF WorkGoto, WorkVisit
<1>2. PICK m \in 0..Len(workHist) : WorkLands(d, m)
  BY <1>1, WorkVisits DEF WorkInv
<1>3. workCtl' = s /\ workCur' = d
  BY <1>1, <1>2, ShownIs DEF WorkLands
<1>4. OnTop(AddressNames)' /\ OnTop(SigningNames)'
  <2>1. OnTop(AddressNames)'
    BY <1>2, OnTopStays DEF WorkInv
  <2>2. OnTop(SigningNames)'
    BY <1>2, OnTopStays DEF WorkInv
  <2> QED
    BY <2>1, <2>2
<1>5. AddressesAreExplored'
  <2>1. WorkHistory'
    BY <1>2, WorkHistoryStays DEF WorkInv
  <2>2. d.view \notin AddressNames
    BY DEF AddressNames, SigningNames
  <2>3. Len(workHist') \in Nat /\ (Len(workHist') # 0 => workHist'[Len(workHist')] = d)
    BY <1>3, <2>1 DEF WorkHistory, WorkLaws!Tidy
  <2>4. \A j \in 1..Len(workHist') : workHist'[j].view \notin AddressNames
    BY <1>4, <2>2, <2>3 DEF OnTop
  <2> QED
    BY <2>4 DEF AddressesAreExplored
<1>6. AddressIsSigners'
  BY <1>3 DEF AddressIsSigners, AddressKey
<1> QED
  BY <1>1, <1>2, <1>4, <1>5, <1>6, AnywhereHolds

LEMMA ConfirmMessageHolds == ASSUME WorkInv, ConfirmMessage PROVE WorkInv'
<1>1. workCtl \in Sessions /\ workCur.n \in Nat
  BY WorkFacts
<1>2. workCur.view \in OtherNames
  BY DEF ConfirmMessage, OnScreen, OtherNames
<1>3. Quietly
  BY <1>2, QuietHere, WorkFacts DEF ConfirmMessage
<1> DEFINE s == [Resumed(workCtl) EXCEPT !.data = NoData]
           u == [workCtl EXCEPT !.data.shown = AddressKey(workCtl)]
<1>4. s \in Sessions
  <2>1. Resumed(workCtl) \in Sessions
    BY <1>1, SessionsAre
  <2> QED
    BY <2>1, SessionsAre
<1>5. \/ WorkFail \/ WorkBack(s) \/ WorkBack(workCtl)
      \/ WorkGoto(Confirm(workCur.n + 1), workCtl) \/ WorkGoto(Message, s)
      \/ workCtl.data # NoData /\ WorkGoto(ConfirmAddress, u)
  BY DEF ConfirmMessage, Unreadable
<1>6. Message \in QuietPlaces /\ Confirm(workCur.n + 1) \in QuietPlaces
  <2>1. workCur.n + 1 \in Nat
    BY <1>1
  <2> QED
    BY <2>1, QuietPlacesAre
<1>7. CASE workCtl.data # NoData /\ WorkGoto(ConfirmAddress, u)
  <2>1. workCtl.data \in Data /\ AddressKey(workCtl) \in WorkSeeds \cup {CardSeed, NoSeed}
    BY <1>1, <1>7, DataOf DEF AddressKey, Data
  <2>2. u \in Sessions
    BY <1>1, <1>7, <2>1, DataOf
  <2>3. /\ u.data = [workCtl.data EXCEPT !.shown = AddressKey(workCtl)]
        /\ u.byCard = workCtl.byCard
    BY <1>1 DEF Sessions
  <2>4. u.data.shown = AddressKey(workCtl) /\ u.data.seed = workCtl.data.seed
    BY <2>1, <2>3 DEF Data
  <2>5. u.data.shown = AddressKey(u)
    BY <2>3, <2>4 DEF AddressKey
  <2>6. ConfirmAddress \in WorkPlaces /\ ConfirmAddress.view \in SigningNames
    <3>1. SigningNames \subseteq WorkNames
      BY DEF WorkNames
    <3> QED
      BY <3>1, WorkPlacesAre DEF ConfirmAddress, SigningNames
  <2>7. workCur.view \notin AddressNames /\ workLoaded' \subseteq WorkSeeds /\ ConfirmedIsSigner'
    BY <1>3 DEF Quietly, WorkInv, ConfirmedIsSigner
  <2> HIDE DEF u
  <2> QED
    BY <1>7, <2>2, <2>5, <2>6, <2>7, SigningHolds
<1> HIDE DEF s, u
<1>8. CASE WorkFail \/ WorkBack(s) \/ WorkBack(workCtl)
  BY <1>1, <1>3, <1>4, <1>8, QuietWays
<1>9. CASE WorkGoto(Confirm(workCur.n + 1), workCtl)
  BY <1>1, <1>3, <1>6, <1>9, QuietWays
<1>10. CASE WorkGoto(Message, s)
  BY <1>3, <1>4, <1>6, <1>10, QuietWays
<1> QED
  BY <1>5, <1>7, <1>8, <1>9, <1>10

LEMMA ConfirmSignerHolds == ASSUME WorkInv, ConfirmSigner PROVE WorkInv'
<1>1. /\ workCtl \in Sessions /\ workLoaded' \subseteq WorkSeeds
      /\ SignedText \in WorkPlaces /\ SignedText.view = "SeedSignMessageSignedMessageQRView"
  <2>1. SigningNames \subseteq WorkNames
    BY DEF WorkNames
  <2> QED
    BY <2>1, WorkFacts, WorkPlacesAre DEF ConfirmSigner, SignedText, SigningNames
<1>2. workCur.view = "SeedSignMessageConfirmAddressView"
  <2>1. "SeedSignMessageConfirmAddressView" \in WorkNames
    BY DEF WorkNames, SigningNames
  <2> QED
    BY <2>1, WorkPlacesAre DEF ConfirmSigner, ConfirmAddress
<1>3. CASE WorkBack(workCtl) /\ UNCHANGED signed
  <2>1. KeepSeeds
    BY <1>3 DEF ConfirmSigner, KeepSeeds
  <2> QED
    BY <1>2, <1>3, <2>1, BackHolds
<1>4. CASE WorkGoto(SignedText, workCtl)
  <2>1. ConfirmedIsSigner'
    <3>1. CASE UNCHANGED signed
      BY <3>1 DEF WorkInv, ConfirmedIsSigner
    <3>2. CASE signed' = [message |-> workCtl.data.message, read |-> workCtl.data.pages,
                          key |-> SigningKey(workCtl), shown |-> workCtl.data.shown]
      <4>1. workCtl.data.shown = SigningKey(workCtl)
        BY <1>2 DEF WorkInv, AddressIsSigners, AddressKey, SigningKey
      <4> QED
        BY <3>2, <4>1 DEF ConfirmedIsSigner
    <3>3. \/ UNCHANGED signed
          \/ signed' = [message |-> workCtl.data.message, read |-> workCtl.data.pages,
                        key |-> SigningKey(workCtl), shown |-> workCtl.data.shown]
      BY DEF ConfirmSigner
    <3> QED
      BY <3>1, <3>2, <3>3
  <2>2. /\ SignedText.view \in SigningNames /\ SignedText.view # "SeedSignMessageConfirmAddressView"
        /\ workCur.view \notin AddressNames
    BY <1>1, <1>2 DEF SigningNames, AddressNames
  <2> QED
    BY <1>1, <1>4, <2>1, <2>2, SigningHolds
<1> QED
  BY <1>3, <1>4 DEF ConfirmSigner

LEMMA EndSigningHolds == ASSUME WorkInv, EndSigning PROVE WorkInv'
<1> DEFINE s == [Resumed(workCtl) EXCEPT !.data = NoData, !.byCard = FALSE]
<1>1. s \in Sessions
  <2>1. Resumed(workCtl) \in Sessions
    BY WorkFacts, SessionsAre
  <2>2. [Resumed(workCtl) EXCEPT !.data = NoData] \in Sessions
    BY <2>1, SessionsAre
  <2>3. [[Resumed(workCtl) EXCEPT !.data = NoData] EXCEPT !.byCard = FALSE] \in Sessions
    BY <2>2, SessionsAre
  <2> QED
    BY <2>3
<1>2. WorkForward(WorkHome, s) /\ signed' = NoData /\ workLoaded' \subseteq WorkSeeds
  BY WorkFacts DEF EndSigning
<1> HIDE DEF s
<1>3. WorkNav!Visit(WorkHome, TRUE, FALSE) /\ ShowsNext(WorkHome, s)
  BY <1>2 DEF WorkForward, WorkVisit
<1>4. WorkHome \in WorkPlaces /\ WorkHome.view = "MainMenuView"
  BY WorkPlacesAre
<1>5. PICK m \in 0..Len(workHist) : WorkLands(WorkHome, m)
  BY <1>3, <1>4, WorkVisits DEF WorkInv
<1>6. workHist' = <<>> /\ workCur' = WorkHome
  BY <1>5 DEF WorkLands
<1>7. OnTop(AddressNames)' /\ OnTop(SigningNames)' /\ AddressesAreExplored'
  BY <1>6 DEF OnTop, AddressesAreExplored
<1>8. AddressIsSigners' /\ ConfirmedIsSigner'
  BY <1>2, <1>4, <1>6 DEF AddressIsSigners, ConfirmedIsSigner
<1> QED
  BY <1>1, <1>2, <1>3, <1>4, <1>5, <1>7, <1>8, AnywhereHolds

LEMMA WorkStart == WorkInit => WorkInv
<1> SUFFICES ASSUME WorkInit
             PROVE  WorkInv
  OBVIOUS
<1>1. workCur = WorkHome /\ workHist = <<>> /\ workCtl = FreshSession /\ workLoaded \subseteq WorkSeeds /\ signed = NoData
  BY DEF WorkInit
<1>2. WorkHistory
  BY <1>1 DEF WorkHistory, WorkLaws!Tidy, WorkLaws!Distinct
<1>3. WorkTypes
  BY <1>1 DEF WorkTypes, FreshSession, Sessions, Flows
<1>4. OnTop(AddressNames) /\ OnTop(SigningNames) /\ AddressesAreExplored
  BY <1>1 DEF OnTop, AddressesAreExplored
<1>5. (workCur.view = "AddressType" => IsExplored(workCur)) /\ AddressIsSigners /\ ConfirmedIsSigner
  BY <1>1, WorkPlacesAre DEF AddressIsSigners, ConfirmedIsSigner
<1> QED
  BY <1>2, <1>3, <1>4, <1>5 DEF WorkInv

LEMMA WorkStep == WorkInv /\ [WorkNext]_workVars => WorkInv'
<1> SUFFICES ASSUME WorkInv, [WorkNext]_workVars
             PROVE  WorkInv'
  OBVIOUS
<1>1. CASE UNCHANGED workVars
  BY <1>1 DEF workVars, WorkInv, WorkHistory, WorkLaws!Tidy, WorkTypes, OnTop, AddressesAreExplored, IsExplored,
              AddressIsSigners, AddressKey, ConfirmedIsSigner
<1>2. CASE FromMainMenus \/ Loading \/ ResumeWithSeed \/ FromOptions \/ DiscardSeed
  BY <1>2, MenusHold, LoadingHoldsSeeds, ResumingHolds, OptionsHold, DiscardHolds
<1>3. CASE ScanAddress \/ ChooseSigType \/ ScanMessage \/ ScanSeedOrDescriptor
  BY <1>3, ScanAddressHolds, ChooseSigTypeHolds, ScanMessageHolds, ScanSeedHolds
<1>4. CASE ScanExportedAddress \/ NothingScanned \/ AfterMessage \/ PickSeed
  BY <1>4, ScanExportedHolds, NothingScannedHolds, AfterMessageHolds, PickSeedHolds
<1>5. CASE SearchAddress \/ AfterSearch \/ FindDescriptor \/ ConfirmDescriptor \/ CardDescriptor
  BY <1>5, SearchHolds, DescriptorsHold, CardDescriptorHolds
<1>6. CASE ChooseSource \/ Import \/ ExportSigType \/ ChooseScriptType \/ ChoosePath \/ ExportXpub
  BY <1>6, SourceHolds, ExportsHoldSeeds
<1>7. CASE ChooseAddressType \/ ListAddresses \/ ConfirmMessage \/ ConfirmSigner \/ EndSigning
  BY <1>7, ExplorerHolds, ConfirmMessageHolds, ConfirmSignerHolds, EndSigningHolds
<1> QED
  BY <1>1, <1>2, <1>3, <1>4, <1>5, <1>6, <1>7 DEF WorkNext

(* A message is signed with the key whose address was confirmed, and the    *)
(* addresses on screen are those of the seed or descriptor the explorer was *)
(* opened for, for any seeds, descriptors and messages.                    *)
THEOREM KeyIsServed == WorkSpec => []ServesChosen
<1>1. WorkInv => ServesChosen
  <2> SUFFICES ASSUME WorkInv
               PROVE  ServesChosen
    OBVIOUS
  <2>1. ASSUME workCur = AddressList
        PROVE  \E j \in DOMAIN workHist : IsExplored(workHist[j])
    <3>1. workCur.view \in AddressNames
      <4>1. "ToolsAddressExplorerAddressListView" \in WorkNames
        BY DEF WorkNames, AddressNames
      <4> QED
        BY <2>1, <4>1, WorkPlacesAre DEF AddressList, AddressNames
    <3>2. workCur # WorkHome
      BY <3>1, WorkPlacesAre DEF AddressNames
    <3>3. Len(workHist) \in Nat \ {0} /\ workHist[Len(workHist)] = workCur
      BY <3>2, OnScreenIsLast
    <3>4. PICK j \in 1..(Len(workHist) - 1) : IsExplored(workHist[j])
      BY <3>1, <3>3 DEF WorkInv, AddressesAreExplored
    <3>5. j \in DOMAIN workHist
      BY <3>3, <3>4 DEF WorkInv, WorkHistory, WorkLaws!Tidy
    <3> QED
      BY <3>4, <3>5
  <2>2. ExploresChosen
    BY <2>1 DEF ExploresChosen, IsExplored
  <2> QED
    BY <2>2 DEF ServesChosen, WorkInv
<1> QED
  BY <1>1, WorkStart, WorkStep, PTL DEF WorkSpec
-----------------------------------------------------------------------------
(* Scanned codes and their decryption *)

CodeLaws == INSTANCE NavigationProofs WITH
    Views <- ScanViews, MainMenu <- ScanHome, StartupViews <- {}, cur <- place, hist <- trail

\* On the main menu there is no history, and after a wipe there is none either.
CodesHistory ==
    /\ CodeLaws!Tidy /\ (trail # <<>> => trail[Len(trail)] = place)
    /\ place = ScanHome => trail = <<>>

\* The camera starts from the main menu, so that nothing lies below a scanner.
ScannersFirst == \A k \in 2..Len(trail) : trail[k].view \notin CodeScanners

\* No view that asks for a key is on screen, or can be reached by "back".
KeyFree == place \notin KeyViews /\ \A k \in 1..Len(trail) : trail[k] \notin KeyViews

OldIsOutOfReach == KeyFree \/ candidate \in {NoCode, agreed}

AskedIsStored == asks # NoCode /\ place.view \in CodeScanners => candidate \in {NoCode, asks}

CodesInv == CodesHistory /\ CodesTypeOK /\ ScannersFirst /\ OldIsOutOfReach /\ AskedIsStored

LEMMA ScanNavHasLaws ==
    /\ \A d, skip, clear : ScanNav!Visit(d, skip, clear) <=> CodeLaws!Visit(d, skip, clear)
    /\ \A skip : ScanNav!GoBack(skip) <=> CodeLaws!GoBack(skip)
BY DEF ScanNav!Visit, CodeLaws!Visit, ScanNav!GoBack, CodeLaws!GoBack, ScanNav!Enter, CodeLaws!Enter,
       ScanNav!Unwound, CodeLaws!Unwound, ScanNav!Occurs, CodeLaws!Occurs, ScanNav!FirstIndex, CodeLaws!FirstIndex,
       ScanNav!WithoutLast, CodeLaws!WithoutLast

\* The names of the views that ask for a key, and of the others.
KeyNames ==
    {"ScanEncryptedQREncryptionKeyView", "ScanEncryptedQRTypeEncryptionKeyView",
     "ScanEncryptedQRTypeEncryptionKeyExitDialogView", "ScanEncryptedQRScanEncryptionKeyView",
     "ScanEncryptedQRReviewEncryptionKeyView", "ScanDecryptEncryptedQRView"}
PlainNames ==
    CodeScanners \cup {"ScanInvalidQRTypeView", "ErrorView", "SeedFinalizeView", "Workflow", "UnhandledExceptionView",
                       "ScanAmbiguousQRPromptView", "ScanDecryptedTextView", "MainMenuView"}

\* Views that neither scan nor ask for a key.
PlainViews ==
    {InvalidCode, ScanError, SeedView, Workflow, Crashed, ScanHome}
    \cup {Prompt(c) : c \in Codes} \cup {DecryptedText(c) : c \in Codes}

(* The names and arguments of the views of each kind.                       *)
LEMMA CodeViewsAre ==
    /\ \A v \in PlainViews : v.view \in PlainNames \ CodeScanners
    /\ \A v \in KeyViews : v.view \in KeyNames /\ v.key \in DecryptKeys
    /\ \A v \in CodeScanners : Dest(v).view = v
    /\ \A c \in Codes : Prompt(c).view = "ScanAmbiguousQRPromptView" /\ Prompt(c).code = c
    /\ ScanHome.view = "MainMenuView"
<1>1. \A v : Dest(v).view = v /\ Dest(v).key = <<>>
  BY DEF Dest
<1>2. \A v, c : With(v, c).view = v /\ With(v, c).code = c
  BY DEF Dest, With
<1>3. \A v, k : Keyed(v, k).view = v /\ Keyed(v, k).key = k
  BY DEF Dest, Keyed
<1>4. ASSUME NEW v \in PlainViews PROVE v.view \in PlainNames \ CodeScanners
  BY <1>1, <1>2, <1>4 DEF PlainViews, PlainNames, CodeScanners, InvalidCode, ScanError, SeedView, Workflow, Crashed,
     ScanHome, Prompt, DecryptedText
<1>5. <<>> \in DecryptKeys
  <2>1. 0 \in 0..(MaxPieces + 1)
    BY CodesAssumption
  <2>2. <<>> \in [1..0 -> Pieces]
    OBVIOUS
  <2> QED
    BY <2>1, <2>2 DEF DecryptKeys
<1>6. ASSUME NEW v \in KeyViews PROVE v.view \in KeyNames /\ v.key \in DecryptKeys
  <2>1. CASE v = AskKey
    BY <1>1, <1>5, <2>1 DEF AskKey, KeyNames
  <2>2. CASE v # AskKey
    <3>1. PICK k \in DecryptKeys : v \in {KeyTyper(k), ExitDialog(k), KeyScanner(k), KeyReview(k), Decrypt(k)}
      BY <2>2 DEF KeyViews
    <3> QED
      BY <1>3, <3>1 DEF KeyTyper, ExitDialog, KeyScanner, KeyReview, Decrypt, KeyNames
  <2> QED
    BY <2>1, <2>2
<1> QED
  BY <1>1, <1>2, <1>4, <1>6 DEF Prompt, ScanHome

LEMMA KeyNamesDiffer == KeyNames \cap PlainNames = {} /\ CodeScanners \subseteq PlainNames
BY DEF KeyNames, PlainNames, CodeScanners

LEMMA ViewsOf ==
    /\ \A v \in ScanViews \cup {ScanHome} :
         v \in KeyViews \/ v \in PlainViews \/ \E s \in CodeScanners : v = Dest(s)
    /\ PlainViews \subseteq ScanViews \cup {ScanHome} /\ KeyViews \subseteq ScanViews
    /\ \A s \in CodeScanners : Dest(s) \in ScanViews
    /\ PlainViews \cap KeyViews = {} /\ \A s \in CodeScanners : Dest(s) \notin KeyViews
<1>1. PlainViews \cap KeyViews = {} /\ \A s \in CodeScanners : Dest(s) \notin KeyViews
  BY CodeViewsAre, KeyNamesDiffer
<1> QED
  BY <1>1 DEF ScanViews, PlainViews

(* What a view on screen is known to be by its name.                        *)
LEMMA PlaceIs ==
    ASSUME CodesInv
    PROVE  /\ place \in KeyViews <=> place.view \in KeyNames
           /\ place.view \in CodeScanners => KeyFree
           /\ place.view = "ScanAmbiguousQRPromptView" => place.code \in Codes
           /\ place.view = "MainMenuView" => place = ScanHome /\ trail = <<>>
           /\ place.view \in KeyNames => place.key \in DecryptKeys
<1>1. place \in ScanViews \cup {ScanHome}
  BY DEF CodesInv, CodesTypeOK
<1>2. place \in KeyViews <=> place.view \in KeyNames
  BY <1>1, CodeViewsAre, ViewsOf, KeyNamesDiffer
<1>3. ASSUME place.view \in CodeScanners PROVE KeyFree
  <2>1. place \notin KeyViews
    BY <1>2, <1>3, KeyNamesDiffer
  <2>2. Len(trail) \in Nat /\ (Len(trail) # 0 => trail[Len(trail)] = place)
    BY DEF CodesInv, CodesHistory, CodeLaws!Tidy
  <2>3. Len(trail) < 2
    BY <1>3, <2>2 DEF CodesInv, ScannersFirst
  <2>4. \A k \in 1..Len(trail) : trail[k] = place
    BY <2>2, <2>3
  <2> QED
    BY <2>1, <2>4 DEF KeyFree
<1>4. ASSUME place.view = "ScanAmbiguousQRPromptView" PROVE place.code \in Codes
  <2>1. "ScanAmbiguousQRPromptView" \notin KeyNames \cup CodeScanners
    BY DEF KeyNames, CodeScanners
  <2>2. place \in PlainViews
    BY <1>1, <1>4, <2>1, CodeViewsAre, ViewsOf
  <2>3. /\ \A v : Dest(v).view = v
        /\ \A v, c : With(v, c).view = v
    BY DEF Dest, With
  <2>4. \E c \in Codes : place = Prompt(c)
    BY <1>4, <2>2, <2>3 DEF PlainViews, InvalidCode, ScanError, SeedView, Workflow, Crashed, ScanHome, DecryptedText
  <2> QED
    BY <2>4, CodeViewsAre
<1>5. ASSUME place.view = "MainMenuView" PROVE place = ScanHome /\ trail = <<>>
  <2>1. "MainMenuView" \notin KeyNames \cup CodeScanners
    BY DEF KeyNames, CodeScanners
  <2>2. place \in PlainViews
    BY <1>1, <1>5, <2>1, CodeViewsAre, ViewsOf
  <2>3. /\ \A v : Dest(v).view = v
        /\ \A v, c : With(v, c).view = v
    BY DEF Dest, With
  <2>4. place = ScanHome
    BY <1>5, <2>2, <2>3 DEF PlainViews, InvalidCode, ScanError, SeedView, Workflow, Crashed, Prompt, DecryptedText
  <2> QED
    BY <2>4 DEF CodesInv, CodesHistory
<1>6. place.view \in KeyNames => place.key \in DecryptKeys
  BY <1>2, CodeViewsAre
<1> QED
  BY <1>2, <1>3, <1>4, <1>5, <1>6

\* The history after a step, as the invariant wants it.
CodesMoved == CodesHistory' /\ ScannersFirst' /\ (place \in ScanViews \cup {ScanHome})'

\* A view d is entered over the first m views of the history.
CodeLands(d, m) ==
    /\ m \in 0..Len(trail) /\ place' = d
    /\ IF d = ScanHome THEN trail' = <<>>
       ELSE /\ trail' \in Seq(ScanViews) /\ Len(trail') = m + 1
            /\ \A k \in 1..m : trail'[k] = trail[k] /\ trail[k] # d
            /\ trail'[m + 1] = d

(* Wherever a step lands: a scanner is entered at the start of a history    *)
(* only, and other views than those of a key do not bring these back.       *)
LEMMA LandsWell ==
    ASSUME CodesInv, NEW d \in ScanViews \cup {ScanHome}, NEW m, CodeLands(d, m), d.view \in CodeScanners => m = 0
    PROVE  CodesMoved /\ (KeyFree /\ d \notin KeyViews => KeyFree')
<1>1. CASE d = ScanHome
  BY <1>1 DEF CodeLands, CodesMoved, CodesHistory, ScannersFirst, KeyFree, CodeLaws!Tidy, CodeLaws!Distinct
<1>2. CASE d # ScanHome
  <2>1. /\ Len(trail) \in Nat /\ m \in 0..Len(trail) /\ place' = d
        /\ trail' \in Seq(ScanViews) /\ Len(trail') = m + 1
        /\ DOMAIN trail = 1..Len(trail) /\ DOMAIN (trail') = 1..(m + 1)
        /\ \A k \in 1..m : trail'[k] = trail[k] /\ trail[k] # d
        /\ trail'[m + 1] = d
    BY <1>2 DEF CodesInv, CodesHistory, CodeLaws!Tidy, CodeLands
  <2>2. \A j, k \in DOMAIN trail : trail[j] = trail[k] => j = k
    BY DEF CodesInv, CodesHistory, CodeLaws!Tidy, CodeLaws!Distinct
  <2>3. ASSUME NEW j \in 1..(m + 1), NEW k \in 1..(m + 1), trail'[j] = trail'[k] PROVE j = k
    BY <2>1, <2>2, <2>3
  <2>4. trail' # <<>> /\ trail'[Len(trail')] = d
    BY <2>1
  <2>5. CodesHistory'
    BY <1>2, <2>1, <2>3, <2>4 DEF CodesHistory, CodeLaws!Tidy, CodeLaws!Distinct
  <2>6. ScannersFirst'
    <3>1. ASSUME NEW k \in 2..(m + 1) PROVE trail'[k].view \notin CodeScanners
      BY <2>1, <3>1 DEF CodesInv, ScannersFirst
    <3> QED
      BY <2>1, <3>1 DEF ScannersFirst
  <2>7. KeyFree /\ d \notin KeyViews => KeyFree'
    BY <2>1 DEF KeyFree
  <2> QED
    BY <2>1, <2>5, <2>6, <2>7 DEF CodesMoved
<1> QED
  BY <1>1, <1>2

LEMMA CodeVisits ==
    ASSUME CodesInv, NEW d \in ScanViews \cup {ScanHome}, NEW skip \in BOOLEAN, NEW clear \in BOOLEAN,
           ScanNav!Visit(d, skip, clear), d.view \notin CodeScanners \/ place = ScanHome
    PROVE  CodesMoved /\ place' = d /\ (KeyFree /\ d \notin KeyViews => KeyFree')
<1>1. CodeLaws!Visit(d, skip, clear) /\ CodeLaws!Tidy
  BY ScanNavHasLaws DEF CodesInv, CodesHistory
<1>2. \E m \in 0..Len(trail) : CodeLaws!Lands(d, m)
  <2>1. CASE clear
    <3>1. CodeLaws!Lands(d, 0)
      BY <1>1, <2>1, CodeLaws!ClearLands
    <3>2. 0 \in 0..Len(trail)
      BY <1>1 DEF CodeLaws!Tidy
    <3> QED
      BY <3>1, <3>2
  <2>2. CASE ~clear /\ skip
    <3>1. CodeLaws!Visit(d, TRUE, FALSE)
      BY <1>1, <2>2
    <3> QED
      BY <1>1, <3>1, CodeLaws!ForwardLands
  <2>3. CASE ~clear /\ ~skip
    <3>1. CodeLaws!Visit(d, FALSE, FALSE)
      BY <1>1, <2>3
    <3> QED
      BY <1>1, <3>1, CodeLaws!GotoLands
  <2> QED
    BY <2>1, <2>2, <2>3
<1>3. PICK m \in 0..Len(trail) : CodeLands(d, m)
  BY <1>2 DEF CodeLaws!Lands, CodeLands
<1>4. place = ScanHome => m = 0
  BY DEF CodesInv, CodesHistory
<1>5. place' = d
  BY <1>3 DEF CodeLands
<1> QED
  BY <1>3, <1>4, <1>5, LandsWell

LEMMA CodeReturns ==
    ASSUME CodesInv, NEW skip \in BOOLEAN, ScanNav!GoBack(skip)
    PROVE  CodesMoved /\ (KeyFree => KeyFree')
<1> DEFINE d == CodeLaws!Below(skip)
<1>1. CodeLaws!GoBack(skip) /\ CodeLaws!Tidy
  BY ScanNavHasLaws DEF CodesInv, CodesHistory
<1>2. /\ d \in ScanViews \cup {ScanHome}
      /\ \E m \in 0..Len(trail) :
           CodeLaws!Lands(d, m) /\ (d = ScanHome \/ (m < Len(trail) /\ trail[m + 1] = d))
  BY <1>1, CodeLaws!BackLands
<1> HIDE DEF d
<1>3. PICK m \in 0..Len(trail) : CodeLands(d, m) /\ (d = ScanHome \/ (m < Len(trail) /\ trail[m + 1] = d))
  BY <1>2 DEF CodeLaws!Lands, CodeLands
<1>4. CASE d = ScanHome
  <2>1. d.view \notin CodeScanners /\ d \notin KeyViews
    <3>1. ScanHome \in PlainViews
      BY DEF PlainViews
    <3> QED
      BY <1>4, <3>1, CodeViewsAre, ViewsOf
  <2> QED
    BY <1>2, <1>3, <2>1, LandsWell
<1>5. CASE d # ScanHome
  <2>1. Len(trail) \in Nat /\ m < Len(trail) /\ trail[m + 1] = d
    BY <1>1, <1>3, <1>5 DEF CodeLaws!Tidy
  <2>2. d.view \in CodeScanners => m = 0
    BY <2>1 DEF CodesInv, ScannersFirst
  <2>3. KeyFree => d \notin KeyViews
    BY <2>1 DEF KeyFree
  <2> QED
    BY <1>2, <1>3, <2>2, <2>3, LandsWell
<1> QED
  BY <1>4, <1>5

(* A step that asks nothing and leaves a candidate that was not agreed to   *)
(* out of reach.                                                            *)
LEMMA CodesGoOn ==
    ASSUME CodesInv, CodesMoved, KeyFree => KeyFree', asks' = NoCode, agreed' = agreed,
           candidate' \in {candidate, NoCode}, pending' \in Codes \cup {NoCode}, KeepRest
    PROVE  CodesInv'
<1>1. CodesTypeOK'
  <2>1. CodeLaws!Tidy'
    BY DEF CodesMoved, CodesHistory
  <2>2. \A k \in DOMAIN trail' : trail'[k] \in ScanViews
    BY <2>1 DEF CodeLaws!Tidy
  <2> QED
    BY <2>2 DEF CodesInv, CodesTypeOK, CodesMoved, KeepRest
<1>2. OldIsOutOfReach' /\ AskedIsStored'
  BY DEF CodesInv, OldIsOutOfReach, AskedIsStored
<1> QED
  BY <1>1, <1>2 DEF CodesInv, CodesMoved

LEMMA PlainStep ==
    ASSUME CodesInv, NEW d \in PlainViews, NEW skip \in BOOLEAN, NEW clear \in BOOLEAN, ScanNav!Visit(d, skip, clear)
    PROVE  CodesMoved /\ (KeyFree => KeyFree') /\ place' = d
<1>1. d \in ScanViews \cup {ScanHome} /\ d.view \notin CodeScanners /\ d \notin KeyViews
  BY CodeViewsAre, ViewsOf
<1> QED
  BY <1>1, CodeVisits

LEMMA KeyStep ==
    ASSUME CodesInv, NEW d \in KeyViews, NEW skip \in BOOLEAN, ScanNav!Visit(d, skip, FALSE)
    PROVE  CodesMoved /\ place' = d
<1>1. d \in ScanViews \cup {ScanHome} /\ d.view \notin CodeScanners
  BY CodeViewsAre, ViewsOf, KeyNamesDiffer
<1> QED
  BY <1>1, CodeVisits

LEMMA PlainAre ==
    /\ {InvalidCode, ScanError, SeedView, Workflow, Crashed, ScanHome} \subseteq PlainViews
    /\ \A c \in Codes : Prompt(c) \in PlainViews /\ DecryptedText(c) \in PlainViews
BY DEF PlainViews

(* Where the view of a code leads to.                                       *)
LEMMA LoadsWell ==
    ASSUME CodesInv, NEW c \in Codes, NEW skip \in BOOLEAN, Loads(c, skip)
    PROVE  CodesMoved /\ (KeyFree => KeyFree') /\ pending' \in Codes \cup {NoCode}
BY PlainStep, PlainAre DEF Loads

LEMMA ChooseScannerHolds == ASSUME CodesInv, ChooseScanner PROVE CodesInv'
<1>1. place = ScanHome
  BY PlaceIs DEF ChooseScanner, ScanAt
<1>2. PICK v \in CodeScanners : ScanGoto(Dest(v))
  BY DEF ChooseScanner
<1>3. Dest(v) \in ScanViews \cup {ScanHome} /\ Dest(v) \notin KeyViews
  BY ViewsOf
<1>4. CodesMoved /\ (KeyFree => KeyFree')
  BY <1>1, <1>2, <1>3, CodeVisits DEF ScanGoto
<1> QED
  BY <1>4, CodesGoOn DEF ChooseScanner, Answered, KeepCodes, KeepCandidate, CodesInv, CodesTypeOK

\* A scan leads on, or asks about the code that it has stored.
CodeLeads(c) ==
    \/ CodesMoved /\ (KeyFree => KeyFree') /\ asks' = NoCode /\ pending' \in Codes \cup {NoCode}
    \/ asks' = c /\ UNCHANGED <<place, trail, pending>>

LEMMA CodeGoesOn ==
    ASSUME CodesInv, NEW c, UNCHANGED pending, Answered,
           \/ CodeBack
           \/ \E d \in PlainViews, skip, clear \in BOOLEAN : ScanNav!Visit(d, skip, clear)
    PROVE  CodeLeads(c)
<1>1. CodesMoved /\ (KeyFree => KeyFree')
  BY PlainStep, CodeReturns DEF CodeBack
<1>2. pending' \in Codes \cup {NoCode}
  BY DEF CodesInv, CodesTypeOK
<1> QED
  BY <1>1, <1>2 DEF CodeLeads, Answered

LEMMA LeadsOn ==
    ASSUME CodesInv, NEW c \in Codes, NEW t, Leads(t, c)
    PROVE  CodeLeads(c) /\ (asks' # NoCode => t = "seed__encryptedqr")
<1> DEFINE Seeds == {"seed__seedqr", "seed__mnemonic", "seed__four_letter_mnemonic", "seed__compactseedqr"}
<1>1. ASSUME NEW skip \in BOOLEAN, Loads(c, skip), Answered PROVE CodeLeads(c) /\ asks' = NoCode
  BY <1>1, LoadsWell DEF CodeLeads, Answered
<1>2. CASE t \in Seeds
  <2>1. ScannedSeed(t, c)
    BY <1>2 DEF Leads
  <2>2. CASE Loads(c, FALSE)
    BY <1>1, <2>1, <2>2 DEF ScannedSeed
  <2>3. CASE ~Loads(c, FALSE)
    <3>1. CodeBack /\ UNCHANGED pending /\ Answered
      BY <2>1, <2>3 DEF ScannedSeed
    <3> QED
      BY <3>1, CodeGoesOn DEF Answered
  <2> QED
    BY <2>2, <2>3
<1>3. CASE t = "seed__xprv"
  BY <1>1, <1>3 DEF Leads
<1>4. CASE t = "seed__encryptedqr"
  <2>1. Asks(c) /\ UNCHANGED pending
    BY <1>4 DEF Leads
  <2> QED
    BY <1>4, <2>1 DEF CodeLeads, Asks
<1>5. CASE t \notin Seeds \cup {"seed__xprv", "seed__encryptedqr"}
  <2>1. /\ Answered /\ UNCHANGED pending
        /\ CASE t = "seed__ambiguous_qr" -> ScanForward(Prompt(c))
             [] t \in {"wif", "bip38"} ->
                    IF t \in Enabled THEN ScanForward(Workflow) ELSE ScanGoto(InvalidCode)
             [] t \in {"psbt__base64", "psbt__base43", "psbt__bbqr", "psbt__specter", "psbt__ur2"} ->
                    ScanForward(Workflow) \/ ScanRestart(ScanHome)
             [] t \in {"wallet__specter", "wallet__generic", "wallet__configfile", "output__ur", "bitcoin_address"} ->
                    ScanForward(Workflow)
             [] t = "set_time" -> ScanGoto(ScanHome) \/ ScanGoto(ScanError)
             [] OTHER -> ScanGoto(Workflow)
    BY <1>5 DEF Leads
  <2>2. \/ ScanForward(Prompt(c)) \/ ScanForward(Workflow) \/ ScanGoto(InvalidCode) \/ ScanRestart(ScanHome)
        \/ ScanGoto(ScanHome) \/ ScanGoto(ScanError) \/ ScanGoto(Workflow)
    BY <2>1
  <2>3. \E d \in PlainViews, skip, clear \in BOOLEAN : ScanNav!Visit(d, skip, clear)
    BY <2>2, PlainAre DEF ScanForward, ScanGoto, ScanRestart
  <2> QED
    BY <2>1, <2>3, CodeGoesOn DEF Answered
<1> QED
  BY <1>2, <1>3, <1>4, <1>5

LEMMA ScanHolds == ASSUME CodesInv, ScanCode PROVE CodesInv'
<1>1. PICK v \in CodeScanners, c \in Codes :
        LET t == DetectedType(Tests(c), preference)
            o == Outcome("any", Tests(c), preference)
        IN /\ ScanAt(v) /\ asks = NoCode
           /\ candidate' = IF StoresCandidate("any", Tests(c), preference) THEN Stored(c) ELSE candidate
           /\ UNCHANGED agreed /\ KeepRest
           /\ CASE o = "raises" -> ScanRestart(Crashed) /\ Answered /\ UNCHANGED pending
                [] o = "complete" ->
                    IF v = "ScanSlip39ShareQRView" THEN ScanShare(t)
                    ELSE IF Expected(v, t) THEN Leads(t, c)
                    ELSE ScanGoto(ScanError) /\ Answered /\ UNCHANGED pending
                [] o = "invalid" ->
                    /\ Answered /\ UNCHANGED pending
                    /\ IF t = "invalid" THEN ScanGoto(InvalidCode)
                       ELSE IF v = "ScanSlip39ShareQRView"
                       THEN IF t = "seed__slip39" THEN ScanForward(Workflow) ELSE CodeBack
                       ELSE ScanGoto(ScanHome)
  BY DEF ScanCode
<1> DEFINE t == DetectedType(Tests(c), preference)
           o == Outcome("any", Tests(c), preference)
<1>2. o \in {"raises", "complete", "invalid"}
  BY DEF Outcome
<1>3. /\ candidate' = IF t = "seed__encryptedqr" THEN c ELSE candidate
      /\ agreed' = agreed /\ KeepRest /\ place.view = v
  BY <1>1 DEF StoresCandidate, Stored, ScanAt
<1>4. KeyFree
  BY <1>3, PlaceIs
<1>5. CodeLeads(c) /\ (asks' # NoCode => t = "seed__encryptedqr")
  <2>1. ASSUME Answered, UNCHANGED pending,
               \/ CodeBack \/ ScanForward(Workflow) \/ ScanGoto(InvalidCode) \/ ScanGoto(ScanHome)
               \/ ScanGoto(ScanError) \/ ScanGoto(Workflow) \/ ScanRestart(Crashed)
        PROVE  CodeLeads(c) /\ (asks' # NoCode => t = "seed__encryptedqr")
    <3>1. CodeBack \/ \E d \in PlainViews, skip, clear \in BOOLEAN : ScanNav!Visit(d, skip, clear)
      BY <2>1, PlainAre DEF ScanForward, ScanGoto, ScanRestart
    <3> QED
      BY <2>1, <3>1, CodeGoesOn DEF Answered
  <2> HIDE DEF t, o
  <2>2. CASE o = "raises"
    BY <1>1, <2>1, <2>2 DEF t, o
  <2>3. CASE o = "complete"
    <3>1. IF v = "ScanSlip39ShareQRView" THEN ScanShare(t)
          ELSE IF Expected(v, t) THEN Leads(t, c)
          ELSE ScanGoto(ScanError) /\ Answered /\ UNCHANGED pending
      BY <1>1, <2>3 DEF t, o
    <3>2. CASE v = "ScanSlip39ShareQRView"
      BY <2>1, <3>1, <3>2 DEF ScanShare
    <3>3. CASE v # "ScanSlip39ShareQRView"
      BY <2>1, <3>1, <3>3, LeadsOn
    <3> QED
      BY <3>2, <3>3
  <2>4. CASE o = "invalid"
    <3>1. /\ Answered /\ UNCHANGED pending
          /\ CodeBack \/ ScanForward(Workflow) \/ ScanGoto(InvalidCode) \/ ScanGoto(ScanHome)
      BY <1>1, <2>4 DEF t, o
    <3> QED
      BY <2>1, <3>1
  <2> QED
    BY <1>2, <2>2, <2>3, <2>4
<1> HIDE DEF t, o
<1>6. KeyFree' /\ CodesHistory' /\ ScannersFirst'
  <2>1. CASE UNCHANGED <<place, trail>>
    BY <1>4, <2>1 DEF CodesInv, CodesHistory, CodeLaws!Tidy, CodeLaws!Distinct, ScannersFirst, KeyFree
  <2>2. CASE CodesMoved /\ (KeyFree => KeyFree')
    BY <1>4, <2>2 DEF CodesMoved
  <2> QED
    BY <1>5, <2>1, <2>2 DEF CodeLeads
<1>7. CodesTypeOK'
  <2>1. CodeLaws!Tidy' /\ \A k \in DOMAIN trail' : trail'[k] \in ScanViews
    BY <1>6 DEF CodesHistory, CodeLaws!Tidy
  <2>2. {asks', candidate', agreed', pending'} \subseteq Codes \cup {NoCode}
    BY <1>3, <1>5 DEF CodeLeads, CodesInv, CodesTypeOK
  <2>3. preference' = preference /\ wiped' = wiped
    BY <1>3 DEF KeepRest
  <2> QED
    BY <2>1, <2>2, <2>3 DEF CodesInv, CodesTypeOK, CodeLaws!Tidy
<1>8. AskedIsStored'
  BY <1>3, <1>5 DEF AskedIsStored, CodeLeads
<1> QED
  BY <1>6, <1>7, <1>8 DEF CodesInv, OldIsOutOfReach

LEMMA LeaveScanHolds == ASSUME CodesInv, LeaveScan PROVE CodesInv'
<1>1. CodeBack \/ ScanGoto(ScanHome)
  BY DEF LeaveScan
<1>2. CodesMoved /\ (KeyFree => KeyFree')
  BY <1>1, CodeReturns, PlainStep, PlainAre DEF CodeBack, ScanGoto
<1> QED
  BY <1>2, CodesGoOn DEF LeaveScan, Answered, KeepCodes, KeepCandidate, CodesInv, CodesTypeOK

(* Agreed: from a scanner, whose code is stored already, or from a view     *)
(* that stores it now.                                                      *)
LEMMA AgreeHolds == ASSUME CodesInv, Agree PROVE CodesInv'
<1>1. /\ asks # NoCode /\ agreed' = asks /\ asks' = NoCode /\ pending' = pending
      /\ preference' = preference /\ wiped' = wiped
  BY DEF Agree, Answered, KeepRest
<1>2. AskKey \in KeyViews
  BY DEF KeyViews
<1>3. CodesMoved
  BY <1>2, KeyStep DEF Agree, ScanGoto, ScanForward
<1>4. candidate' \in {NoCode, agreed'}
  <2>1. CASE place.view \in CodeScanners
    BY <1>1, <2>1 DEF Agree, KeepCandidate, CodesInv, AskedIsStored
  <2>2. CASE place.view \notin CodeScanners
    BY <1>1, <2>2 DEF Agree, Stored
  <2> QED
    BY <2>1, <2>2
<1>5. CodesTypeOK'
  <2>1. CodeLaws!Tidy' /\ \A k \in DOMAIN trail' : trail'[k] \in ScanViews
    BY <1>3 DEF CodesMoved, CodesHistory, CodeLaws!Tidy
  <2> QED
    BY <1>1, <1>3, <1>4, <2>1 DEF CodesInv, CodesTypeOK, CodesMoved
<1> QED
  BY <1>1, <1>3, <1>4, <1>5 DEF CodesInv, CodesMoved, OldIsOutOfReach, AskedIsStored

LEMMA DisagreeHolds == ASSUME CodesInv, Disagree PROVE CodesInv'
<1>1. CodesMoved /\ (KeyFree => KeyFree')
  BY PlainStep, PlainAre DEF Disagree, ScanGoto
<1>2. candidate' \in {candidate, NoCode}
  BY DEF Disagree
<1> QED
  BY <1>1, <1>2, CodesGoOn DEF Disagree, Answered, CodesInv, CodesTypeOK

\* A view asks about its code, which is no scanner's.
LEMMA AsksHere ==
    ASSUME CodesInv, NEW c \in Codes, Asks(c), place.view \notin CodeScanners, UNCHANGED <<agreed, pending>>,
           candidate' \in {candidate, NoCode}, KeepRest
    PROVE  CodesInv'
<1>1. place' = place /\ trail' = trail /\ asks' = c
  BY DEF Asks
<1>2. CodesTypeOK' /\ AskedIsStored'
  BY <1>1 DEF CodesInv, CodesTypeOK, KeepRest, AskedIsStored
<1>3. CodesHistory' /\ ScannersFirst' /\ OldIsOutOfReach'
  BY <1>1 DEF CodesInv, CodesHistory, CodeLaws!Tidy, CodeLaws!Distinct, ScannersFirst, OldIsOutOfReach, KeyFree
<1> QED
  BY <1>2, <1>3 DEF CodesInv

LEMMA ChooseTypeHolds == ASSUME CodesInv, ChooseType PROVE CodesInv'
<1>1. place.view = "ScanAmbiguousQRPromptView" /\ place.code \in Codes /\ place.view \notin CodeScanners
  BY PlaceIs DEF ChooseType, ScanAt, CodeScanners
<1>2. candidate' = candidate /\ agreed' = agreed /\ KeepRest
  BY DEF ChooseType, KeepCandidate
<1>3. CASE Asks(place.code) /\ UNCHANGED pending
  BY <1>1, <1>2, <1>3, AsksHere
<1>4. CASE Loads(place.code, FALSE) /\ Answered
  BY <1>1, <1>2, <1>4, LoadsWell, CodesGoOn DEF Answered
<1>5. CASE ScanGoto(ScanHome) /\ Answered /\ UNCHANGED pending
  <2>1. CodesMoved /\ (KeyFree => KeyFree')
    BY <1>5, PlainStep, PlainAre DEF ScanGoto
  <2> QED
    BY <1>2, <1>5, <2>1, CodesGoOn DEF Answered, CodesInv, CodesTypeOK
<1> QED
  BY <1>3, <1>4, <1>5 DEF ChooseType

(* The views of a key: what they lead to is reached with a candidate that   *)
(* was agreed to, or none.                                                  *)
LEMMA FromKeyView ==
    ASSUME CodesInv, place.view \in KeyNames, Answered, KeepCodes,
           CodeBack \/ \E d \in KeyViews : ScanGoto(d) \/ ScanForward(d)
    PROVE  CodesInv'
<1>1. ~KeyFree
  BY PlaceIs DEF KeyFree
<1>2. CodesMoved
  BY CodeReturns, KeyStep DEF CodeBack, ScanGoto, ScanForward
<1> QED
  BY <1>1, <1>2, CodesGoOn DEF Answered, KeepCodes, KeepCandidate, CodesInv, CodesTypeOK

LEMMA KeyViewOf ==
    ASSUME NEW k \in DecryptKeys
    PROVE  {KeyTyper(k), ExitDialog(k), KeyScanner(k), KeyReview(k), Decrypt(k)} \subseteq KeyViews
BY DEF KeyViews

LEMMA NoKeyYet == <<>> \in DecryptKeys
<1>1. 0 \in 0..(MaxPieces + 1) /\ <<>> \in [1..0 -> Pieces]
  BY CodesAssumption
<1> QED
  BY <1>1 DEF DecryptKeys

LEMMA LongerKey ==
    ASSUME NEW k \in DecryptKeys, NEW p \in Pieces, Len(k) <= MaxPieces
    PROVE  Append(k, p) \in DecryptKeys
<1>1. PICK n \in 0..(MaxPieces + 1) : k \in [1..n -> Pieces]
  BY DEF DecryptKeys
<1>2. n \in Nat /\ MaxPieces \in Nat
  BY <1>1, CodesAssumption
<1>3. k \in Seq(Pieces) /\ Len(k) = n
  <2>1. k \in Seq(Pieces)
    BY <1>1, <1>2, SeqDef
  <2>2. DOMAIN k = 1..n /\ DOMAIN k = 1..Len(k) /\ Len(k) \in Nat
    BY <1>1, <2>1, LenProperties
  <2> QED
    BY <1>2, <2>1, <2>2
<1>4. Append(k, p) \in Seq(Pieces) /\ Len(Append(k, p)) = n + 1
  BY <1>3, AppendProperties
<1>5. Append(k, p) \in [1..(n + 1) -> Pieces]
  BY <1>2, <1>4, LenProperties, ElementOfSeq
<1>6. n + 1 \in 0..(MaxPieces + 1)
  BY <1>2, <1>3
<1> QED
  BY <1>5, <1>6 DEF DecryptKeys

LEMMA ChooseKeySourceHolds == ASSUME CodesInv, ChooseKeySource PROVE CodesInv'
<1>1. place.view \in KeyNames
  BY DEF ChooseKeySource, ScanAt, KeyNames
<1>2. CASE (ScanGoto(KeyTyper(<<>>)) \/ ScanGoto(KeyScanner(<<>>))) /\ KeepCandidate
  <2>1. \E d \in KeyViews : ScanGoto(d) \/ ScanForward(d)
    BY <1>2, NoKeyYet, KeyViewOf
  <2> QED
    BY <1>1, <1>2, <2>1, FromKeyView DEF ChooseKeySource, KeepCodes
<1>3. CASE ScanGoto(ScanHome) /\ candidate' = NoCode
  <2>1. CodesMoved /\ (KeyFree => KeyFree')
    BY <1>3, PlainStep, PlainAre DEF ScanGoto
  <2> QED
    BY <1>3, <2>1, CodesGoOn DEF ChooseKeySource, Answered, CodesInv, CodesTypeOK
<1> QED
  BY <1>2, <1>3 DEF ChooseKeySource

LEMMA KeysHoldCodes == ASSUME CodesInv, EnterKey \/ ConfirmExit \/ AppendKey \/ ReviewKey PROVE CodesInv'
<1>1. place.view \in KeyNames /\ Answered /\ KeepCodes
  BY DEF EnterKey, ConfirmExit, AppendKey, ReviewKey, ScanAt, KeyNames
<1>2. place.key \in DecryptKeys
  BY <1>1, PlaceIs
<1>3. CodeBack \/ \E d \in KeyViews : ScanGoto(d) \/ ScanForward(d)
  <2>1. CASE EnterKey
    BY <2>1, KeyViewOf DEF EnterKey
  <2>2. CASE ConfirmExit
    BY <1>2, <2>2, KeyViewOf DEF ConfirmExit
  <2>3. CASE AppendKey
    BY <1>2, <2>3, LongerKey, KeyViewOf DEF AppendKey
  <2>4. CASE ReviewKey
    BY <1>2, <2>4, KeyViewOf DEF ReviewKey
  <2> QED
    BY <2>1, <2>2, <2>3, <2>4
<1> QED
  BY <1>1, <1>3, FromKeyView

(* Decrypting uses the candidate up, or goes back and keeps it.             *)
LEMMA DecryptHolds == ASSUME CodesInv, DecryptIt PROVE CodesInv'
<1>1. place.view \notin CodeScanners /\ agreed' = agreed /\ KeepRest
  BY DEF DecryptIt, ScanAt, CodeScanners
<1>2. CASE candidate # NoCode /\ KeyOf(candidate) = place.key
  <2> DEFINE c == Inside(candidate)
             t == PayloadType(Tests(c), preference)
  <2>1. c \in Codes
    BY <1>2, CodesAssumption DEF CodesInv, CodesTypeOK
  <2>2. candidate' = NoCode /\ Route(c)
    BY <1>2 DEF DecryptIt
  <2>3. CASE t \in {"seed__compactseedqr", "seed__xprv"}
    <3>1. Loads(c, TRUE) /\ Answered
      BY <2>2, <2>3 DEF Route
    <3> HIDE DEF c, t
    <3> QED
      BY <1>1, <2>1, <2>2, <3>1, LoadsWell, CodesGoOn DEF Answered
  <2>4. CASE t = "seed__encryptedqr"
    <3>1. Asks(c) /\ UNCHANGED pending
      BY <2>2, <2>4 DEF Route
    <3> HIDE DEF c, t
    <3> QED
      BY <1>1, <2>1, <2>2, <3>1, AsksHere
  <2>5. CASE t \notin {"seed__compactseedqr", "seed__xprv", "seed__encryptedqr"}
    <3>1. /\ Answered /\ UNCHANGED pending
          /\ ScanForward(Prompt(c)) \/ ScanForward(DecryptedText(c)) \/ ScanGoto(InvalidCode)
      BY <2>2, <2>5 DEF Route
    <3> HIDE DEF c, t
    <3>2. CodesMoved /\ (KeyFree => KeyFree')
      BY <2>1, <3>1, PlainStep, PlainAre DEF ScanForward, ScanGoto
    <3> QED
      BY <1>1, <2>2, <3>1, <3>2, CodesGoOn DEF Answered, CodesInv, CodesTypeOK
  <2> QED
    BY <2>3, <2>4, <2>5
<1>3. CASE ~(candidate # NoCode /\ KeyOf(candidate) = place.key)
  <2>1. CodeBack /\ Answered /\ UNCHANGED pending /\ KeepCandidate
    BY <1>3 DEF DecryptIt
  <2>2. CodesMoved /\ (KeyFree => KeyFree')
    BY <2>1, CodeReturns DEF CodeBack
  <2> QED
    BY <1>1, <2>1, <2>2, CodesGoOn DEF Answered, KeepCandidate, CodesInv, CodesTypeOK
<1> QED
  BY <1>2, <1>3

LEMMA FinishHolds == ASSUME CodesInv, FinishScan PROVE CodesInv'
<1>1. \/ ScanRestart(ScanHome) \/ ScanForward(ScanHome)
      \/ \E skip \in BOOLEAN : ScanNav!GoBack(skip)
  BY DEF FinishScan, CodeBack
<1>2. CodesMoved /\ (KeyFree => KeyFree')
  BY <1>1, CodeReturns, PlainStep, PlainAre DEF ScanRestart, ScanForward
<1>3. pending' \in Codes \cup {NoCode}
  BY DEF FinishScan, CodesInv, CodesTypeOK
<1> QED
  BY <1>2, <1>3, CodesGoOn DEF FinishScan, Answered, KeepCandidate

(* The wipe takes the candidate along with the history; a setting touches   *)
(* neither.                                                                 *)
LEMMA WipeHolds == ASSUME CodesInv, ScanWipe PROVE CodesInv'
<1>1. /\ trail' = <<>> /\ place' = place /\ asks' = asks /\ agreed' = agreed /\ preference' = preference
      /\ candidate' = NoCode /\ pending' = NoCode /\ wiped < WipeBound /\ wiped' = wiped + 1
  BY DEF ScanWipe, ScanNav!Forget
<1>2. CodesHistory' /\ ScannersFirst'
  BY <1>1 DEF CodesInv, CodesHistory, CodeLaws!Tidy, CodeLaws!Distinct, ScannersFirst
<1>3. CodesTypeOK'
  <2>1. wiped' \in 0..WipeBound
    BY <1>1, CodesAssumption DEF CodesInv, CodesTypeOK
  <2>2. DOMAIN trail' = {}
    BY <1>1
  <2> QED
    BY <1>1, <2>1, <2>2 DEF CodesInv, CodesTypeOK
<1> QED
  BY <1>1, <1>2, <1>3 DEF CodesInv, OldIsOutOfReach, AskedIsStored

LEMMA CodesStay ==
    ASSUME CodesInv, UNCHANGED <<place, trail, asks, candidate, agreed, pending, wiped>>,
           preference' \in {"compact", "encrypted", "prompt"}
    PROVE  CodesInv'
<1>1. CodesHistory' /\ ScannersFirst' /\ OldIsOutOfReach'
  BY DEF CodesInv, CodesHistory, CodeLaws!Tidy, CodeLaws!Distinct, ScannersFirst, OldIsOutOfReach, KeyFree
<1>2. CodesTypeOK' /\ AskedIsStored'
  BY DEF CodesInv, CodesTypeOK, AskedIsStored
<1> QED
  BY <1>1, <1>2 DEF CodesInv

LEMMA CodesStart == CodesInit => CodesInv
<1> SUFFICES ASSUME CodesInit PROVE CodesInv
  OBVIOUS
<1>1. /\ place = ScanHome /\ trail = <<>> /\ Len(trail) = 0 /\ DOMAIN trail = {} /\ candidate = NoCode /\ asks = NoCode
  BY DEF CodesInit
<1>2. CodesHistory /\ ScannersFirst
  BY <1>1 DEF CodesHistory, CodeLaws!Tidy, CodeLaws!Distinct, ScannersFirst
<1>3. CodesTypeOK
  BY <1>1, CodesAssumption DEF CodesInit, CodesTypeOK
<1> QED
  BY <1>1, <1>2, <1>3 DEF CodesInv, OldIsOutOfReach, AskedIsStored

LEMMA CodesStep == CodesInv /\ [CodesNext]_codesVars => CodesInv'
<1> SUFFICES ASSUME CodesInv, [CodesNext]_codesVars PROVE CodesInv'
  OBVIOUS
<1>1. CASE ChooseScanner \/ ScanCode \/ LeaveScan
  BY <1>1, ChooseScannerHolds, ScanHolds, LeaveScanHolds
<1>2. CASE Agree \/ Disagree \/ ChooseType
  BY <1>2, AgreeHolds, DisagreeHolds, ChooseTypeHolds
<1>3. CASE ChooseKeySource \/ EnterKey \/ ConfirmExit \/ AppendKey \/ ReviewKey
  BY <1>3, ChooseKeySourceHolds, KeysHoldCodes
<1>4. CASE DecryptIt \/ FinishScan
  BY <1>4, DecryptHolds, FinishHolds
<1>5. CASE ChangeSetting
  BY <1>5, CodesStay DEF ChangeSetting
<1>6. CASE ScanWipe
  BY <1>6, WipeHolds
<1>7. CASE UNCHANGED codesVars
  BY <1>7, CodesStay DEF codesVars, CodesInv, CodesTypeOK
<1> QED
  BY <1>1, <1>2, <1>3, <1>4, <1>5, <1>6, <1>7 DEF CodesNext

(* The scanning views, and the code that is stored, asked about, agreed to  *)
(* and loaded as a seed are what they are taken for.                        *)
THEOREM CodesAreTyped == CodesSpec => []CodesTypeOK
<1>1. CodesInv => CodesTypeOK
  BY DEF CodesInv
<1> QED
  BY <1>1, CodesStart, CodesStep, PTL DEF CodesSpec

(* A key is asked for, and tried on, nothing but the code whose decryption  *)
(* the user agreed to last: a code that a scan stored on the way to         *)
(* somewhere else (store_encrypted_qr_candidate runs when a code is         *)
(* detected) is replaced before a view of a key can be reached.             *)
THEOREM OnlyAgreedIsDecrypted == CodesSpec => []DecryptsAgreed
<1>1. CodesInv => DecryptsAgreed
  BY DEF CodesInv, OldIsOutOfReach, KeyFree, DecryptsAgreed
<1> QED
  BY <1>1, CodesStart, CodesStep, PTL DEF CodesSpec

-----------------------------------------------------------------------------
(* Keys that are rebuilt from a record *)

\* Subkeys are listed.
IsList(s) == s \in Seq(Range(s))
IsKey(e) == DOMAIN e = {"subs", "uids"} /\ IsList(e.subs)

\* How a subkey on record of a key was derived.
NthOfSet(p, start, t, ty) ==
    [index |-> start + t, key |-> DerivedKey(p.seed, p.version, ty, <<p.path[1] + start \div 3, (start % 3) + t>>)]
InSet(p, sk) == \E start \in Nat, t \in Trio : \E ty : sk = NthOfSet(p, start, t, ty)

IsRecord(p, e) ==
    /\ DOMAIN e = {"seed", "type", "index", "version", "uids", "primary", "subs"}
    /\ p = DerivedKey(e.seed, p.version, e.type, <<e.index>>) /\ e.index \in Nat
    /\ IsFiniteSet(e.subs) /\ \A sk \in e.subs : InSet(p, sk)

RingInv ==
    /\ \A p \in DOMAIN keyring : IsKey(keyring[p])
    /\ \A p \in DOMAIN bip85Data : IsRecord(p, bip85Data[p])
    /\ \A p \in DOMAIN savedData : IsRecord(p, savedData[p])

(* A sequence over any set is a list, and so is a function on 1..n.         *)
LEMMA SeqIsList ==
    ASSUME NEW S, NEW s \in Seq(S)
    PROVE  IsList(s)
<1>1. s \in [1..Len(s) -> S] /\ DOMAIN s = 1..Len(s) /\ Len(s) \in Nat
  OBVIOUS
<1>2. \A n \in 1..Len(s) : s[n] \in Range(s)
  BY <1>1 DEF Range
<1> QED
  BY <1>1, <1>2 DEF IsList

LEMMA ListIsList ==
    ASSUME NEW n \in Nat, NEW s, s = [m \in 1..n |-> s[m]]
    PROVE  IsList(s)
<1>1. DOMAIN s = 1..n /\ \A m \in 1..n : s[m] \in Range(s)
  BY DEF Range
<1>2. s \in [1..n -> Range(s)]
  BY <1>1
<1> QED
  BY <1>2 DEF IsList

(* Lists one after the other have the elements of both.                     *)
LEMMA JoinedRange ==
    ASSUME NEW s, NEW t, IsList(s), IsList(t)
    PROVE  IsList(s \o t) /\ Range(s \o t) = Range(s) \cup Range(t)
<1>1. s \in Seq(Range(s) \cup Range(t)) /\ t \in Seq(Range(s) \cup Range(t))
  BY DEF IsList
<1>2. /\ s \o t \in Seq(Range(s) \cup Range(t)) /\ Len(s \o t) = Len(s) + Len(t)
      /\ \A n \in 1..(Len(s) + Len(t)) : (s \o t)[n] = IF n <= Len(s) THEN s[n] ELSE t[n - Len(s)]
  BY <1>1
<1>3. DOMAIN s = 1..Len(s) /\ DOMAIN t = 1..Len(t) /\ DOMAIN (s \o t) = 1..(Len(s) + Len(t)) /\ Len(s) \in Nat /\ Len(t) \in Nat
  BY <1>1, <1>2
<1>4. \A n \in DOMAIN s : s[n] = (s \o t)[n] /\ n \in DOMAIN (s \o t)
  BY <1>2, <1>3
<1>5. \A n \in DOMAIN t : t[n] = (s \o t)[Len(s) + n] /\ Len(s) + n \in DOMAIN (s \o t)
  BY <1>2, <1>3
<1>6. Range(s \o t) = Range(s) \cup Range(t)
  <2> DEFINE u == s \o t
  <2>1. \A n \in DOMAIN u : u[n] \in Range(s) \cup Range(t)
    BY <1>2, <1>3
  <2>2. \A n \in DOMAIN s : s[n] \in Range(u)
    BY <1>4 DEF Range
  <2>3. \A n \in DOMAIN t : t[n] \in Range(u)
    BY <1>5 DEF Range
  <2> HIDE DEF u
  <2>4. Range(u) = Range(s) \cup Range(t)
    BY <2>1, <2>2, <2>3 DEF Range
  <2> QED
    BY <2>4 DEF u
<1> QED
  BY <1>2, <1>6 DEF IsList

(* The number of a subkey says where it was derived when it is in a whole  *)
(* set of a key at index 0, and only then.                                  *)
LEMMA NumbersAgree ==
    ASSUME NEW ix \in Nat, NEW start \in Nat, NEW t \in Trio
    PROVE  <<ix + start \div 3, (start % 3) + t>> = <<(start + t) \div 3, (start + t) % 3>>
               <=> ix = 0 /\ (start % 3) + t \in Trio
<1>1. \A n \in Nat : n \div 3 \in Int /\ n % 3 \in 0..2 /\ n = 3 * (n \div 3) + (n % 3)
  OBVIOUS
<1>2. t \in 0..2 /\ start + t \in Nat
  BY DEF Trio
<1> DEFINE q == start \div 3
           r == start % 3
           Q == (start + t) \div 3
           R == (start + t) % 3
<1>3. q \in Int /\ r \in 0..2 /\ start = 3 * q + r /\ Q \in Int /\ R \in 0..2 /\ start + t = 3 * Q + R
  BY <1>1, <1>2
<1> HIDE DEF q, r, Q, R
<1>4. ix + q = Q /\ r + t = R <=> ix = 0 /\ r + t \in 0..2
  BY <1>2, <1>3
<1> QED
  BY <1>4 DEF q, r, Q, R, Trio

-----------------------------------------------------------------------------
(* Every step keeps the lists lists and the records records. *)

(* A list stays one without one of its elements.                            *)
LEMMA ShorterIsList ==
    ASSUME NEW s, IsList(s), NEW j \in DOMAIN s
    PROVE  IsList(RemoveAt(s, j))
<1> DEFINE R == Range(s)
<1>1. s \in Seq(R) /\ j \in 1..Len(s) /\ Len(s) \in Nat
  BY DEF IsList
<1>2. SubSeq(s, 1, j - 1) \in Seq(R) /\ SubSeq(s, j + 1, Len(s)) \in Seq(R)
  BY <1>1
<1>3. RemoveAt(s, j) \in Seq(R)
  BY <1>2 DEF RemoveAt
<1> QED
  BY <1>3, SeqIsList

(* The list of a finite set of subkeys is one, whatever their order.        *)
LEMMA OrderIsList ==
    ASSUME NEW D, IsFiniteSet(D)
    PROVE  IsList(InOrder(D))
<1>1. Cardinality(D) \in Nat
  BY FS_CardinalityType
<1> DEFINE nth(n) == CHOOSE k \in D :
                        Cardinality({m \in D : 3 * m.path[1] + m.path[2] <= 3 * k.path[1] + k.path[2]}) = n
           list == [n \in 1..Cardinality(D) |-> nth(n)]
<1>2. InOrder(D) = list
  BY DEF InOrder
<1> HIDE DEF nth
<1>3. list = [n \in 1..Cardinality(D) |-> list[n]]
  OBVIOUS
<1> HIDE DEF list
<1> QED
  BY <1>1, <1>2, <1>3, ListIsList

LEMMA TrioIsFinite == IsFiniteSet(Trio) /\ Trio \subseteq Nat
<1>1. \A a, b \in Int : IsFiniteSet(a..b)
  BY FS_Interval
<1>2. IsFiniteSet(0..2)
  <2>1. 0 \in Int /\ 2 \in Int
    OBVIOUS
  <2> QED
    BY <1>1, <2>1, Zenon
<1> QED
  BY <1>2 DEF Trio

(* What is put into the keyring, on record or in its place.                 *)
LEMMA PutKeepsRecords ==
    ASSUME NEW f, \A q \in DOMAIN f : IsRecord(q, f[q]), NEW p, NEW e, IsRecord(p, e)
    PROVE  /\ \A q \in DOMAIN WithKey(f, p, e) : IsRecord(q, WithKey(f, p, e)[q])
           /\ \A q \in DOMAIN [f EXCEPT ![p] = e] : IsRecord(q, [f EXCEPT ![p] = e][q])
BY DEF WithKey

LEMMA PutKeepsKeys ==
    ASSUME NEW f, \A q \in DOMAIN f : IsKey(f[q]), NEW p, NEW e, IsKey(e)
    PROVE  /\ \A q \in DOMAIN WithKey(f, p, e) : IsKey(WithKey(f, p, e)[q])
           /\ \A q \in DOMAIN [f EXCEPT ![p] = e] : IsKey([f EXCEPT ![p] = e][q])
BY DEF WithKey

(* The subkeys of a set, and the keys of subkeys, are finitely many.        *)
LEMMA SetIsFinite ==
    ASSUME NEW p, NEW start, NEW ty
    PROVE  IsFiniteSet({NthOfSet(p, start, t, ty) : t \in Trio})
<1> DEFINE set == {NthOfSet(p, start, t, ty) : t \in Trio}
<1>1. [t \in Trio |-> NthOfSet(p, start, t, ty)] \in Surjection(Trio, set)
  BY DEF Surjection
<1> HIDE DEF set
<1>2. IsFiniteSet(set)
  BY <1>1, TrioIsFinite, FS_Surjection
<1> QED
  BY <1>2 DEF set

LEMMA KeysAreFinite ==
    ASSUME NEW S, IsFiniteSet(S)
    PROVE  IsFiniteSet({sk.key : sk \in S})
<1> DEFINE keys == {sk.key : sk \in S}
<1>1. [sk \in S |-> sk.key] \in Surjection(S, keys)
  BY DEF Surjection
<1> HIDE DEF keys
<1>2. IsFiniteSet(keys)
  BY <1>1, FS_Surjection
<1> QED
  BY <1>2 DEF keys

LEMMA RingStarts == RingInit => RingInv
BY DEF RingInit, RingInv

LEMMA LoadBIP85KeyKeeps ==
    ASSUME RingInv, NEW s, NEW ty, NEW x \in KeyIndexes, NEW u, LoadBIP85Key(s, ty, x, u)
    PROVE  RingInv'
<1> DEFINE p == DerivedKey(s, gpgVersion, ty, <<x>>)
           Sub(t) == DerivedKey(s, gpgVersion, ty, <<x, t>>)
           old == IF p \in DOMAIN keyring THEN keyring[p] ELSE [subs |-> <<>>, uids |-> <<>>]
           missing == {Sub(t) : t \in Trio} \ Range(old.subs)
           uids == IF u \in Range(old.uids) THEN old.uids ELSE Append(old.uids, u)
           key == [subs |-> old.subs \o InOrder(missing), uids |-> uids]
           sks == {[index |-> t, key |-> Sub(t)] : t \in Trio}
           set == {NthOfSet(p, 0, t, ty) : t \in Trio}
           e == [seed |-> s, type |-> ty, index |-> x, version |-> ThisVersion, uids |-> <<u>>, primary |-> u,
                 subs |-> sks]
<1>1. keyring' = WithKey(keyring, p, key) /\ bip85Data' = WithKey(bip85Data, p, e) /\ UNCHANGED savedData
  BY DEF LoadBIP85Key
<1>2. IsList(old.subs)
  <2>1. IsList(<<>>)
    BY DEF IsList, Range
  <2> QED
    BY <2>1 DEF RingInv, IsKey
<1>3. x \in Nat /\ Trio \subseteq Nat
  BY IndexesAreNumbers, TrioIsFinite
<1>4. \A t \in Trio : NthOfSet(p, 0, t, ty) = [index |-> t, key |-> Sub(t)]
  <2> TAKE t \in Trio
  <2>1. 0 + t = t /\ x + 0 \div 3 = x /\ 0 % 3 = 0
    BY <1>3
  <2>2. p.seed = s /\ p.version = gpgVersion /\ p.path = <<x>>
    BY DEF DerivedKey
  <2> QED
    BY <2>1, <2>2 DEF NthOfSet
<1>5. sks = set /\ IsFiniteSet(sks)
  <2>1. sks = set
    BY <1>4
  <2>2. IsFiniteSet(set)
    BY SetIsFinite
  <2> QED
    BY <2>1, <2>2
<1>6. IsFiniteSet(missing)
  <2>1. [t \in Trio |-> Sub(t)] \in Surjection(Trio, {Sub(t) : t \in Trio})
    BY DEF Surjection
  <2>2. IsFiniteSet({Sub(t) : t \in Trio})
    BY <2>1, TrioIsFinite, FS_Surjection
  <2> QED
    BY <2>2, FS_Difference
<1>7. \A sk \in set : InSet(p, sk)
  <2>1. 0 \in Nat
    OBVIOUS
  <2> HIDE DEF p
  <2> QED
    BY <2>1 DEF InSet
<1>8. IsRecord(p, e)
  <2>1. p = DerivedKey(s, p.version, ty, <<x>>)
    BY DEF DerivedKey
  <2> HIDE DEF p, sks, set
  <2> QED
    BY <1>3, <1>5, <1>7, <2>1 DEF IsRecord
<1> HIDE DEF old, missing, uids, e, p
<1>9. IsKey(key)
  <2>1. IsList(old.subs \o InOrder(missing))
    BY <1>2, <1>6, OrderIsList, JoinedRange
  <2> QED
    BY <2>1 DEF IsKey
<1> HIDE DEF key
<1> QED
  BY <1>1, <1>8, <1>9, PutKeepsKeys, PutKeepsRecords DEF RingInv

LEMMA GenerateKeyKeeps ==
    ASSUME RingInv, NEW o, NEW u, GenerateKey(o, u)
    PROVE  RingInv'
<1> DEFINE key == [subs |-> [n \in 1..3 |-> Random(n)], uids |-> <<u>>]
<1>1. keyring' = WithKey(keyring, o, key) /\ UNCHANGED <<bip85Data, savedData>>
  BY DEF GenerateKey
<1>2. IsList([n \in 1..3 |-> Random(n)])
  <2> DEFINE s == [n \in 1..3 |-> Random(n)]
  <2>1. s = [n \in 1..3 |-> s[n]]
    OBVIOUS
  <2> HIDE DEF s
  <2>2. IsList(s)
    BY <2>1, ListIsList
  <2> QED
    BY <2>2 DEF s
<1>3. IsKey(key)
  BY <1>2 DEF IsKey
<1> HIDE DEF key
<1> QED
  BY <1>1, <1>3, PutKeepsKeys DEF RingInv

LEMMA AddSubkeysKeeps ==
    ASSUME RingInv, NEW p \in DOMAIN keyring, NEW ty, AddSubkeys(p, ty)
    PROVE  RingInv'
<1> DEFINE subs == keyring[p].subs
           start == Len(subs)
<1>1. IsKey(keyring[p]) /\ IsList(subs) /\ start \in Nat
  <2>1. IsKey(keyring[p]) /\ IsList(subs)
    BY DEF RingInv, IsKey
  <2> QED
    BY <2>1 DEF IsList
<1>2. ASSUME NEW added, IsList(added), keyring' = [keyring EXCEPT ![p].subs = @ \o added]
      PROVE  \A q \in DOMAIN keyring' : IsKey(keyring'[q])
  <2> DEFINE key == [keyring[p] EXCEPT !.subs = @ \o added]
  <2>1. keyring' = [keyring EXCEPT ![p] = key]
    BY <1>2
  <2>2. IsList(subs \o added)
    BY <1>1, <1>2, JoinedRange
  <2>3. IsKey(key)
    BY <1>1, <2>2 DEF IsKey
  <2> HIDE DEF key
  <2> QED
    BY <2>1, <2>3, PutKeepsKeys DEF RingInv
<1>3. CASE p \in DOMAIN bip85Data
  <2> DEFINE e == bip85Data[p]
             new == NewSubkeys(e, ty, start)
             set == {NthOfSet(p, start, t, ty) : t \in Trio}
             missing == {sk.key : sk \in new} \ Range(subs)
             entry == [e EXCEPT !.subs = @ \cup new]
  <2>1. /\ keyring' = [keyring EXCEPT ![p].subs = @ \o InOrder(missing)]
        /\ bip85Data' = [bip85Data EXCEPT ![p] = entry] /\ UNCHANGED savedData
    BY <1>3 DEF AddSubkeys
  <2>2. IsRecord(p, e) /\ p = DerivedKey(e.seed, e.version, p.type, <<e.index>>)
    BY <1>3 DEF AddSubkeys, Verifies, RingInv
  <2>3. new = set
    <3>1. p.seed = e.seed /\ p.version = e.version /\ p.path[1] = e.index
      BY <2>2 DEF DerivedKey
    <3> HIDE DEF e
    <3> QED
      BY <3>1 DEF NewSubkeys, NthOfSet
  <2>4. IsFiniteSet(new) /\ \A sk \in new : InSet(p, sk)
    <3>1. IsFiniteSet(set)
      BY SetIsFinite
    <3>2. \A sk \in set : InSet(p, sk)
      <4> HIDE DEF start
      <4> QED
        BY <1>1 DEF InSet
    <3> QED
      BY <2>3, <3>1, <3>2
  <2> HIDE DEF new, set
  <2>5. IsFiniteSet(missing)
    BY <2>4, KeysAreFinite, FS_Difference
  <2> HIDE DEF missing
  <2>6. \A q \in DOMAIN keyring' : IsKey(keyring'[q])
    BY <1>2, <2>1, <2>5, OrderIsList
  <2>7. IsRecord(p, entry)
    <3>1. IsFiniteSet(e.subs \cup new)
      BY <2>2, <2>4, FS_Union DEF IsRecord
    <3> QED
      BY <2>2, <2>4, <3>1 DEF IsRecord
  <2> HIDE DEF entry
  <2> QED
    BY <2>1, <2>6, <2>7, PutKeepsRecords DEF RingInv
<1>4. CASE p \notin DOMAIN bip85Data
  <2>1. keyring' = [keyring EXCEPT ![p].subs = @ \o FreshSubkeys(p)] /\ UNCHANGED <<bip85Data, savedData>>
    BY <1>4 DEF AddSubkeys
  <2>2. FreshSubkeys(p) = [n \in 1..3 |-> FreshSubkeys(p)[n]]
    BY DEF FreshSubkeys
  <2>3. IsList(FreshSubkeys(p))
    BY <2>2, ListIsList
  <2> QED
    BY <1>2, <2>1, <2>3 DEF RingInv
<1> QED
  BY <1>3, <1>4

LEMMA DeleteSubkeyKeeps ==
    ASSUME RingInv, NEW p \in DOMAIN keyring, NEW j \in DOMAIN keyring[p].subs, DeleteSubkey(p, j)
    PROVE  RingInv'
<1>1. \A q \in DOMAIN keyring' : IsKey(keyring'[q])
  <2> DEFINE key == [keyring[p] EXCEPT !.subs = RemoveAt(@, j)]
  <2>1. keyring' = [keyring EXCEPT ![p] = key]
    BY DEF DeleteSubkey
  <2>2. IsKey(keyring[p]) /\ IsList(RemoveAt(keyring[p].subs, j))
    BY ShorterIsList DEF RingInv, IsKey
  <2>3. IsKey(key)
    BY <2>2 DEF IsKey
  <2> HIDE DEF key
  <2> QED
    BY <2>1, <2>3, PutKeepsKeys DEF RingInv
<1>2. \A q \in DOMAIN bip85Data' : IsRecord(q, bip85Data'[q])
  <2>1. CASE p \in DOMAIN bip85Data
    <3> DEFINE rest == {sk \in bip85Data[p].subs : sk.key # keyring[p].subs[j]}
               entry == [bip85Data[p] EXCEPT !.subs = rest]
    <3>1. bip85Data' = [bip85Data EXCEPT ![p] = entry]
      BY <2>1 DEF DeleteSubkey
    <3>2. IsRecord(p, bip85Data[p])
      BY <2>1 DEF RingInv
    <3>3. IsFiniteSet(rest)
      BY <3>2, FS_Subset DEF IsRecord
    <3>4. IsRecord(p, entry)
      BY <3>2, <3>3 DEF IsRecord
    <3> HIDE DEF entry
    <3> QED
      BY <3>1, <3>4, PutKeepsRecords DEF RingInv
  <2>2. CASE p \notin DOMAIN bip85Data
    BY <2>2 DEF DeleteSubkey, RingInv
  <2> QED
    BY <2>1, <2>2
<1> QED
  BY <1>1, <1>2 DEF RingInv, DeleteSubkey

LEMMA UidsKeepRecord ==
    ASSUME NEW p, NEW e, IsRecord(p, e), NEW uids, NEW top
    PROVE  /\ IsRecord(p, [e EXCEPT !.uids = uids])
           /\ IsRecord(p, [e EXCEPT !.primary = top, !.uids = uids])
           /\ IsRecord(p, [e EXCEPT !.uids = uids, !.primary = top])
BY DEF IsRecord

(* The views of uids change no subkey, in the keyring or on record.         *)
LEMMA UidsKeep ==
    ASSUME RingInv, NEW p \in DOMAIN keyring, NEW u,
           AddUid(p, u) \/ EditUid(p, u) \/ SetPrimaryUid(p, u) \/ DeleteUid(p, u)
    PROVE  RingInv'
<1>1. \E uids : keyring' = [keyring EXCEPT ![p].uids = uids]
  BY DEF AddUid, EditUid, SetPrimaryUid, DeleteUid
<1>2. \A q \in DOMAIN keyring' : IsKey(keyring'[q])
  BY <1>1 DEF RingInv, IsKey
<1> DEFINE e == bip85Data[p]
<1>3. \/ UNCHANGED bip85Data
      \/ /\ p \in DOMAIN bip85Data
         /\ \E uids, top : \/ bip85Data' = [bip85Data EXCEPT ![p] = [e EXCEPT !.uids = uids]]
                           \/ bip85Data' = [bip85Data EXCEPT ![p] = [e EXCEPT !.primary = top, !.uids = uids]]
                           \/ bip85Data' = [bip85Data EXCEPT ![p] = [e EXCEPT !.uids = uids, !.primary = top]]
  <2>1. CASE AddUid(p, u)
    BY <2>1 DEF AddUid
  <2>2. CASE EditUid(p, u)
    BY <2>2 DEF EditUid
  <2>3. CASE SetPrimaryUid(p, u)
    BY <2>3 DEF SetPrimaryUid
  <2>4. CASE DeleteUid(p, u)
    <3> DEFINE rest == SelectSeq(e.uids, LAMBDA x : x # u)
               top == IF e.primary # u THEN e.primary ELSE IF rest = <<>> THEN None ELSE rest[1]
    <3>1. bip85Data' = IF p \in DOMAIN bip85Data
                       THEN [bip85Data EXCEPT ![p] = [e EXCEPT !.uids = rest, !.primary = top]] ELSE bip85Data
      BY <2>4 DEF DeleteUid
    <3> HIDE DEF rest, top
    <3> QED
      BY <3>1
  <2> QED
    BY <2>1, <2>2, <2>3, <2>4
<1>4. \A q \in DOMAIN bip85Data' : IsRecord(q, bip85Data'[q])
  <2>1. CASE UNCHANGED bip85Data
    BY <2>1 DEF RingInv
  <2>2. CASE p \in DOMAIN bip85Data /\ ~UNCHANGED bip85Data
    <3>1. PICK uids, top : \/ bip85Data' = [bip85Data EXCEPT ![p] = [e EXCEPT !.uids = uids]]
                           \/ bip85Data' = [bip85Data EXCEPT ![p] = [e EXCEPT !.primary = top, !.uids = uids]]
                           \/ bip85Data' = [bip85Data EXCEPT ![p] = [e EXCEPT !.uids = uids, !.primary = top]]
      BY <1>3, <2>2
    <3>2. IsRecord(p, e)
      BY <2>2 DEF RingInv
    <3> HIDE DEF e
    <3>3. \E new : IsRecord(p, new) /\ bip85Data' = [bip85Data EXCEPT ![p] = new]
      BY <3>1, <3>2, UidsKeepRecord
    <3> QED
      BY <3>3, PutKeepsRecords DEF RingInv
  <2> QED
    BY <1>3, <2>1, <2>2
<1>5. UNCHANGED savedData
  BY DEF AddUid, EditUid, SetPrimaryUid, DeleteUid
<1> QED
  BY <1>2, <1>4, <1>5 DEF RingInv

LEMMA RebuildKeeps ==
    ASSUME RingInv, NEW p \in DOMAIN bip85Data, Rebuild(p)
    PROVE  RingInv'
<1> DEFINE e == bip85Data[p]
           old == IF p \in DOMAIN keyring THEN keyring[p] ELSE [subs |-> <<>>, uids |-> <<>>]
           new == RebuiltSubkeys(e) \ Range(old.subs)
           uids == old.uids \o SetToSeq(Range(e.uids) \ Range(old.uids))
           key == [subs |-> old.subs \o InOrder(new), uids |-> uids]
<1>1. keyring' = WithKey(keyring, p, key) /\ UNCHANGED <<bip85Data, savedData>>
  BY DEF Rebuild
<1>2. IsList(old.subs)
  <2>1. IsList(<<>>)
    BY DEF IsList, Range
  <2> QED
    BY <2>1 DEF RingInv, IsKey
<1>3. IsFiniteSet(RebuiltSubkeys(e))
  <2> DEFINE again == [sk \in e.subs |-> RebuiltAt(e.seed, e.version, sk.key.type, sk.index)]
  <2>1. again \in Surjection(e.subs, RebuiltSubkeys(e))
    BY DEF Surjection, RebuiltSubkeys
  <2>2. IsFiniteSet(e.subs)
    BY DEF RingInv, IsRecord
  <2> HIDE DEF again, e
  <2> QED
    BY <2>1, <2>2, FS_Surjection
<1> HIDE DEF e, uids
<1>4. IsFiniteSet(new)
  BY <1>3, FS_Difference
<1> HIDE DEF old, new
<1>5. IsKey(key)
  <2>1. IsList(old.subs \o InOrder(new))
    BY <1>2, <1>4, OrderIsList, JoinedRange
  <2> QED
    BY <2>1 DEF IsKey
<1> HIDE DEF key
<1> QED
  BY <1>1, <1>5, PutKeepsKeys DEF RingInv

LEMMA RingNextKeeps == RingInv /\ [RingNext]_ringVars => RingInv'
<1> SUFFICES ASSUME RingInv, [RingNext]_ringVars PROVE RingInv'
  OBVIOUS
<1>1. ASSUME NEW s, NEW v, LoadGpgSeed(s) \/ ChooseVersion(v) PROVE RingInv'
  BY <1>1 DEF LoadGpgSeed, ChooseVersion, RingInv
<1>2. CASE SaveData
  BY <1>2 DEF SaveData, RingInv
<1>3. CASE LoadData
  <2>1. ASSUME NEW p \in DOMAIN savedData PROVE IsRecord(p, PrimaryFirst(savedData[p]))
    <3> DEFINE e == savedData[p]
    <3>1. IsRecord(p, e)
      BY DEF RingInv
    <3>2. PrimaryFirst(e) = e \/ \E uids : PrimaryFirst(e) = [e EXCEPT !.uids = uids]
      BY DEF PrimaryFirst
    <3> HIDE DEF e
    <3>3. IsRecord(p, PrimaryFirst(e))
      BY <3>1, <3>2 DEF IsRecord
    <3> QED
      BY <3>3 DEF e
  <2> QED
    BY <1>3, <2>1 DEF LoadData, RingInv
<1>4. CASE PowerCycle
  BY <1>4 DEF PowerCycle, RingInv
<1>5. CASE UNCHANGED ringVars
  BY <1>5 DEF ringVars, RingInv
<1> QED
  BY <1>1, <1>2, <1>3, <1>4, <1>5, LoadBIP85KeyKeeps, GenerateKeyKeeps, AddSubkeysKeeps, DeleteSubkeyKeeps,
     UidsKeep, RebuildKeeps DEF RingNext

(* A subkey on record is verified by its number when it is in a whole set  *)
(* of a key at index 0 under the scheme on record.                          *)
LEMMA VerifiedInSet ==
    ASSUME NEW p, NEW e, IsRecord(p, e), e.version = p.version, NEW sk \in e.subs
    PROVE  sk.key = VerifiedAt(e.seed, e.version, sk.key.type, sk.index)
               <=> e.index = 0 /\ sk.key.path[2] \in Trio
<1>1. PICK start \in Nat, t \in Trio : \E ty : sk = NthOfSet(p, start, t, ty)
  BY DEF IsRecord, InSet
<1>2. PICK ty : sk = NthOfSet(p, start, t, ty)
  BY <1>1
<1> DEFINE path == <<e.index + start \div 3, (start % 3) + t>>
<1>3. p.seed = e.seed /\ p.path[1] = e.index /\ e.index \in Nat
  BY DEF IsRecord, DerivedKey
<1>4. sk.index = start + t /\ sk.key = DerivedKey(e.seed, e.version, ty, path)
  BY <1>2, <1>3 DEF NthOfSet
<1> HIDE DEF path
<1>5. sk.key.type = ty /\ sk.key.path = path
  BY <1>4 DEF DerivedKey
<1>6. sk.key = VerifiedAt(e.seed, e.version, sk.key.type, sk.index)
          <=> path = <<(start + t) \div 3, (start + t) % 3>>
  BY <1>4, <1>5 DEF VerifiedAt, DerivedKey
<1>7. path[2] = (start % 3) + t
  BY DEF path
<1>8. path = <<(start + t) \div 3, (start + t) % 3>> <=> e.index = 0 /\ (start % 3) + t \in Trio
  BY <1>1, <1>3, NumbersAgree DEF path
<1> QED
  BY <1>5, <1>6, <1>7, <1>8

(* A key can be rebuilt from its record, and gets every subkey on record    *)
(* back, exactly when it was loaded at index 0 under the scheme on record,  *)
(* all types are listed and no set was added behind one that was not whole  *)
(* (RebuildsNumberedAlike, of bip85_add_subkeys, bip85_verify_existing and  *)
(* ToolsGPGRebuildBip85KeyView, each of which numbers the subkeys).         *)
THEOREM RebuildsExactly == RingSpec => []RebuildsNumberedAlike
<1>1. ASSUME RingInv, NEW p \in DOMAIN bip85Data
      PROVE  LET e == bip85Data[p]
             IN  /\ Rebuildable(e, p) <=>
                        /\ e.uids # <<>> /\ e.version = p.version
                        /\ {e.type} \cup {sk.key.type : sk \in e.subs} \subseteq ListedTypes
                        /\ \A sk \in e.subs : e.index = 0 /\ sk.key.path[2] \in Trio
                 /\ Rebuildable(e, p) => RebuiltSubkeys(e) = {sk.key : sk \in e.subs}
  <2> DEFINE e == bip85Data[p]
  <2>1. IsRecord(p, e)
    BY <1>1 DEF RingInv
  <2> HIDE DEF e
  <2>2. p = DerivedKey(e.seed, e.version, e.type, <<e.index>>) <=> e.version = p.version
    BY <2>1 DEF IsRecord, DerivedKey
  <2>3. e.version = p.version =>
            \A sk \in e.subs : sk.key = VerifiedAt(e.seed, e.version, sk.key.type, sk.index)
                                    <=> e.index = 0 /\ sk.key.path[2] \in Trio
    BY <2>1, VerifiedInSet
  <2>4. Verifies(p, e.seed, e.version, e.type, e.index, e.subs)
            <=> e.version = p.version /\ \A sk \in e.subs : e.index = 0 /\ sk.key.path[2] \in Trio
    BY <2>2, <2>3 DEF Verifies
  <2>5. Verifies(p, e.seed, e.version, e.type, e.index, e.subs) => RebuiltSubkeys(e) = {sk.key : sk \in e.subs}
    BY DEF Verifies, VerifiedAt, RebuiltSubkeys, RebuiltAt
  <2> QED
    BY <2>4, <2>5 DEF Rebuildable, e
<1>2. RingInv => RebuildsNumberedAlike
  BY <1>1 DEF RebuildsNumberedAlike
<1> QED
  BY <1>2, RingStarts, RingNextKeeps, PTL DEF RingSpec
=============================================================================
