----------------------------- MODULE CardsProofs -----------------------------
(***************************************************************************)
(* The smartcard components, for any cards, PINs, keys, seeds and limits.  *)
(*                                                                         *)
(* Sessions: that a wrong cached PIN is sent at most once needs to know    *)
(* that after it nothing is cached; that a card loses its PIN only by a    *)
(* reset needs the types of the cards, for every step writes part of one.  *)
(*                                                                         *)
(* Ownership keys: that a key belongs to its card is not inductive by      *)
(* itself.  A key comes back into the session from files and photographs,  *)
(* which got it from a backup view, which got it from the session or from  *)
(* a claim: every place a key passes through has to keep it with its card. *)
(*                                                                         *)
(* The others need their types and a fact each: which trials may run, what *)
(* the snapshot knows of a slot, which secret of those that read the same  *)
(* is written.  The types of the wallet and of the trials' counters need   *)
(* facts of their own: what a secret of each type reads as, and when a     *)
(* trial starts one attempt more.                                          *)
(***************************************************************************)
EXTENDS MCCards, SequenceTheorems, FiniteSetTheorems, TLAPS

-----------------------------------------------------------------------------
(* Sessions with PIN protected cards *)

\* The value for "never set up" is not a PIN.
PinsAssumption == NoPin \notin Pins

SatochipsOnly == \A c \in Cards : kind[c] # "keycard"

\* No more than one try was spent, and after it nothing is cached.
SilentInv ==
    SatochipsOnly => silent = 0 \/ (silent = 1 /\ cachedPin = NoPin)

CardsTyped ==
    /\ card \in [Cards -> [pin : Pins \cup {NoPin}, tries : 0..MaxTries, left : 0..ResetRounds]]
    /\ reader \in Cards \cup {NoCard}

-----------------------------------------------------------------------------
LEMMA SilentStart == Init => SilentInv
BY DEF Init, SilentInv

LEMMA OpenVerifiedKeepsSilent ==
    ASSUME PinsAssumption, NoCard \notin Cards, CardsTyped, SilentInv,
           NEW v \in PinViews, OpenVerified(v)
    PROVE  SilentInv'
<1> SUFFICES ASSUME SatochipsOnly'
             PROVE  silent' = 0 \/ (silent' = 1 /\ cachedPin' = NoPin)
  BY DEF SilentInv
<1>1. kind' = kind /\ SatochipsOnly /\ reader \in Cards
  BY DEF OpenVerified, SatochipsOnly, CardsTyped
<1>2. PICK id \in {reader, Blank}, typed \in Pins :
        LET fromCache == cachedPin # NoPin /\ SameCard(id)
            given == IF fromCache THEN cachedPin ELSE typed
            right == card[reader].tries > 0 /\ given = card[reader].pin
        IN IF right THEN /\ cachedPin' = given
                         /\ silent' = IF fromCache THEN silent ELSE 0
           ELSE /\ cachedPin' = AfterWrongPin(reader)
                /\ silent' = IF ~fromCache THEN 0
                              ELSE IF silent < 2 THEN silent + 1 ELSE 2
  BY DEF OpenVerified
<1>3. AfterWrongPin(reader) = NoPin
  BY <1>1 DEF AfterWrongPin, SatochipsOnly
<1>4. cachedPin # NoPin => silent = 0
  BY <1>1 DEF SilentInv
<1> QED
  BY <1>2, <1>3, <1>4

LEMMA NextKeepsSilent ==
    ASSUME PinsAssumption, NoCard \notin Cards, CardsTyped, SilentInv, [Next]_cardVars
    PROVE  SilentInv'
<1>1. CASE \E v \in PinViews : OpenVerified(v)
  BY <1>1, OpenVerifiedKeepsSilent
<1>2. CASE \E v \in PinViews \cup PinlessViews : OpenSetup(v)
  <2>1. silent' = 0
    BY <1>2 DEF OpenSetup
  <2> QED
    BY <2>1 DEF SilentInv
<1>3. CASE ChangePin \/ UnblockPin
  BY <1>3 DEF ChangePin, UnblockPin, SilentInv
<1>4. CASE KeycardReset \/ Home
  <2>1. kind' = kind /\ cachedPin' = NoPin /\ silent' = silent
    BY <1>4 DEF KeycardReset, Home
  <2> QED
    BY <2>1 DEF SilentInv, SatochipsOnly
<1>5. CASE \/ \E v \in PinlessViews : OpenPinless(v)
           \/ GenuineRetry \/ ChooseReset \/ ResetRound \/ BlockPin \/ BackAtPinPrompt
           \/ BlockPuk \/ Leave \/ SwapCard \/ UNCHANGED cardVars
  <2>1. UNCHANGED <<kind, cachedPin, silent>>
    BY <1>5 DEF OpenPinless, GenuineRetry, ChooseReset, ResetRound, BlockPin, BackAtPinPrompt,
                BlockPuk, Leave, SwapCard, cardVars
  <2> QED
    BY <2>1 DEF SilentInv, SatochipsOnly
<1> QED
  BY <1>1, <1>2, <1>3, <1>4, <1>5 DEF Next

-----------------------------------------------------------------------------
(* The cards *)
CardRec == [pin : Pins \cup {NoPin}, tries : 0..MaxTries, left : 0..ResetRounds]

LimitsAssumption == MaxTries \in Nat /\ ResetRounds \in Nat

LEMMA FreshIsTyped == LimitsAssumption => Fresh \in CardRec /\ \A p \in Pins : [Fresh EXCEPT !.pin = p] \in CardRec
<1> SUFFICES ASSUME LimitsAssumption
             PROVE  Fresh \in CardRec /\ \A p \in Pins : [Fresh EXCEPT !.pin = p] \in CardRec
  OBVIOUS
<1>1. MaxTries \in 0..MaxTries /\ ResetRounds \in 0..ResetRounds
  BY DEF LimitsAssumption
<1> QED
  BY <1>1 DEF Fresh, CardRec

(* A step writes one part of a card after the other.                        *)
CardMap == [Cards -> CardRec]
WithTries(f, c, n) == [f EXCEPT ![c].tries = n]
WithLeft(f, c, n) == [f EXCEPT ![c].left = n]
WithPin(f, c, p) == [f EXCEPT ![c].pin = p]
Renewed(f, c) == [f EXCEPT ![c] = Fresh]

LEMMA TriesWritten ==
    ASSUME NEW f \in CardMap, NEW c, NEW n \in 0..MaxTries
    PROVE  WithTries(f, c, n) \in CardMap /\ \A d \in Cards : WithTries(f, c, n)[d].pin = f[d].pin
BY DEF CardMap, CardRec, WithTries

LEMMA LeftWritten ==
    ASSUME NEW f \in CardMap, NEW c, NEW n \in 0..ResetRounds
    PROVE  WithLeft(f, c, n) \in CardMap /\ \A d \in Cards : WithLeft(f, c, n)[d].pin = f[d].pin
BY DEF CardMap, CardRec, WithLeft

LEMMA PinWritten ==
    ASSUME NEW f \in CardMap, NEW c, NEW p \in Pins
    PROVE  WithPin(f, c, p) \in CardMap /\ \A d \in Cards : WithPin(f, c, p)[d].pin \in {p, f[d].pin}
BY DEF CardMap, CardRec, WithPin

LEMMA FreshWritten ==
    ASSUME LimitsAssumption, NEW f \in CardMap, NEW c
    PROVE  Renewed(f, c) \in CardMap
BY FreshIsTyped DEF CardMap, Renewed

LEMMA PartsInRange ==
    ASSUME LimitsAssumption, CardsTyped, NEW c \in Cards
    PROVE  /\ card \in CardMap
           /\ MaxTries \in 0..MaxTries /\ ResetRounds \in 0..ResetRounds
           /\ (IF card[c].tries > 0 THEN card[c].tries - 1 ELSE 0) \in 0..MaxTries
           /\ card[c].left > 1 => card[c].left - 1 \in 0..ResetRounds
BY DEF LimitsAssumption, CardsTyped, CardRec, CardMap

(* The cards after a step, and those that lost their PIN by it.             *)
PinsKept == \A c \in Cards : card[c].pin # NoPin => card'[c].pin # NoPin
ResetTold == \A c \in Cards : card[c].pin # NoPin /\ card'[c].pin = NoPin => told' = "reset"

LEMMA OpenVerifiedKeepsPins ==
    ASSUME LimitsAssumption, PinsAssumption, NoCard \notin Cards, CardsTyped,
           NEW v \in PinViews, OpenVerified(v)
    PROVE  card' \in CardMap /\ PinsKept
<1>1. reader \in Cards
  BY DEF OpenVerified, CardsTyped
<1>2. PICK n \in 0..MaxTries : card' = WithLeft(WithTries(card, reader, n), reader, ResetRounds)
  <2>1. \/ card' = [card EXCEPT ![reader].tries = MaxTries, ![reader].left = ResetRounds]
        \/ card' = [card EXCEPT ![reader].tries = IF @ > 0 THEN @ - 1 ELSE 0,
                                ![reader].left = ResetRounds]
    BY DEF OpenVerified
  <2>2. \/ card' = WithLeft(WithTries(card, reader, MaxTries), reader, ResetRounds)
        \/ card' = WithLeft(WithTries(card, reader, IF card[reader].tries > 0 THEN card[reader].tries - 1 ELSE 0),
                            reader, ResetRounds)
    BY <2>1 DEF WithLeft, WithTries
  <2> QED
    BY <1>1, <2>2, PartsInRange
<1> DEFINE f == WithTries(card, reader, n)
<1>3. f \in CardMap /\ \A d \in Cards : f[d].pin = card[d].pin
  BY <1>1, PartsInRange, TriesWritten
<1>4. WithLeft(f, reader, ResetRounds) \in CardMap
      /\ \A d \in Cards : WithLeft(f, reader, ResetRounds)[d].pin = f[d].pin
  BY <1>1, <1>3, PartsInRange, LeftWritten
<1> QED
  BY <1>2, <1>3, <1>4 DEF PinsKept

LEMMA OpenSetupKeepsPins ==
    ASSUME LimitsAssumption, PinsAssumption, NoCard \notin Cards, CardsTyped,
           NEW v \in PinViews \cup PinlessViews, OpenSetup(v)
    PROVE  card' \in CardMap /\ PinsKept
<1>1. reader \in Cards
  BY DEF OpenSetup, CardsTyped
<1>2. PICK new \in Pins :
        card' = [card EXCEPT ![reader].pin = new, ![reader].tries = MaxTries, ![reader].left = ResetRounds]
  BY DEF OpenSetup
<1> DEFINE f == WithPin(card, reader, new)
           g == WithTries(f, reader, MaxTries)
<1>3. f \in CardMap /\ \A d \in Cards : f[d].pin \in {new, card[d].pin}
  BY <1>1, PartsInRange, PinWritten
<1>4. g \in CardMap /\ \A d \in Cards : g[d].pin = f[d].pin
  BY <1>1, <1>3, PartsInRange, TriesWritten
<1>5. WithLeft(g, reader, ResetRounds) \in CardMap
      /\ \A d \in Cards : WithLeft(g, reader, ResetRounds)[d].pin = g[d].pin
  BY <1>1, <1>4, PartsInRange, LeftWritten
<1>6. card' = WithLeft(g, reader, ResetRounds)
  BY <1>2 DEF WithLeft, WithTries, WithPin
<1> HIDE DEF f, g
<1> QED
  BY <1>3, <1>4, <1>5, <1>6 DEF PinsKept, PinsAssumption

LEMMA NewPinKeepsPins ==
    ASSUME LimitsAssumption, PinsAssumption, CardsTyped, ChangePin \/ UnblockPin
    PROVE  card' \in CardMap /\ PinsKept
<1>1. card \in CardMap /\ MaxTries \in 0..MaxTries
  BY DEF CardsTyped, CardMap, CardRec, LimitsAssumption
<1>2. PICK new \in Pins : \/ card' = WithPin(card, reader, new)
                          \/ card' = WithTries(WithPin(card, reader, new), reader, MaxTries)
  BY DEF ChangePin, UnblockPin, WithPin, WithTries
<1> DEFINE f == WithPin(card, reader, new)
<1>3. f \in CardMap /\ \A d \in Cards : f[d].pin \in {new, card[d].pin}
  BY <1>1, PinWritten
<1>4. WithTries(f, reader, MaxTries) \in CardMap
      /\ \A d \in Cards : WithTries(f, reader, MaxTries)[d].pin = f[d].pin
  BY <1>1, <1>3, TriesWritten
<1>5. card' = f \/ card' = WithTries(f, reader, MaxTries)
  BY <1>2
<1> HIDE DEF f
<1> QED
  BY <1>3, <1>4, <1>5 DEF PinsKept, PinsAssumption

LEMMA ResetRoundTells ==
    ASSUME LimitsAssumption, NoCard \notin Cards, CardsTyped, ResetRound
    PROVE  card' \in CardMap /\ ResetTold
<1>1. reader \in Cards /\ card \in CardMap
  BY DEF ResetRound, CardsTyped, CardMap, CardRec
<1>2. CASE UNCHANGED card
  BY <1>1, <1>2 DEF ResetTold
<1>3. CASE card[reader].left > 1 /\ card' = [card EXCEPT ![reader].left = @ - 1]
  <2>1. card[reader].left - 1 \in 0..ResetRounds
    BY <1>1, <1>3, PartsInRange
  <2>2. card' = WithLeft(card, reader, card[reader].left - 1)
    BY <1>1, <1>3 DEF WithLeft
  <2> QED
    BY <1>1, <2>1, <2>2, LeftWritten DEF ResetTold
<1>4. CASE card' = Renewed(card, reader) /\ told' = "reset"
  BY <1>1, <1>4, FreshWritten DEF ResetTold
<1> QED
  BY <1>2, <1>3, <1>4 DEF ResetRound, Renewed

LEMMA BlockPinKeepsPins ==
    ASSUME LimitsAssumption, CardsTyped, BlockPin
    PROVE  card' \in CardMap /\ PinsKept
<1>1. card \in CardMap
  BY DEF CardsTyped, CardMap, CardRec
<1>2. CASE reader \in Cards
  <2>1. \/ card' = WithTries(card, reader, MaxTries)
        \/ card' = WithTries(card, reader, IF card[reader].tries > 0 THEN card[reader].tries - 1 ELSE 0)
    BY <1>1, <1>2 DEF BlockPin, WithTries
  <2>2. PICK n \in 0..MaxTries : card' = WithTries(card, reader, n)
    BY <1>2, <2>1, PartsInRange
  <2> QED
    BY <1>1, <2>2, TriesWritten DEF PinsKept
<1>3. CASE reader \notin Cards
  <2>1. card' = card
    BY <1>1, <1>3 DEF BlockPin, CardMap
  <2> QED
    BY <1>1, <2>1 DEF PinsKept
<1> QED
  BY <1>2, <1>3

LEMMA CardsTypedNext ==
    ASSUME LimitsAssumption, PinsAssumption, NoCard \notin Cards, CardsTyped, [Next]_cardVars
    PROVE  CardsTyped' /\ ResetTold
<1>1. reader' \in Cards \cup {NoCard}
  BY DEF CardsTyped, Next, cardVars, OpenVerified, OpenPinless, OpenSetup, ChangePin, GenuineRetry,
     UnblockPin, KeycardReset, ChooseReset, ResetRound, BlockPin, BackAtPinPrompt, BlockPuk, Leave, Home, SwapCard
<1>2. card \in CardMap
  BY DEF CardsTyped, CardMap, CardRec
<1>3. PinsKept => ResetTold
  BY DEF PinsKept, ResetTold
<1>4. card' \in CardMap /\ ResetTold
  <2>1. ASSUME NEW v \in PinlessViews, OpenPinless(v) PROVE card' \in CardMap /\ PinsKept
    <3>1. card' = WithLeft(card, reader, ResetRounds) /\ ResetRounds \in 0..ResetRounds
      BY <2>1 DEF OpenPinless, LimitsAssumption, WithLeft
    <3> QED
      BY <1>2, <3>1, LeftWritten DEF PinsKept
  <2>2. CASE KeycardReset \/ BlockPuk
    <3>1. KeycardReset => card' = Renewed(card, reader) /\ told' = "reset"
      BY DEF KeycardReset, Renewed
    <3>2. BlockPuk => UNCHANGED card \/ (card' = Renewed(card, reader) /\ told' = "reset")
      BY DEF BlockPuk, Renewed
    <3> QED
      BY <2>2, <1>2, <3>1, <3>2, FreshWritten DEF ResetTold
  <2>3. CASE GenuineRetry \/ ChooseReset \/ BackAtPinPrompt \/ Leave \/ Home \/ SwapCard \/ UNCHANGED cardVars
    <3>1. UNCHANGED card
      BY <2>3 DEF GenuineRetry, ChooseReset, BackAtPinPrompt, Leave, Home, SwapCard, cardVars
    <3> QED
      BY <1>2, <3>1 DEF ResetTold
  <2> QED
    BY <1>3, <2>1, <2>2, <2>3, OpenVerifiedKeepsPins, OpenSetupKeepsPins, NewPinKeepsPins,
       ResetRoundTells, BlockPinKeepsPins DEF Next
<1> QED
  BY <1>1, <1>4 DEF CardsTyped, CardMap, CardRec

LEMMA CardsTypedStart == LimitsAssumption /\ Init => CardsTyped
<1> SUFFICES ASSUME LimitsAssumption, Init PROVE CardsTyped
  OBVIOUS
<1> QED
  BY FreshIsTyped DEF Init, CardsTyped, CardRec

-----------------------------------------------------------------------------
SessionAssumption == PinsAssumption /\ LimitsAssumption /\ NoCard \notin Cards

(* A Satochip or SeedKeeper gets no more than one wrong PIN that the user    *)
(* has not typed since: init_satochip drops what the card refused.          *)
THEOREM WrongPinIsSentOnce == SessionAssumption => (Spec => []SilentTriesBounded)
<1> SUFFICES ASSUME SessionAssumption PROVE Spec => []SilentTriesBounded
  OBVIOUS
<1> DEFINE Inv == CardsTyped /\ SilentInv
<1>1. Init => Inv
  BY SilentStart, CardsTypedStart DEF SessionAssumption
<1>2. Inv /\ [Next]_cardVars => Inv'
  BY NextKeepsSilent, CardsTypedNext DEF SessionAssumption
<1>3. Inv => SilentTriesBounded
  BY DEF SilentInv, SatochipsOnly, SilentTriesBounded
<1> QED
  BY <1>1, <1>2, <1>3, PTL DEF Spec

(* A card that loses its PIN was reset by a view that says so: no card loses *)
(* it in passing, whichever card is put on the reader during a reset.       *)
THEOREM NoSilentReset == SessionAssumption => (Spec => ResetIsTold)
<1> SUFFICES ASSUME SessionAssumption PROVE Spec => ResetIsTold
  OBVIOUS
<1>1. Init => CardsTyped
  BY CardsTypedStart DEF SessionAssumption
<1>2. CardsTyped /\ [Next]_cardVars => CardsTyped'
  BY CardsTypedNext DEF SessionAssumption
<1>3. CardsTyped /\ [Next]_cardVars
        => [\A c \in Cards : card[c].pin # NoPin /\ card'[c].pin = NoPin => told' = "reset"]_cardVars
  BY CardsTypedNext DEF SessionAssumption, ResetTold
<1> QED
  BY <1>1, <1>2, <1>3, PTL DEF Spec, ResetIsTold

-----------------------------------------------------------------------------
(* Satodime ownership keys *)

\* The model's values for "no card id" and for the bound.
KeysAssumption == NoId \notin Dimes /\ MaxClaims \in Nat

MintedOn(k, c) == k \in 1..Len(minted) /\ minted[k] = c

\* A key on display goes by the id of a card.
BackupIsNamed == backup.key # 0 => backup.id \in Dimes

SecretsMatch == \A c \in Dimes : unlockSecrets[c] # 0 => MintedOn(unlockSecrets[c], c)
FilesMatch == \A c \in Dimes : sdFile[c] # 0 => MintedOn(sdFile[c], c)
PhotosMatch == \A p \in photos : MintedOn(p.key, p.id)
BackupMatches == backup.key # 0 => MintedOn(backup.key, backup.id)

AllMatch == SecretsMatch /\ FilesMatch /\ PhotosMatch /\ BackupMatches

KeysInv ==
    /\ KeysTypeOK /\ BackupIsNamed /\ DoneMeansBackedUp
    /\ ~forced => AllMatch

Backups == [id : Ids, key : 0..MaxClaims, done : BOOLEAN]

LEMMA NoBackupIsTyped == KeysAssumption => NoBackup \in Backups
<1> SUFFICES ASSUME KeysAssumption PROVE NoBackup \in Backups
  OBVIOUS
<1>1. 0 \in 0..MaxClaims
  BY DEF KeysAssumption
<1>2. NoId \in Ids /\ FALSE \in BOOLEAN
  BY DEF Ids
<1> QED
  BY <1>1, <1>2 DEF NoBackup, Backups

LEMMA InitKeys == ASSUME KeysAssumption, KeysInit PROVE KeysInv
<1>1. minted \in Seq(Dimes) /\ Len(minted) = 0
  BY EmptySeq DEF KeysInit
<1>2. KeysTypeOK
  <2>1. backup \in Backups
    BY NoBackupIsTyped DEF KeysInit
  <2>2. 0 \in 0..MaxClaims /\ 0 <= MaxClaims
    BY DEF KeysAssumption
  <2> QED
    BY <1>1, <2>1, <2>2 DEF KeysInit, KeysTypeOK, Backups
<1> QED
  BY <1>2 DEF KeysInit, KeysInv, BackupIsNamed, DoneMeansBackedUp, NoBackup, AllMatch, SecretsMatch,
              FilesMatch, PhotosMatch, BackupMatches, Ids

(* A new claim is minted after all the others, and renames none of them.    *)
LEMMA ClaimKeepsMinted ==
    ASSUME KeysTypeOK, NEW c \in Dimes, minted' = Append(minted, c)
    PROVE  /\ minted' \in Seq(Dimes) /\ Len(minted') = Len(minted) + 1
           /\ \A k, d : MintedOn(k, d) => MintedOn(k, d)'
           /\ \A k : k = Len(minted) + 1 => MintedOn(k, c)'
<1>1. minted \in Seq(Dimes) /\ Len(minted) \in Nat
  BY LenProperties DEF KeysTypeOK
<1>2. /\ minted' \in Seq(Dimes) /\ Len(minted') = Len(minted) + 1
      /\ \A k \in 1..Len(minted) : minted'[k] = minted[k]
      /\ minted'[Len(minted) + 1] = c
  BY <1>1, AppendProperties
<1>3. \A k, d : MintedOn(k, d) => MintedOn(k, d)'
  <2> SUFFICES ASSUME NEW k, NEW d, MintedOn(k, d) PROVE k \in 1..Len(minted') /\ minted'[k] = d
    BY DEF MintedOn
  <2>1. k \in 1..Len(minted) /\ minted[k] = d
    BY DEF MintedOn
  <2> QED
    BY <1>1, <1>2, <2>1
<1>4. \A k : k = Len(minted) + 1 => MintedOn(k, c)'
  <2>1. Len(minted) + 1 \in 1..Len(minted')
    BY <1>1, <1>2
  <2> QED
    BY <1>2, <2>1 DEF MintedOn
<1> QED
  BY <1>2, <1>3, <1>4

LEMMA ClaimKeeps ==
    ASSUME KeysAssumption, KeysInv, NEW c \in Dimes, NEW id \in {c, NoId}, Claim(c, id)
    PROVE  KeysInv'
<1> USE DEF KeysInv
<1> DEFINE k == Len(minted) + 1
<1>1. /\ minted' \in Seq(Dimes) /\ Len(minted') = k
      /\ \A n, d : MintedOn(n, d) => MintedOn(n, d)'
      /\ \A n : n = k => MintedOn(n, c)'
  BY ClaimKeepsMinted DEF Claim
<1>2. k \in 1..MaxClaims
  BY LenProperties DEF Claim, KeysTypeOK, KeysAssumption
<1>3. KeysTypeOK'
  BY <1>1, <1>2 DEF Claim, KeysTypeOK, KeysAssumption, Ids, NoBackup
<1>4. BackupIsNamed' /\ DoneMeansBackedUp'
  BY DEF Claim, BackupIsNamed, DoneMeansBackedUp, NoBackup
<1>5. ASSUME ~forced' PROVE AllMatch'
  <2>1. AllMatch
    BY <1>5 DEF Claim
  <2>2. SecretsMatch'
    <3> SUFFICES ASSUME NEW d \in Dimes, unlockSecrets'[d] # 0 PROVE MintedOn(unlockSecrets[d], d)'
      BY DEF SecretsMatch
    <3>1. CASE d = id
      <4>1. unlockSecrets'[d] = k /\ d = c
        BY <3>1 DEF Claim, KeysTypeOK, Ids, KeysAssumption
      <4> QED
        BY <4>1, <1>1
    <3>2. CASE d # id
      <4>1. unlockSecrets'[d] = unlockSecrets[d]
        BY <3>2 DEF Claim, KeysTypeOK, Ids
      <4> QED
        BY <4>1, <2>1, <1>1 DEF AllMatch, SecretsMatch
    <3> QED
      BY <3>1, <3>2
  <2>3. FilesMatch' /\ PhotosMatch'
    BY <2>1, <1>1 DEF AllMatch, FilesMatch, PhotosMatch, Claim
  <2>4. BackupMatches'
    BY <1>1 DEF BackupMatches, Claim, NoBackup
  <2> QED
    BY <2>2, <2>3, <2>4 DEF AllMatch
<1> QED
  BY <1>3, <1>4, <1>5

LEMMA ReshowKeeps ==
    ASSUME KeysAssumption, KeysInv, NEW id \in Ids, Reshow(id)
    PROVE  KeysInv'
<1> USE DEF KeysInv
<1>1. PICK i \in Dimes : unlockSecrets[i] # 0 /\ backup' = [id |-> i, key |-> unlockSecrets[i], done |-> FALSE]
  BY DEF Reshow, Ids
<1>2. KeysTypeOK' /\ BackupIsNamed' /\ DoneMeansBackedUp'
  BY <1>1 DEF Reshow, KeysTypeOK, Ids, BackupIsNamed, DoneMeansBackedUp
<1>3. ASSUME ~forced' PROVE AllMatch'
  <2>1. AllMatch /\ \A n, d : MintedOn(n, d)' <=> MintedOn(n, d)
    BY <1>3 DEF Reshow, MintedOn
  <2> QED
    BY <1>1, <2>1 DEF AllMatch, SecretsMatch, FilesMatch, PhotosMatch, BackupMatches, Reshow
<1> QED
  BY <1>2, <1>3

LEMMA BackupKeeps ==
    ASSUME KeysAssumption, KeysInv, SaveToMicroSD \/ VerifyQR \/ Finalise \/ LeaveBackup
    PROVE  KeysInv'
<1> USE DEF KeysInv
<1>1. \A n, d : MintedOn(n, d)' <=> MintedOn(n, d)
  BY DEF SaveToMicroSD, VerifyQR, Finalise, LeaveBackup, MintedOn
<1>2. backup.key # 0 => backup.key \in Keys /\ backup.id \in Dimes
  BY DEF KeysTypeOK, BackupIsNamed, Keys, KeysAssumption
<1>3. CASE SaveToMicroSD
  <2>1. KeysTypeOK' /\ BackupIsNamed' /\ DoneMeansBackedUp'
    BY <1>3, <1>2 DEF SaveToMicroSD, KeysTypeOK, BackupIsNamed, DoneMeansBackedUp
  <2>2. ASSUME ~forced' PROVE AllMatch'
    <3>1. AllMatch
      BY <1>3, <2>2 DEF SaveToMicroSD
    <3>2. FilesMatch'
      BY <1>1, <1>2, <1>3, <3>1 DEF SaveToMicroSD, AllMatch, FilesMatch, BackupMatches, KeysTypeOK
    <3> QED
      BY <1>1, <1>3, <3>1, <3>2 DEF SaveToMicroSD, AllMatch, SecretsMatch, PhotosMatch, BackupMatches
  <2> QED
    BY <2>1, <2>2
<1>4. CASE VerifyQR
  <2> DEFINE photo == [id |-> backup.id, key |-> backup.key]
  <2>1. /\ photo \in [id : Dimes, key : Keys] /\ photo.id = backup.id /\ photo.key = backup.key
        /\ photos' = photos \cup {photo}
        /\ backup' = [backup EXCEPT !.done = TRUE]
    BY <1>2, <1>4 DEF VerifyQR
  <2>2. backup'.id = backup.id /\ backup'.key = backup.key /\ backup' \in [id : Ids, key : 0..MaxClaims, done : BOOLEAN]
    BY <2>1 DEF KeysTypeOK
  <2>3. KeysTypeOK' /\ BackupIsNamed' /\ DoneMeansBackedUp'
    BY <1>4, <2>1, <2>2 DEF VerifyQR, KeysTypeOK, BackupIsNamed, DoneMeansBackedUp
  <2>4. ASSUME ~forced' PROVE AllMatch'
    <3>1. AllMatch
      BY <1>4, <2>4 DEF VerifyQR
    <3>2. PhotosMatch'
      BY <1>1, <1>4, <2>1, <3>1 DEF VerifyQR, AllMatch, PhotosMatch, BackupMatches
    <3> QED
      BY <1>1, <1>4, <2>2, <3>1, <3>2 DEF VerifyQR, AllMatch, SecretsMatch, FilesMatch, BackupMatches
  <2> QED
    BY <2>3, <2>4
<1>5. CASE Finalise \/ LeaveBackup
  <2>1. backup' \in [id : Ids, key : 0..MaxClaims, done : BOOLEAN]
    <3>1. CASE Finalise
      BY <3>1 DEF Finalise, KeysTypeOK
    <3>2. CASE LeaveBackup
      BY <3>2, NoBackupIsTyped DEF LeaveBackup, Backups
    <3> QED
      BY <1>5, <3>1, <3>2
  <2>2. backup'.key # 0 => backup'.id = backup.id /\ backup'.key = backup.key
    BY <1>5 DEF Finalise, LeaveBackup, KeysTypeOK, NoBackup
  <2>3. DoneMeansBackedUp'
    BY <1>5 DEF Finalise, LeaveBackup, KeysTypeOK, NoBackup, FileMatches, DoneMeansBackedUp
  <2>4. KeysTypeOK' /\ BackupIsNamed'
    BY <1>5, <2>1, <2>2 DEF Finalise, LeaveBackup, KeysTypeOK, BackupIsNamed
  <2>5. ~forced' => AllMatch'
    BY <1>1, <1>5, <2>2 DEF Finalise, LeaveBackup, AllMatch, SecretsMatch, FilesMatch, PhotosMatch, BackupMatches
  <2> QED
    BY <2>3, <2>4, <2>5
<1> QED
  BY <1>3, <1>4, <1>5

LEMMA RestoreKeeps ==
    ASSUME KeysAssumption, KeysInv, NEW id \in Ids, Restore(id)
    PROVE  KeysInv'
<1> USE DEF KeysInv
<1>1. PICK p \in Readable(id) : /\ unlockSecrets' = [unlockSecrets EXCEPT ![id] = p.key]
                                /\ forced' = (forced \/ ~Recognised(id, p))
  BY DEF Restore
<1>2. \/ p \in photos
      \/ \E j \in Dimes : sdFile[j] # 0 /\ p = [id |-> j, key |-> sdFile[j]]
  BY DEF Readable
<1>3. p.id \in Dimes /\ p.key \in Keys
  <2>1. CASE p \in photos
    BY <2>1 DEF KeysTypeOK
  <2>2. ASSUME NEW j \in Dimes, sdFile[j] # 0, p = [id |-> j, key |-> sdFile[j]]
        PROVE  p.id \in Dimes /\ p.key \in Keys
    BY <2>2 DEF KeysTypeOK, Keys, KeysAssumption
  <2> QED
    BY <1>2, <2>1, <2>2
<1>4. KeysTypeOK' /\ BackupIsNamed' /\ DoneMeansBackedUp'
  BY <1>1, <1>3 DEF Restore, KeysTypeOK, BackupIsNamed, DoneMeansBackedUp, Keys, KeysAssumption
<1>5. ASSUME ~forced' PROVE AllMatch'
  <2>1. AllMatch /\ p.id = id /\ \A n, d : MintedOn(n, d)' <=> MintedOn(n, d)
    BY <1>1, <1>5 DEF Restore, Recognised, MintedOn
  <2>2. MintedOn(p.key, id)
    <3>1. CASE p \in photos
      BY <2>1, <3>1 DEF AllMatch, PhotosMatch
    <3>2. ASSUME NEW j \in Dimes, sdFile[j] # 0, p = [id |-> j, key |-> sdFile[j]]
          PROVE  MintedOn(p.key, id)
      BY <2>1, <3>2 DEF AllMatch, FilesMatch
    <3> QED
      BY <1>2, <3>1, <3>2
  <2>3. SecretsMatch'
    BY <1>1, <2>1, <2>2 DEF AllMatch, SecretsMatch, KeysTypeOK
  <2> QED
    BY <2>1, <2>3 DEF Restore, AllMatch, FilesMatch, PhotosMatch, BackupMatches
<1> QED
  BY <1>4, <1>5

LEMMA OthersKeep ==
    ASSUME KeysAssumption, KeysInv,
           ForgetKeys \/ UNCHANGED keyVars \/ \E c \in Dimes : \E id \in {c, NoId} : TransferOwnership(c, id)
    PROVE  KeysInv'
<1> USE DEF KeysInv
<1>1. UNCHANGED <<minted, sdFile, photos, backup, forced>>
  BY DEF ForgetKeys, TransferOwnership, keyVars
<1>2. \A n, d : MintedOn(n, d)' <=> MintedOn(n, d)
  BY <1>1 DEF MintedOn
<1>3. \A c \in Dimes : unlockSecrets'[c] \in {0, unlockSecrets[c]}
  BY DEF ForgetKeys, TransferOwnership, keyVars, Ids
<1>4. KeysTypeOK'
  <2>1. 0 \in 0..MaxClaims
    BY DEF KeysAssumption
  <2>2. nfc' = nfc /\ unlockSecrets' \in [Ids -> 0..MaxClaims] /\ ownerKey' \in [Dimes -> 0..MaxClaims]
    BY <2>1 DEF ForgetKeys, TransferOwnership, keyVars, KeysTypeOK
  <2> QED
    BY <1>1, <2>2 DEF KeysTypeOK
<1>5. BackupIsNamed' /\ DoneMeansBackedUp'
  BY <1>1 DEF BackupIsNamed, DoneMeansBackedUp
<1>6. ~forced' => AllMatch'
  BY <1>1, <1>2, <1>3 DEF AllMatch, SecretsMatch, FilesMatch, PhotosMatch, BackupMatches
<1> QED
  BY <1>4, <1>5, <1>6

LEMMA NextKeys == ASSUME KeysAssumption, KeysInv, [KeysNext]_keyVars PROVE KeysInv'
BY ClaimKeeps, ReshowKeeps, BackupKeeps, RestoreKeeps, OthersKeep DEF KeysNext

(* ToolsSatodimeBackupUnlockView says that a key is backed up only when the *)
(* file or a photograph holds that very key under that very id.            *)
THEOREM BackupIsReal == KeysAssumption => (KeysSpec => []DoneMeansBackedUp)
<1> SUFFICES ASSUME KeysAssumption PROVE KeysSpec => []DoneMeansBackedUp
  OBVIOUS
<1>1. KeysInit => KeysInv
  BY InitKeys
<1>2. KeysInv /\ [KeysNext]_keyVars => KeysInv'
  BY NextKeys
<1>3. KeysInv => DoneMeansBackedUp
  BY DEF KeysInv
<1> QED
  BY <1>1, <1>2, <1>3, PTL DEF KeysSpec

(* Satodime_unlock_secrets pairs the id of a card with a key that was       *)
(* minted on that card, whatever claims, releases, backups and restores     *)
(* went before, until the user loads a key against the warning.            *)
THEOREM KeysStayWithCards == KeysAssumption => (KeysSpec => []KeysBelongToCards)
<1> SUFFICES ASSUME KeysAssumption PROVE KeysSpec => []KeysBelongToCards
  OBVIOUS
<1>1. KeysInit => KeysInv
  BY InitKeys
<1>2. KeysInv /\ [KeysNext]_keyVars => KeysInv'
  BY NextKeys
<1>3. KeysInv => KeysBelongToCards
  BY DEF KeysInv, AllMatch, SecretsMatch, MintedOn, KeysBelongToCards
<1> QED
  BY <1>1, <1>2, <1>3, PTL DEF KeysSpec

-----------------------------------------------------------------------------
(* The bias check *)

TrialsAssumption ==
    /\ NumSamples \in Nat /\ AttemptsFactor \in Nat /\ MaxFailures \in Nat
    /\ Tolerated \in Nat /\ BenchSize \in Nat

\* The hash of an answer that came late is tried again only while a signature
\* is still wanted, so that no attempt counts one too many.
TrialsInv ==
    /\ trial \in {"menu", "bias", "bench"} /\ samples \in 0..NumSamples /\ again \in BOOLEAN
    /\ dropped \in [Reasons -> Nat]
    /\ again => samples < NumSamples

LEMMA TrialsStart == ASSUME TrialsAssumption, TrialsInit PROVE TrialsInv
<1>1. dropped \in [Reasons -> Nat]
  BY DEF TrialsInit, NoReasons
<1>2. samples \in 0..NumSamples
  BY DEF TrialsInit, TrialsAssumption
<1>3. again \in BOOLEAN /\ ~again /\ trial = "menu"
  BY Zenon DEF TrialsInit
<1> QED
  BY <1>1, <1>2, <1>3 DEF TrialsInv

LEMMA TrialsStep ==
    ASSUME TrialsAssumption, TrialsInv, [TrialsNext]_trialVars
    PROVE  TrialsInv'
<1> USE DEF TrialsAssumption, TrialsInv
<1>1. CASE StartBias
  <2>1. dropped' \in [Reasons -> Nat]
    BY <1>1 DEF StartBias, NoReasons
  <2>2. samples' \in 0..NumSamples
    BY <1>1 DEF StartBias
  <2>3. again' \in BOOLEAN /\ ~again' /\ trial' = "bias"
    BY <1>1, Zenon DEF StartBias
  <2> QED
    BY <2>1, <2>2, <2>3
<1>2. CASE Drop
  <2>1. PICK r \in Reasons :
           /\ dropped' = [dropped EXCEPT ![r] = @ + 1]
           /\ again' = (r = "soft" /\ ~again)
    BY <1>2 DEF Drop
  <2>2. dropped' \in [Reasons -> Nat]
    BY <2>1
  <2>3. again' \in BOOLEAN /\ (again' => ~again)
    BY <2>1
  <2>4. samples' = samples /\ trial' = trial
    BY <1>2 DEF Drop
  <2>5. again' => samples < NumSamples
    BY <1>2, <2>3 DEF Drop, GoesOn
  <2> QED
    BY <2>2, <2>3, <2>4, <2>5
<1>3. CASE Sample
  <2>1. samples < NumSamples
    BY <1>3 DEF Sample, GoesOn
  <2>2. samples' \in 0..NumSamples
    BY <1>3, <2>1 DEF Sample
  <2>3. again' \in BOOLEAN /\ ~again' /\ trial' = "bias"
    BY <1>3, Zenon DEF Sample
  <2>4. dropped' = dropped
    BY <1>3 DEF Sample
  <2> QED
    BY <2>2, <2>3, <2>4
<1>4. CASE EndBias
  BY <1>4 DEF EndBias, biasVars
<1>5. CASE StartBench
  BY <1>5 DEF StartBench, biasVars
<1>6. CASE BenchAnswer \/ BenchFails
  BY <1>6 DEF BenchAnswer, BenchFails, biasVars
<1>7. CASE EndBench
  BY <1>7 DEF EndBench, biasVars
<1>8. CASE UNCHANGED trialVars
  BY <1>8 DEF trialVars
<1> QED
  BY <1>1, <1>2, <1>3, <1>4, <1>5, <1>6, <1>7, <1>8 DEF TrialsNext

-----------------------------------------------------------------------------
(* The Specter applet *)

LEMMA SpecterStart == SpecterInit => SpecterTypeOK
<1> SUFFICES ASSUME SpecterInit PROVE SpecterTypeOK
  OBVIOUS
<1>1. tries \in [Specters -> 0..SpecterTries]
  BY SpecterAssumption DEF SpecterInit
<1> QED
  BY <1>1 DEF SpecterInit, SpecterTypeOK

LEMMA TriesTyped ==
    ASSUME SpecterTypeOK, NEW c \in Specters, NEW p \in SpecterPins, CountTry(c, p)
    PROVE  tries' \in [Specters -> 0..SpecterTries]
<1>1. \A n \in 0..SpecterTries :
         (IF Good(c, p) THEN SpecterTries ELSE IF n > 0 THEN n - 1 ELSE 0) \in 0..SpecterTries
  BY SpecterAssumption
<1> QED
  BY <1>1 DEF CountTry, SpecterTypeOK

LEMMA PinToSaveIsPin ==
    ASSUME SpecterTypeOK, NEW c \in Specters, NEW new \in PinToSave(c)
    PROVE  new \in SpecterPins \cup {NoSpecterPin}
BY DEF SpecterTypeOK, PinToSave

LEMMA SpecterStep ==
    ASSUME SpecterTypeOK, [SpecterNext]_specterVars
    PROVE  SpecterTypeOK'
<1>1. ASSUME NEW c \in Specters,
             \/ ChangeSpecterPin(c) \/ Refused(c) \/ LoadMnemonic(c) \/ SaveMnemonic(c)
             \/ SaveEndsEarly(c) \/ WipeMnemonic(c)
      PROVE  SpecterTypeOK'
  <2>1. tries' \in [Specters -> 0..SpecterTries]
    <3>1. CASE SaveEndsEarly(c)
      BY <3>1 DEF SaveEndsEarly, SpecterTypeOK
    <3>2. CASE ~SaveEndsEarly(c)
      <4>1. PICK p \in SpecterPins : CountTry(c, p)
        BY <1>1, <3>2 DEF ChangeSpecterPin, Refused, LoadMnemonic, SaveMnemonic, WipeMnemonic
      <4> QED
        BY <4>1, TriesTyped
    <3> QED
      BY <3>1, <3>2
  <2>2. pin' \in [Specters -> SpecterPins \cup {NoSpecterPin}]
    BY <1>1, PinToSaveIsPin
    DEF SpecterTypeOK, ChangeSpecterPin, Refused, LoadMnemonic, SaveMnemonic, SaveEndsEarly,
        WipeMnemonic
  <2>3. stored' \in [Specters -> Words \cup {Empty, Junk}] /\ held' \subseteq Words
    BY <1>1
    DEF SpecterTypeOK, ChangeSpecterPin, Refused, LoadMnemonic, SaveMnemonic, SaveEndsEarly,
        WipeMnemonic
  <2>4. pending' \in Words \cup {Empty}
    BY <1>1
    DEF SpecterTypeOK, ChangeSpecterPin, Refused, LoadMnemonic, SaveMnemonic, SaveEndsEarly,
        WipeMnemonic
  <2> QED
    BY <2>1, <2>2, <2>3, <2>4 DEF SpecterTypeOK
<1>2. CASE Finalize
  BY <1>2 DEF Finalize, SpecterTypeOK
<1>3. CASE UNCHANGED specterVars
  BY <1>3 DEF specterVars, SpecterTypeOK
<1> QED
  BY <1>1, <1>2, <1>3 DEF SpecterNext

-----------------------------------------------------------------------------
(* Seeds on signing cards *)

\* The card of an open import view still has no seed: nothing else uses a card
\* before the import.
HoldersInv == HoldersTypeOK /\ (importing # NoSigner => seedOf[importing] = NoSeed)

Imports ==
    /\ said'.told = "imported" /\ said' # said =>
           seedOf[said'.card] = NoSeed /\ seedOf'[said'.card] = said'.seed
    /\ \A d \in Signers : seedOf[d] # NoSeed => seedOf'[d] \in {seedOf[d], NoSeed}

LEMMA LoadsEmpty ==
    ASSUME NoSigner \notin Signers, HoldersInv, importing # NoSigner,
           NEW c \in Signers, NEW s \in Seeds, Loads(c, s)
    PROVE  seedOf[c] = NoSeed /\ seedOf' = [seedOf EXCEPT ![c] = s] /\ stuck' \subseteq Signers
BY DEF Loads, LoadKey, LoadSeed, HoldersInv, HoldersTypeOK

LEMMA ImportStep ==
    ASSUME NoSigner \notin Signers, HoldersInv, NEW c \in Signers, NEW s \in Seeds, ImportSeed(c, s)
    PROVE  HoldersInv' /\ Imports
<1>1. /\ importing # NoSigner /\ importing' = NoSigner
      /\ backend' = backend /\ twoFa' = twoFa /\ descr' = descr
  BY DEF ImportSeed
<1>2. PICK word \in {"imported", "failed"} :
         said' = [told |-> word, card |-> c, seed |-> s] /\ (word = "imported" => Loads(c, s))
  BY DEF ImportSeed
<1>3. Loads(c, s) \/ LoadFails(c)
  BY DEF ImportSeed
<1>4. /\ seedOf' \in [Signers -> Seeds \cup {NoSeed}] /\ stuck' \subseteq Signers
      /\ \A d \in Signers : seedOf[d] # NoSeed => seedOf'[d] = seedOf[d]
  <2>1. CASE Loads(c, s)
    BY <1>1, <2>1, LoadsEmpty DEF HoldersInv, HoldersTypeOK
  <2>2. CASE LoadFails(c)
    BY <2>2 DEF LoadFails, HoldersInv, HoldersTypeOK
  <2> QED
    BY <1>3, <2>1, <2>2
<1>5. said'.told = "imported" => seedOf[c] = NoSeed /\ seedOf'[c] = s
  BY <1>1, <1>2, LoadsEmpty DEF HoldersInv, HoldersTypeOK
<1>6. HoldersInv'
  BY <1>1, <1>2, <1>4 DEF HoldersInv, HoldersTypeOK
<1> QED
  BY <1>2, <1>4, <1>5, <1>6 DEF Imports

LEMMA HoldersStart == HoldersInit => HoldersInv
<1> SUFFICES ASSUME HoldersInit PROVE HoldersInv
  OBVIOUS
<1>1. twoFa \in [Signers -> BOOLEAN]
  BY Zenon DEF HoldersInit
<1> QED
  BY <1>1 DEF HoldersInit, HoldersInv, HoldersTypeOK, NoDescr, Silent

LEMMA HoldersStep ==
    ASSUME NoSigner \notin Signers, HoldersInv, [HoldersNext]_signerVars
    PROVE  HoldersInv' /\ Imports
<1>1. ASSUME NEW c \in Signers, NEW s \in Seeds, ImportSeed(c, s)
      PROVE  HoldersInv' /\ Imports
  BY <1>1, ImportStep DEF Imports
<1>2. ASSUME NEW c \in Signers, RemoveSeed(c)
      PROVE  HoldersInv' /\ Imports
  BY <1>2 DEF RemoveSeed, HoldersInv, HoldersTypeOK, Imports, Silent
<1>3. ASSUME NEW c \in Signers, StartImport(c)
      PROVE  HoldersInv' /\ Imports
  BY <1>3 DEF StartImport, HoldersInv, HoldersTypeOK, Imports
<1>4. ASSUME NEW c \in Signers, Enable2FA(c)
      PROVE  HoldersInv' /\ Imports
  <2>1. twoFa' \in [Signers -> BOOLEAN]
    BY <1>4 DEF Enable2FA, HoldersInv, HoldersTypeOK
  <2> QED
    BY <1>4, <2>1 DEF Enable2FA, HoldersInv, HoldersTypeOK, Imports
<1>5. ASSUME NEW c \in Signers, NEW p \in Paths, ExportXpub(c, p) \/ LoadAccount(c, p)
      PROVE  HoldersInv' /\ Imports
  BY <1>5 DEF ExportXpub, LoadAccount, Account, HoldersInv, HoldersTypeOK, Imports
<1>6. CASE LeaveImport
  BY <1>6 DEF LeaveImport, HoldersInv, HoldersTypeOK, Imports
<1>7. CASE UNCHANGED signerVars
  BY <1>7 DEF signerVars, HoldersInv, HoldersTypeOK, Imports
<1> QED
  BY <1>1, <1>2, <1>3, <1>4, <1>5, <1>6, <1>7 DEF HoldersNext

\* An import reported as done put the seed on the card that was on the reader by
\* then, which had none, for any cards and seeds and whatever was exchanged
\* while the menu was open; and no step puts a seed in the place of another.
THEOREM ImportsTrue == NoSigner \notin Signers => (HoldersSpec => ImportIsTrue)
<1> SUFFICES ASSUME NoSigner \notin Signers PROVE HoldersSpec => ImportIsTrue
  OBVIOUS
<1>1. HoldersInit => HoldersInv
  BY HoldersStart
<1>2. HoldersInv /\ [HoldersNext]_signerVars => HoldersInv'
  BY HoldersStep
<1>3. HoldersInv /\ [HoldersNext]_signerVars
        => [/\ said'.told = "imported" /\ said' # said =>
                   seedOf[said'.card] = NoSeed /\ seedOf'[said'.card] = said'.seed
            /\ \A c \in Signers : seedOf[c] # NoSeed => seedOf'[c] \in {seedOf[c], NoSeed}]_signerVars
  BY HoldersStep DEF Imports
<1> QED
  BY <1>1, <1>2, <1>3, PTL DEF HoldersSpec, ImportIsTrue

-----------------------------------------------------------------------------
(* The slots of Satodime cards *)

\* The value for "no snapshot" is not a card.
SlotsInv == SlotsTypeOK /\ CacheLagsOnlyBySigning

LEMMA SlotActionKeeps ==
    ASSUME NoDime \notin SlotDimes, SlotsInv, NEW c \in SlotDimes, NEW s \in DimeSlots,
           Seal(c, s) \/ Unseal(c, s) \/ SignTx(c, s) \/ ResetSlot(c, s)
    PROVE  SlotsInv'
<1>1. Act(c) /\ slotCache # NoCache /\ swapped' \in BOOLEAN /\ (~swapped' => ~swapped /\ slotCache.card = c)
  BY DEF Seal, Unseal, SignTx, ResetSlot, Act, SlotsInv, SlotsTypeOK
<1>2. PICK now \in SlotKinds, seen \in SlotKinds :
        /\ slot' = [slot EXCEPT ![c] = [@ EXCEPT ![s] = now]]
        /\ slotCache' = [slotCache EXCEPT !.slots = [@ EXCEPT ![s] = seen]]
        /\ seen.state = now.state \/ (seen.state = "sealed" /\ now.state = "unsealed")
  <2>1. CASE Seal(c, s)
    <3>1. PICK coin \in {"btc", "other"}, tagged \in BOOLEAN :
             /\ slot' = [slot EXCEPT ![c][s] =
                    [state |-> "sealed", coin |-> IF tagged THEN coin ELSE "btc"]]
             /\ slotCache' = Rewritten(s, [state |-> "sealed", coin |-> coin])
      BY <2>1 DEF Seal
    <3>2. [state |-> "sealed", coin |-> IF tagged THEN coin ELSE "btc"] \in SlotKinds
      BY DEF SlotKinds, States
    <3>3. [state |-> "sealed", coin |-> coin] \in SlotKinds
      BY DEF SlotKinds, States
    <3> QED
      BY <3>1, <3>2, <3>3 DEF Rewritten
  <2>2. CASE Unseal(c, s)
    <3>1. [slot[c][s] EXCEPT !.state = "unsealed"] \in SlotKinds
      BY DEF SlotsInv, SlotsTypeOK, SlotKinds, States
    <3>2. [Cached(s) EXCEPT !.state = "unsealed"] \in SlotKinds
      BY DEF SlotsInv, SlotsTypeOK, SlotKinds, States, Cached
    <3>3. slot' = [slot EXCEPT ![c] = [@ EXCEPT ![s] = [slot[c][s] EXCEPT !.state = "unsealed"]]]
      BY <2>2 DEF Unseal, SlotsInv, SlotsTypeOK
    <3>4. slotCache' = [slotCache EXCEPT !.slots =
                          [@ EXCEPT ![s] = [Cached(s) EXCEPT !.state = "unsealed"]]]
      BY <2>2 DEF Unseal, Rewritten
    <3>5. /\ [slot[c][s] EXCEPT !.state = "unsealed"].state = "unsealed"
          /\ [Cached(s) EXCEPT !.state = "unsealed"].state = "unsealed"
      BY DEF SlotsInv, SlotsTypeOK, SlotKinds, Cached
    <3> QED
      BY <3>1, <3>2, <3>3, <3>4, <3>5
  <2>3. CASE SignTx(c, s)
    <3>1. [slot[c][s] EXCEPT !.state = "unsealed"] \in SlotKinds
      BY DEF SlotsInv, SlotsTypeOK, SlotKinds, States
    <3>2. Cached(s) \in SlotKinds /\ Cached(s).state = "sealed"
      BY <2>3 DEF SignTx, SlotKinds, States
    <3>3. slot' = [slot EXCEPT ![c] = [@ EXCEPT ![s] = [slot[c][s] EXCEPT !.state = "unsealed"]]]
      BY <2>3 DEF SignTx, SlotsInv, SlotsTypeOK
    <3>4. slotCache' = [slotCache EXCEPT !.slots = [@ EXCEPT ![s] = Cached(s)]]
      BY <2>3 DEF SignTx, SlotsInv, SlotsTypeOK, Cached
    <3>5. [slot[c][s] EXCEPT !.state = "unsealed"].state = "unsealed"
      BY DEF SlotsInv, SlotsTypeOK, SlotKinds
    <3> QED
      BY <3>1, <3>2, <3>3, <3>4, <3>5
  <2>4. CASE ResetSlot(c, s)
    <3>1. EmptySlot \in SlotKinds
      BY DEF EmptySlot, SlotKinds, States
    <3> QED
      BY <2>4, <3>1 DEF ResetSlot, Rewritten
  <2> QED
    BY <2>1, <2>2, <2>3, <2>4
<1>3. SlotsTypeOK'
  BY <1>1, <1>2 DEF SlotsInv, SlotsTypeOK
<1>4. ASSUME ~swapped', NEW t \in DimeSlots
      PROVE  \/ slotCache'.slots[t].state = slot'[slotCache'.card][t].state
             \/ slotCache'.slots[t].state = "sealed" /\ slot'[slotCache'.card][t].state = "unsealed"
  <2>1. slotCache'.card = c /\ slotCache.card = c
    BY <1>1, <1>2, <1>4 DEF SlotsInv, SlotsTypeOK
  <2>2. CASE t = s
    BY <1>2, <2>1, <2>2 DEF SlotsInv, SlotsTypeOK
  <2>3. CASE t # s
    <3>1. slotCache'.slots[t] = slotCache.slots[t] /\ slot'[c][t] = slot[c][t]
      BY <1>2, <2>3 DEF SlotsInv, SlotsTypeOK
    <3> QED
      BY <1>1, <1>4, <2>1, <3>1 DEF SlotsInv, CacheLagsOnlyBySigning, Cached
  <2> QED
    BY <2>2, <2>3
<1> QED
  BY <1>3, <1>4 DEF SlotsInv, CacheLagsOnlyBySigning, Cached

LEMMA NoSlotsTyped == NoSlots \in [DimeSlots -> SlotKinds]
BY DEF NoSlots, EmptySlot, SlotKinds, States

LEMMA SlotsStart == ASSUME SlotsInit PROVE SlotsInv
<1>1. swapped \in BOOLEAN
  BY Zenon DEF SlotsInit
<1> QED
  BY <1>1, NoSlotsTyped DEF SlotsInit, SlotsInv, SlotsTypeOK, NoCache, CacheLagsOnlyBySigning

LEMMA SlotsStep ==
    ASSUME NoDime \notin SlotDimes, SlotsInv, [SlotsNext]_slotVars
    PROVE  SlotsInv'
<1>1. ASSUME NEW c \in SlotDimes, ReadSlots(c) PROVE SlotsInv'
  BY <1>1 DEF ReadSlots, SlotsInv, SlotsTypeOK, CacheLagsOnlyBySigning, Cached
<1>2. CASE DropCache
  BY NoSlotsTyped, <1>2 DEF DropCache, SlotsInv, SlotsTypeOK, NoCache, CacheLagsOnlyBySigning
<1>3. CASE UNCHANGED slotVars
  BY <1>3 DEF slotVars, SlotsInv, SlotsTypeOK, CacheLagsOnlyBySigning, Cached
<1> QED
  BY <1>1, <1>2, <1>3, SlotActionKeeps DEF SlotsNext

\* The snapshot of the slots is right, or late by a signing, as long as no card
\* is exchanged for another: for any cards, and any number of slots.
THEOREM SnapshotLags == NoDime \notin SlotDimes => (SlotsSpec => []CacheLagsOnlyBySigning)
<1> SUFFICES ASSUME NoDime \notin SlotDimes PROVE SlotsSpec => []CacheLagsOnlyBySigning
  OBVIOUS
<1>1. SlotsInit => SlotsInv
  BY SlotsStart
<1>2. SlotsInv /\ [SlotsNext]_slotVars => SlotsInv'
  BY SlotsStep
<1>3. SlotsInv => CacheLagsOnlyBySigning
  BY DEF SlotsInv
<1> QED
  BY <1>1, <1>2, <1>3, PTL DEF SlotsSpec

-----------------------------------------------------------------------------
(* The secrets on SeedKeeper cards *)

SomeTexts ==
    Texts \cup Wallets \cup {Names(w) : w \in Wallets}
          \cup (UNION {{<<w[i]>> : i \in DOMAIN w} : w \in Wallets})
          \cup {<< >>, <<[fp |-> 0, path |-> 0]>>}
WalletKeys == UNION {Range(v) : v \in Wallets}

\* What a secret of each type reads as: a key, the names of a descriptor's keys,
\* a descriptor.
ReadsAs(s) ==
    /\ s.type = "xpub" => \E k \in WalletKeys : s.text = <<k>>
    /\ s.type = "template" => \E w \in Wallets : s.text = Names(w)
    /\ s.type = "descriptor" => s.text \in Wallets

SecretKinds ==
    {s \in [type : {"seed", "password", "xpub", "template", "descriptor", "other"}, text : SomeTexts,
            locked : BOOLEAN] : ReadsAs(s)}

SecretsTyped ==
    \A c \in Keepers : secrets[c] \in Seq(SecretKinds) /\ Len(secrets[c]) <= Space

\* What a clone carries is a sequence of secrets, and its destination a card,
\* which the model's value for none is told apart by.
KeeperInv ==
    /\ DOMAIN secrets = Keepers /\ SecretsTyped
    /\ clip \in Seq(SecretKinds)
    /\ clone.end = "done" => clone.to \in Keepers
    /\ CloneIsComplete

(* Places gone through in order give a sequence that leaves none of them out. *)
LEMMA TakenInOrder ==
    ASSUME NEW S, NEW s \in Seq(S), NEW places \in SUBSET (DOMAIN s), NEW order \in Orders(places)
    PROVE  /\ Taken(s, order) \in Seq(S)
           /\ Len(Taken(s, order)) = Cardinality(places)
           /\ \A i \in places : \E n \in 1..Len(Taken(s, order)) : Taken(s, order)[n] = s[i]
<1>1. Len(s) \in Nat /\ DOMAIN s = 1..Len(s)
  BY LenProperties
<1>2. Cardinality(places) \in Nat
  <2>1. IsFiniteSet(1..Len(s))
    BY <1>1, FS_Interval
  <2> QED
    BY <1>1, <2>1, FS_Subset, FS_CardinalityType
<1>3. order \in [1..Cardinality(places) -> places] /\ Range(order) = places
  BY DEF Orders
<1>4. Taken(s, order) = [n \in 1..Cardinality(places) |-> s[order[n]]]
  BY <1>3 DEF Taken
<1>5. \A n \in 1..Cardinality(places) : s[order[n]] \in S
  BY <1>1, <1>3, ElementOfSeq
<1>6. Taken(s, order) \in Seq(S) /\ Len(Taken(s, order)) = Cardinality(places)
  BY <1>2, <1>4, <1>5
<1>7. ASSUME NEW i \in places
      PROVE  \E n \in 1..Len(Taken(s, order)) : Taken(s, order)[n] = s[i]
  <2>1. PICK n \in 1..Cardinality(places) : order[n] = i
    BY <1>3 DEF Range
  <2> QED
    BY <1>4, <1>6, <2>1
<1> QED
  BY <1>6, <1>7

LessThan == {p \in Nat \X Nat : p[1] < p[2]}

LEMMA SmallestOf == ASSUME NEW T \in SUBSET Nat, T # {} PROVE \E x \in T : \A y \in T : x <= y
<1>1. IsWellFoundedOn(LessThan, Nat)
  BY NatLessThanWellFounded DEF OpToRel, LessThan
<1>2. PICK x \in T : \A y \in T : ~(<<y, x>> \in LessThan)
  BY <1>1, WFMin
<1>3. \A y \in T : ~(y < x)
  BY <1>2 DEF LessThan
<1> QED
  BY <1>3

(* Of the secrets that read the same and can be written, one is the first.   *)
LEMMA FirstThatReads ==
    ASSUME NEW S, NEW s \in Seq(S), NEW i \in DOMAIN s, ~Unsupported(s[i])
    PROVE  \E k \in DOMAIN s : /\ s[k].text = s[i].text /\ ~Unsupported(s[k])
                               /\ \A j \in 1..(k - 1) : s[j].text # s[i].text \/ Unsupported(s[j])
<1> DEFINE places == {k \in DOMAIN s : s[k].text = s[i].text /\ ~Unsupported(s[k])}
<1>1. Len(s) \in Nat /\ DOMAIN s = 1..Len(s)
  BY LenProperties
<1>2. places \subseteq Nat /\ i \in places
  BY <1>1
<1>3. PICK k \in places : \A j \in places : k <= j
  BY <1>2, SmallestOf
<1>4. \A j \in 1..(k - 1) : j \in DOMAIN s /\ ~(k <= j)
  BY <1>1, <1>2
<1> QED
  BY <1>3, <1>4
\* As much as there is room for, of a secrets next to the b on the card.
LEMMA RoomFor ==
    ASSUME NEW a \in Nat, NEW b \in 0..Space
    PROVE  /\ (IF b + a <= Space THEN a ELSE Space - b) \in 0..a
           /\ b + (IF b + a <= Space THEN a ELSE Space - b) <= Space
BY KeeperAssumption

\* Writing n secrets of a sequence to a card that has room for them.
LEMMA WriteTyped ==
    ASSUME KeeperInv, NEW c \in Keepers, NEW new \in Seq(SecretKinds),
           NEW n \in 0..Len(new), Len(secrets[c]) + n <= Space,
           secrets' = [secrets EXCEPT ![c] = @ \o SubSeq(new, 1, n)]
    PROVE  DOMAIN secrets' = Keepers /\ SecretsTyped'
<1>1. Len(new) \in Nat /\ \A i \in 1..n : new[i] \in SecretKinds
  BY LenProperties, ElementOfSeq
<1>2. SubSeq(new, 1, n) \in Seq(SecretKinds) /\ Len(SubSeq(new, 1, n)) = n
  BY <1>1, SubSeqProperties
<1>3. secrets[c] \in Seq(SecretKinds) /\ Len(secrets[c]) \in Nat
  BY LenProperties DEF KeeperInv, SecretsTyped
<1>4. /\ secrets[c] \o SubSeq(new, 1, n) \in Seq(SecretKinds)
      /\ Len(secrets[c] \o SubSeq(new, 1, n)) = Len(secrets[c]) + n
  BY <1>2, <1>3, ConcatProperties
<1> QED
  BY <1>4 DEF KeeperInv, SecretsTyped

\* While no clone runs a card may change in any way that keeps its type.
LEMMA QuietKeeps ==
    ASSUME KeeperInv, NotCloning, UNCHANGED <<clip, clone>>,
           DOMAIN secrets' = Keepers, SecretsTyped'
    PROVE  KeeperInv'
<1>1. DOMAIN clip = {}
  BY DEF NotCloning
<1> QED
  BY <1>1 DEF KeeperInv, CloneIsComplete

LEMMA ImportKeeps ==
    ASSUME KeeperInv, NEW c \in Keepers, ImportPassword(c)
    PROVE  KeeperInv'
<1>1. PICK t \in Texts :
         secrets' = [secrets EXCEPT ![c] = Append(@, Secret("password", t))]
  BY DEF ImportPassword
<1>2. Secret("password", t) \in SecretKinds
  BY DEF Secret, SecretKinds, SomeTexts, ReadsAs
<1>3. secrets[c] \in Seq(SecretKinds) /\ Len(secrets[c]) \in Nat /\ Len(secrets[c]) + 1 <= Space
  BY LenProperties DEF KeeperInv, SecretsTyped, ImportPassword, Fits
<1>4. /\ Append(secrets[c], Secret("password", t)) \in Seq(SecretKinds)
      /\ Len(Append(secrets[c], Secret("password", t))) = Len(secrets[c]) + 1
  BY <1>2, <1>3, AppendProperties
<1>5. DOMAIN secrets' = Keepers /\ SecretsTyped'
  BY <1>1, <1>3, <1>4 DEF KeeperInv, SecretsTyped
<1> QED
  BY <1>5, QuietKeeps DEF ImportPassword

LEMMA DeleteKeeps ==
    ASSUME KeeperInv, NEW c \in Keepers, DeleteSecret(c)
    PROVE  KeeperInv'
<1>1. PICK i \in Listed(c) : secrets' = [secrets EXCEPT ![c] = RemoveAt(@, i)]
  BY DEF DeleteSecret
<1> DEFINE s == secrets[c]
<1>2. s \in Seq(SecretKinds) /\ Len(s) \in Nat /\ DOMAIN s = 1..Len(s) /\ Len(s) <= Space
  BY LenProperties DEF KeeperInv, SecretsTyped
<1>3. i \in 1..Len(s)
  BY <1>2 DEF Listed
<1>4. \A j \in 1..Len(s) : s[j] \in SecretKinds
  BY <1>2, ElementOfSeq
<1>5. SubSeq(s, 1, i - 1) \in Seq(SecretKinds) /\ Len(SubSeq(s, 1, i - 1)) = i - 1
  BY <1>2, <1>3, <1>4, SubSeqProperties
<1>6. SubSeq(s, i + 1, Len(s)) \in Seq(SecretKinds) /\ Len(SubSeq(s, i + 1, Len(s))) = Len(s) - i
  BY <1>2, <1>3, <1>4, SubSeqProperties
<1>7. RemoveAt(s, i) \in Seq(SecretKinds) /\ Len(RemoveAt(s, i)) = Len(s) - 1
  <2>1. (i - 1) + (Len(s) - i) = Len(s) - 1
    BY <1>2, <1>3
  <2> QED
    BY <1>5, <1>6, <2>1, ConcatProperties DEF RemoveAt
<1>8. DOMAIN secrets' = Keepers /\ SecretsTyped'
  BY <1>1, <1>2, <1>7, KeeperAssumption DEF KeeperInv, SecretsTyped
<1> QED
  BY <1>8, QuietKeeps DEF DeleteSecret

\* The pieces of a descriptor are secrets, on either version of the card.
LEMMA PiecesTyped ==
    ASSUME NEW c \in Keepers, wallet \in Wallets
    PROVE  Pieces(c) \in Seq(SecretKinds)
<1>1. wallet \in Seq(Range(wallet))
  BY KeeperAssumption
<1>2. Len(wallet) \in Nat /\ DOMAIN wallet = 1..Len(wallet)
  BY <1>1, LenProperties
<1>3. CASE version[c] = 2
  <2>1. Secret("descriptor", wallet) \in SecretKinds
    BY DEF Secret, SecretKinds, SomeTexts, ReadsAs
  <2> QED
    BY <1>3, <2>1 DEF Pieces
<1>4. CASE version[c] # 2
  <2>1. ASSUME NEW i \in DOMAIN wallet PROVE Secret("xpub", <<wallet[i]>>) \in SecretKinds
    <3>1. <<wallet[i]>> \in UNION {{<<w[j]>> : j \in DOMAIN w} : w \in Wallets}
      OBVIOUS
    <3>2. wallet[i] \in WalletKeys
      BY <1>1 DEF WalletKeys, Range
    <3> QED
      BY <3>1, <3>2 DEF Secret, SecretKinds, SomeTexts, ReadsAs
  <2>2. [i \in DOMAIN wallet |-> Secret("xpub", <<wallet[i]>>)] \in Seq(SecretKinds)
    BY <1>2, <2>1
  <2>3. Secret("template", Names(wallet)) \in SecretKinds
    BY DEF Secret, SecretKinds, SomeTexts, ReadsAs
  <2>4. <<Secret("template", Names(wallet))>> \in Seq(SecretKinds)
    BY <2>3
  <2> QED
    BY <1>4, <2>2, <2>4, ConcatProperties DEF Pieces
<1> QED
  BY <1>3, <1>4

LEMMA SaveKeeps ==
    ASSUME KeeperInv, NEW c \in Keepers, SaveDescriptor(c)
    PROVE  KeeperInv'
<1> DEFINE places == {i \in DOMAIN Pieces(c) : ~OnCard(c, Pieces(c)[i])}
<1>1. PICK order \in Orders(places) :
         LET new == Taken(Pieces(c), order)
             n == IF Fits(c, Len(new)) THEN Len(new) ELSE Space - Len(secrets[c])
         IN n > 0 /\ secrets' = [secrets EXCEPT ![c] = @ \o SubSeq(new, 1, n)]
  BY DEF SaveDescriptor
<1> DEFINE new == Taken(Pieces(c), order)
           n == IF Fits(c, Len(new)) THEN Len(new) ELSE Space - Len(secrets[c])
<1>2. Pieces(c) \in Seq(SecretKinds)
  BY PiecesTyped DEF SaveDescriptor
<1>3. new \in Seq(SecretKinds)
  BY <1>2, TakenInOrder
<1>4. Len(new) \in Nat /\ Len(secrets[c]) \in 0..Space
  BY <1>3, LenProperties, KeeperAssumption DEF KeeperInv, SecretsTyped
<1>5. n \in 0..Len(new) /\ Len(secrets[c]) + n <= Space
  BY <1>4, RoomFor DEF Fits
<1>6. secrets' = [secrets EXCEPT ![c] = @ \o SubSeq(new, 1, n)]
  BY <1>1
<1> HIDE DEF n, new
<1>7. DOMAIN secrets' = Keepers /\ SecretsTyped'
  BY <1>3, <1>5, <1>6, WriteTyped
<1> QED
  BY <1>7, QuietKeeps DEF SaveDescriptor

LEMMA CollectKeeps ==
    ASSUME KeeperInv, NEW c \in Keepers, CollectSecrets(c)
    PROVE  KeeperInv'
<1>1. PICK read \in SUBSET Listed(c) :
         \E order \in Orders(read) : clip' = Taken(secrets[c], order)
  BY DEF CollectSecrets
<1>2. secrets[c] \in Seq(SecretKinds) /\ read \in SUBSET (DOMAIN secrets[c])
  BY DEF KeeperInv, SecretsTyped, Listed
<1>3. clip' \in Seq(SecretKinds)
  BY <1>1, <1>2, TakenInOrder
<1>4. clone'.end # "done"
  BY DEF CollectSecrets, NoClone
<1> QED
  BY <1>3, <1>4 DEF CollectSecrets, KeeperInv, SecretsTyped, CloneIsComplete

\* The contents of a secret that is neither written nor left out are on the card
\* already, or are those of an earlier one that is written.
LEMMA CloneKeeps ==
    ASSUME KeeperInv, NEW c \in Keepers, CloneTo(c)
    PROVE  KeeperInv'
<1> DEFINE places == Missing(c) \ LeftOut(c)
<1>1. PICK order \in Orders(places) : \E n \in 0..Len(Taken(clip, order)) :
         /\ Fits(c, n)
         /\ secrets' = [secrets EXCEPT ![c] = @ \o SubSeq(Taken(clip, order), 1, n)]
         /\ \/ n = Len(Taken(clip, order))
               /\ clone' = [to |-> c, end |-> "done", left |-> LeftOut(c)]
            \/ clone' = [to |-> c, end |-> "failed", left |-> {}]
  BY DEF CloneTo
<1> DEFINE new == Taken(clip, order)
<1>2. /\ clip \in Seq(SecretKinds) /\ places \in SUBSET (DOMAIN clip)
      /\ \A i \in LeftOut(c) : Unsupported(clip[i])
  BY DEF KeeperInv, Missing, LeftOut
<1>3. /\ new \in Seq(SecretKinds)
      /\ \A i \in places : \E m \in 1..Len(new) : new[m] = clip[i]
  BY <1>2, TakenInOrder
<1> HIDE DEF new
<1>4. Len(new) \in Nat /\ Len(secrets[c]) \in 0..Space
  BY <1>3, LenProperties, KeeperAssumption DEF KeeperInv, SecretsTyped
<1>5. PICK n \in 0..Len(new) :
         /\ Len(secrets[c]) + n <= Space
         /\ secrets' = [secrets EXCEPT ![c] = @ \o SubSeq(new, 1, n)]
         /\ \/ n = Len(new) /\ clone' = [to |-> c, end |-> "done", left |-> LeftOut(c)]
            \/ clone' = [to |-> c, end |-> "failed", left |-> {}]
  BY <1>1 DEF Fits, new
<1>6. clone'.end = "done" => n = Len(new) /\ clone'.to = c /\ clone'.left = LeftOut(c)
  BY <1>5
<1>7. DOMAIN secrets' = Keepers /\ SecretsTyped'
  BY <1>3, <1>5, WriteTyped
<1>8. ASSUME clone'.end = "done", NEW i \in DOMAIN clip, i \notin LeftOut(c)
      PROVE  \E j \in DOMAIN secrets'[c] : secrets'[c][j].text = clip[i].text
  <2> DEFINE s == secrets[c]
  <2>1. s \in Seq(SecretKinds) /\ Len(s) \in Nat /\ DOMAIN s = 1..Len(s)
    BY LenProperties DEF KeeperInv, SecretsTyped
  <2>2. SubSeq(new, 1, n) = new
    BY <1>3, <1>6, <1>8, SubSeqFull
  <2>3. secrets'[c] = s \o new
    BY <1>5, <2>2 DEF KeeperInv
  <2>4. /\ s \o new \in Seq(SecretKinds)
        /\ Len(s \o new) = Len(s) + Len(new)
        /\ \A j \in 1..(Len(s) + Len(new)) :
              (s \o new)[j] = IF j <= Len(s) THEN s[j] ELSE new[j - Len(s)]
    BY <1>3, <2>1, ConcatProperties
  <2>5. DOMAIN (s \o new) = 1..(Len(s) + Len(new))
    BY <2>4, LenProperties
  <2>6. CASE \E j \in DOMAIN s : s[j].text = clip[i].text
    BY <1>4, <2>1, <2>3, <2>4, <2>5, <2>6
  <2>7. CASE \A j \in DOMAIN s : s[j].text # clip[i].text
    <3>1. PICK e \in DOMAIN clip : clip[e].text = clip[i].text /\ ~Unsupported(clip[e])
      <4>1. CASE i \in Missing(c)
        BY <1>8, <4>1 DEF LeftOut
      <4>2. CASE i \notin Missing(c)
        <5>1. PICK e \in 1..(i - 1) : ~(clip[e].text # clip[i].text \/ Unsupported(clip[e]))
          BY <2>7, <4>2 DEF Missing
        <5>2. e \in DOMAIN clip
          BY <1>2, <5>1, LenProperties
        <5> QED
          BY <5>1, <5>2
      <4> QED
        BY <4>1, <4>2
    <3>2. PICK k \in DOMAIN clip :
             /\ clip[k].text = clip[e].text /\ ~Unsupported(clip[k])
             /\ \A j \in 1..(k - 1) : clip[j].text # clip[e].text \/ Unsupported(clip[j])
      BY <1>2, <3>1, FirstThatReads
    <3>3. k \in places
      BY <2>7, <3>1, <3>2 DEF Missing, LeftOut
    <3>4. PICK m \in 1..Len(new) : new[m] = clip[k]
      BY <1>3, <3>3
    <3>5. /\ Len(s) + m \in 1..(Len(s) + Len(new))
          /\ ~(Len(s) + m <= Len(s)) /\ (Len(s) + m) - Len(s) = m
      BY <1>4, <2>1, <3>4
    <3>6. (s \o new)[Len(s) + m] = new[m]
      BY <2>4, <3>5
    <3> QED
      BY <2>3, <2>5, <3>1, <3>2, <3>4, <3>5, <3>6
  <2> QED
    BY <2>6, <2>7
<1>9. clip' = clip /\ (clone'.end = "done" => clone'.to \in Keepers)
  BY <1>6 DEF CloneTo
<1>10. CloneIsComplete'
  <2> SUFFICES ASSUME clone'.end = "done", NEW i \in DOMAIN clip'
               PROVE  IF i \in clone'.left THEN Unsupported(clip'[i])
                      ELSE \E j \in DOMAIN secrets'[clone'.to] :
                              secrets'[clone'.to][j].text = clip'[i].text
    BY DEF CloneIsComplete
  <2> QED
    BY <1>2, <1>6, <1>8, <1>9
<1> QED
  BY <1>2, <1>7, <1>9, <1>10 DEF KeeperInv

LEMMA KeeperStep ==
    ASSUME KeeperInv, [KeeperNext]_keeperVars
    PROVE  KeeperInv'
<1>1. ASSUME NEW c \in Keepers, LoadDescriptor(c) PROVE KeeperInv'
  BY <1>1 DEF LoadDescriptor, KeeperInv, SecretsTyped, CloneIsComplete
<1>2. CASE WalletFromElsewhere
  BY <1>2 DEF WalletFromElsewhere, KeeperInv, SecretsTyped, CloneIsComplete
<1>3. CASE EndClone
  <2>1. clip' = << >> /\ clip' \in Seq(SecretKinds) /\ DOMAIN clip' = {}
    BY <1>3, EmptySeq DEF EndClone
  <2>2. clone'.end # "done"
    BY <1>3 DEF EndClone, NoClone
  <2> QED
    BY <1>3, <2>1, <2>2 DEF EndClone, KeeperInv, SecretsTyped, CloneIsComplete
<1>4. CASE UNCHANGED keeperVars
  BY <1>4 DEF keeperVars, KeeperInv, SecretsTyped, CloneIsComplete
<1> QED
  BY <1>1, <1>2, <1>3, <1>4, ImportKeeps, DeleteKeeps, SaveKeeps, CollectKeeps, CloneKeeps
  DEF KeeperNext

LEMMA KeeperStart == ASSUME KeeperInit PROVE KeeperInv
<1> DEFINE locked == [Seed EXCEPT !.locked = TRUE]
<1>1. Seed \in SecretKinds /\ locked \in SecretKinds /\ Unnamed \in SecretKinds
  <2>1. << >> \in SomeTexts /\ <<[fp |-> 0, path |-> 0]>> \in SomeTexts
    BY DEF SomeTexts
  <2> QED
    BY <2>1 DEF Seed, Unnamed, Secret, SecretKinds, ReadsAs
<1>2. \A c \in Keepers : secrets[c] \in {<< >>, <<Seed>>, <<locked>>, <<Unnamed>>}
  BY DEF KeeperInit
<1> HIDE DEF locked
<1>3. DOMAIN secrets = Keepers /\ SecretsTyped
  <2>1. \A e \in SecretKinds : <<e>> \in Seq(SecretKinds) /\ Len(<<e>>) = 1
    OBVIOUS
  <2>2. \A c \in Keepers : secrets[c] \in Seq(SecretKinds) /\ Len(secrets[c]) \in {0, 1}
    BY <1>1, <1>2, <2>1, EmptySeq
  <2>3. \A c \in Keepers : Len(secrets[c]) <= Space
    <3>1. 0 <= Space /\ 1 <= Space
      BY KeeperAssumption
    <3> QED
      BY <2>2, <3>1
  <2>4. DOMAIN secrets = Keepers
    BY DEF KeeperInit
  <2> QED
    BY <2>2, <2>3, <2>4 DEF SecretsTyped
<1>4. clip \in Seq(SecretKinds) /\ clone.end # "done"
  BY EmptySeq DEF KeeperInit, NoClone
<1> QED
  BY <1>3, <1>4 DEF KeeperInv, CloneIsComplete

\* A clone that says it is complete holds all that was read from the source card
\* but what it counts as unsupported, for any cards of any size and any
\* descriptors and passwords on them, wherever an attempt before it broke off.
THEOREM CloneComplete == KeeperSpec => []CloneIsComplete
<1>1. KeeperInit => KeeperInv
  BY KeeperStart
<1>2. KeeperInv /\ [KeeperNext]_keeperVars => KeeperInv'
  BY KeeperStep
<1>3. KeeperInv => CloneIsComplete
  BY DEF KeeperInv
<1> QED
  BY <1>1, <1>2, <1>3, PTL DEF KeeperSpec

(* The wallet that a card's secrets make.                                   *)
LoadedWallets == Wallets \cup {NoWallet} \cup UNION {[DOMAIN w -> WalletKeys] : w \in Wallets}

CloneEnds == [to : Keepers \cup {NoKeeper}, end : {"none", "running", "done", "failed"},
              left : SUBSET DOMAIN clip]

KeeperTyped ==
    /\ KeeperInv
    /\ version \in [Keepers -> {1, 2}]
    /\ wallet \in LoadedWallets
    /\ clone \in CloneEnds

LEMMA KeeperTypes == KeeperTyped => KeeperTypeOK
<1> SUFFICES ASSUME KeeperTyped PROVE KeeperTypeOK
  OBVIOUS
<1>1. ASSUME NEW c \in Keepers, NEW i \in DOMAIN secrets[c]
      PROVE  secrets[c][i] \in SecretKinds
  BY ElementOfSeq, LenProperties DEF KeeperTyped, KeeperInv, SecretsTyped
<1>2. \A c \in Keepers :
         /\ Len(secrets[c]) <= Space
         /\ \A i \in DOMAIN secrets[c] :
              /\ secrets[c][i].type \in {"seed", "password", "xpub", "template", "descriptor", "other"}
              /\ secrets[c][i].locked \in BOOLEAN
  BY <1>1 DEF KeeperTyped, KeeperInv, SecretsTyped, SecretKinds
<1> QED
  BY <1>2 DEF KeeperTyped, KeeperTypeOK, LoadedWallets, WalletKeys, CloneEnds

\* The key that takes a name's place is one of a descriptor: a card that has
\* keys of that name has a first one.
LEMMA NamedKey ==
    ASSUME KeeperInv, NEW c \in Keepers, NEW fp,
           \E i \in Listed(c) : secrets[c][i].type = "xpub" /\ secrets[c][i].text[1].fp = fp
    PROVE  FirstNamed(c, fp) \in WalletKeys
<1> DEFINE found == {i \in Listed(c) : secrets[c][i].type = "xpub" /\ secrets[c][i].text[1].fp = fp}
           first == CHOOSE i \in found : \A j \in found : i <= j
<1>1. secrets[c] \in Seq(SecretKinds) /\ DOMAIN secrets[c] = 1..Len(secrets[c])
  BY LenProperties DEF KeeperInv, SecretsTyped
<1>2. found \subseteq Nat /\ found # {} /\ found \subseteq DOMAIN secrets[c]
  BY <1>1, LenProperties DEF Listed
<1>3. \E i \in found : \A j \in found : i <= j
  BY <1>2, SmallestOf
<1>4. first \in found
  BY <1>3
<1>5. secrets[c][first] \in SecretKinds /\ secrets[c][first].type = "xpub"
  BY <1>1, <1>2, <1>4, ElementOfSeq
<1>6. PICK k \in WalletKeys : secrets[c][first].text = <<k>>
  BY <1>5 DEF SecretKinds, ReadsAs
<1> HIDE DEF first
<1>7. secrets[c][first].text[1] = k
  <2>1. <<k>>[1] = k
    OBVIOUS
  <2> QED
    BY <1>6, <2>1, Zenon
<1>8. FirstNamed(c, fp) = secrets[c][first].text[1]
  BY DEF FirstNamed, first
<1> QED
  BY <1>7, <1>8

LEMMA LoadTyped ==
    ASSUME KeeperTyped, NEW c \in Keepers, LoadDescriptor(c)
    PROVE  wallet' \in LoadedWallets
<1>1. PICK i \in Listed(c) :
         LET s == secrets[c][i]
         IN \/ s.type = "descriptor" /\ wallet' = s.text
            \/ /\ s.type = "template" /\ HasKeys(c, s.text)
               /\ wallet' = [n \in DOMAIN s.text |-> FirstNamed(c, s.text[n].fp)]
  BY DEF LoadDescriptor
<1> DEFINE s == secrets[c][i]
<1>2. s \in SecretKinds
  BY ElementOfSeq, LenProperties DEF KeeperTyped, KeeperInv, SecretsTyped, Listed
<1>3. CASE s.type = "descriptor" /\ wallet' = s.text
  BY <1>1, <1>2, <1>3 DEF SecretKinds, ReadsAs, LoadedWallets
<1>4. CASE /\ s.type = "template" /\ HasKeys(c, s.text)
           /\ wallet' = [n \in DOMAIN s.text |-> FirstNamed(c, s.text[n].fp)]
  <2>1. PICK w \in Wallets : s.text = Names(w)
    BY <1>2, <1>4 DEF SecretKinds, ReadsAs
  <2>2. DOMAIN s.text = DOMAIN w
    BY <2>1 DEF Names
  <2>3. ASSUME NEW n \in DOMAIN s.text PROVE FirstNamed(c, s.text[n].fp) \in WalletKeys
    BY <1>4, NamedKey DEF HasKeys, KeeperTyped
  <2>4. wallet' \in [DOMAIN w -> WalletKeys]
    BY <1>4, <2>2, <2>3
  <2> QED
    BY <1>1, <1>2, <2>4 DEF SecretKinds, LoadedWallets
<1> QED
  BY <1>1, <1>3, <1>4

LEMMA KeeperTypedStart == ASSUME KeeperInit PROVE KeeperTyped
<1>1. clone \in CloneEnds
  BY DEF KeeperInit, NoClone, CloneEnds
<1> QED
  BY <1>1, KeeperStart DEF KeeperInit, KeeperTyped, LoadedWallets

LEMMA KeeperTypedStep ==
    ASSUME KeeperTyped, [KeeperNext]_keeperVars
    PROVE  KeeperTyped'
<1>1. KeeperInv'
  BY KeeperStep DEF KeeperTyped
<1>2. version' = version
  BY DEF KeeperNext, keeperVars, ImportPassword, DeleteSecret, SaveDescriptor, LoadDescriptor,
         CollectSecrets, CloneTo, WalletFromElsewhere, EndClone
<1>3. clone' \in CloneEnds'
  <2>1. ASSUME NEW c \in Keepers, CloneTo(c) PROVE clone' \in CloneEnds'
    <3>1. /\ clip' = clip
          /\ \/ clone' = [to |-> c, end |-> "done", left |-> LeftOut(c)]
             \/ clone' = [to |-> c, end |-> "failed", left |-> {}]
      BY <2>1 DEF CloneTo
    <3>2. LeftOut(c) \subseteq DOMAIN clip
      BY DEF LeftOut, Missing
    <3> QED
      BY <3>1, <3>2 DEF CloneEnds
  <2>2. CASE UNCHANGED <<clip, clone>>
    BY <2>2 DEF KeeperTyped, CloneEnds
  <2>3. CASE clone' \in {NoClone, [NoClone EXCEPT !.end = "running"]}
    BY <2>3 DEF CloneEnds, NoClone
  <2> QED
    BY <2>1, <2>2, <2>3 DEF KeeperNext, keeperVars, ImportPassword, DeleteSecret, SaveDescriptor,
         LoadDescriptor, CollectSecrets, WalletFromElsewhere, EndClone
<1>4. wallet' \in LoadedWallets
  <2>1. CASE WalletFromElsewhere
    BY <2>1 DEF WalletFromElsewhere, LoadedWallets
  <2>2. CASE \E c \in Keepers : LoadDescriptor(c)
    BY <2>2, LoadTyped
  <2>3. CASE UNCHANGED wallet
    BY <2>3 DEF KeeperTyped
  <2> QED
    BY <2>1, <2>2, <2>3 DEF KeeperNext, keeperVars, ImportPassword, DeleteSecret, SaveDescriptor,
                            CollectSecrets, CloneTo, EndClone
<1> QED
  BY <1>1, <1>2, <1>3, <1>4 DEF KeeperTyped

-----------------------------------------------------------------------------
(* The types of the other parts *)

SessionViews == {"menu"} \cup PinViews \cup PinlessViews \cup {"blockPin", "blockPuk", "rounds"}

SessionTyped ==
    /\ CardsTyped
    /\ kind \in [Cards -> Kinds]
    /\ cachedPin \in Pins \cup {NoPin}
    /\ lastUid \in Cards \cup {NoCard, Blank}
    /\ view \in [name : SessionViews, card : Cards \cup {NoCard}]
    /\ owner \in Cards \cup {NoCard}
    /\ sent \in {"nothing", "typed", "cached", "misdirected"}
    /\ silent \in 0..2
    /\ told \in {"nothing", "reset", "notReset"}

LEMMA SessionTypes == SessionTyped => TypeOK
BY DEF SessionTyped, CardsTyped, TypeOK, SessionViews

LEMMA SessionStart == ASSUME SessionAssumption, Init PROVE SessionTyped
BY CardsTypedStart DEF SessionAssumption, Init, SessionTyped, Menu, SessionViews

(* A view that connects, and what is cached for the card on the reader.     *)
LEMMA ConnectTyped ==
    ASSUME SessionTyped, reader # NoCard,
           \/ \E v \in PinViews : OpenVerified(v)
           \/ \E v \in PinlessViews : OpenPinless(v)
           \/ \E v \in PinViews \cup PinlessViews : OpenSetup(v)
           \/ GenuineRetry
    PROVE  /\ cachedPin' \in Pins \cup {NoPin}
           /\ lastUid' \in Cards \cup {NoCard, Blank}
           /\ view' \in [name : SessionViews, card : Cards \cup {NoCard}]
           /\ owner' \in Cards \cup {NoCard}
           /\ sent' \in {"nothing", "typed", "cached", "misdirected"}
           /\ silent' \in 0..2
           /\ told' = told
<1>1. reader \in Cards
  BY DEF SessionTyped, CardsTyped
<1>2. \A id \in {reader, Blank} : Recorded(id) \in Cards \cup {NoCard, Blank}
  BY <1>1 DEF Recorded, SessionTyped
<1>3. \A v \in SessionViews : [name |-> v, card |-> reader] \in [name : SessionViews, card : Cards \cup {NoCard}]
  BY <1>1
<1>4. ASSUME NEW v \in PinViews, OpenVerified(v)
      PROVE  /\ cachedPin' \in Pins \cup {NoPin}
             /\ lastUid' \in Cards \cup {NoCard, Blank}
             /\ view' \in [name : SessionViews, card : Cards \cup {NoCard}]
             /\ owner' \in Cards \cup {NoCard}
             /\ sent' \in {"nothing", "typed", "cached", "misdirected"}
             /\ silent' \in 0..2
             /\ told' = told
  <2>1. PICK id \in {reader, Blank}, typed \in Pins :
          LET fromCache == cachedPin # NoPin /\ SameCard(id)
              given == IF fromCache THEN cachedPin ELSE typed
              right == card[reader].tries > 0 /\ given = card[reader].pin
          IN /\ sent' = IF ~fromCache THEN "typed"
                        ELSE IF reader = owner THEN "cached" ELSE "misdirected"
             /\ IF right
                THEN /\ cachedPin' = given /\ owner' = reader
                     /\ lastUid' = Recorded(id)
                     /\ silent' = IF fromCache THEN silent ELSE 0
                     /\ view' = [name |-> v, card |-> reader]
                ELSE /\ cachedPin' = AfterWrongPin(reader)
                     /\ silent' = IF ~fromCache THEN 0
                                   ELSE IF silent < 2 THEN silent + 1 ELSE 2
                     /\ UNCHANGED <<lastUid, view, owner>>
    BY <1>4 DEF OpenVerified
  <2>2. AfterWrongPin(reader) \in Pins \cup {NoPin}
    BY DEF AfterWrongPin, SessionTyped
  <2>3. silent' \in 0..2
    BY <2>1 DEF SessionTyped
  <2>4. cachedPin' \in Pins \cup {NoPin} /\ sent' \in {"nothing", "typed", "cached", "misdirected"}
    BY <2>1, <2>2 DEF SessionTyped
  <2>5. v \in SessionViews
    BY DEF SessionViews
  <2> QED
    BY <1>1, <1>2, <1>3, <1>4, <2>1, <2>3, <2>4, <2>5 DEF SessionTyped, OpenVerified
<1>5. ASSUME NEW v \in PinlessViews, OpenPinless(v)
      PROVE  /\ lastUid' \in Cards \cup {NoCard, Blank}
             /\ view' \in [name : SessionViews, card : Cards \cup {NoCard}]
  BY <1>2, <1>3, <1>5 DEF OpenPinless, SessionViews
<1>6. ASSUME NEW v \in PinViews \cup PinlessViews, OpenSetup(v)
      PROVE  /\ cachedPin' \in Pins \cup {NoPin}
             /\ lastUid' \in Cards \cup {NoCard, Blank}
             /\ view' \in [name : SessionViews, card : Cards \cup {NoCard}]
             /\ owner' \in Cards \cup {NoCard}
             /\ silent' = 0
  <2>1. PICK id \in {reader, Blank}, new \in Pins :
          /\ lastUid' = Recorded(id) /\ silent' = 0
          /\ \/ cachedPin' = cachedPin /\ owner' = owner
             \/ cachedPin' = new /\ owner' = reader
    BY <1>6 DEF OpenSetup
  <2>2. v \in SessionViews /\ view' = [name |-> v, card |-> reader]
    BY <1>6 DEF OpenSetup, SessionViews
  <2> QED
    BY <1>1, <1>2, <1>3, <2>1, <2>2 DEF SessionTyped
<1>7. CASE GenuineRetry
  BY <1>1, <1>2, <1>7 DEF GenuineRetry, SessionTyped
<1>8. CASE \E v \in PinViews \cup PinlessViews : OpenSetup(v)
  <2>1. UNCHANGED <<sent, told>>
    BY <1>8 DEF OpenSetup
  <2> QED
    BY <1>6, <1>8, <2>1 DEF SessionTyped
<1>9. CASE \E v \in PinlessViews : OpenPinless(v)
  <2>1. UNCHANGED <<cachedPin, owner, sent, silent, told>>
    BY <1>9 DEF OpenPinless
  <2> QED
    BY <1>5, <1>9, <2>1 DEF SessionTyped
<1> QED
  BY <1>4, <1>7, <1>8, <1>9

LEMMA SessionStep ==
    ASSUME SessionAssumption, SessionTyped, [Next]_cardVars
    PROVE  SessionTyped'
<1>1. CardsTyped'
  BY CardsTypedNext DEF SessionTyped, SessionAssumption
<1>2. kind' = kind
  BY DEF Next, cardVars, OpenVerified, OpenPinless, OpenSetup, ChangePin, GenuineRetry, UnblockPin,
         KeycardReset, ChooseReset, ResetRound, BlockPin, BackAtPinPrompt, BlockPuk, Leave, Home, SwapCard
<1>3. CASE \/ \E v \in PinViews : OpenVerified(v)
           \/ \E v \in PinlessViews : OpenPinless(v)
           \/ \E v \in PinViews \cup PinlessViews : OpenSetup(v)
           \/ GenuineRetry
  <2>1. reader # NoCard
    BY <1>3 DEF OpenVerified, OpenPinless, OpenSetup, GenuineRetry
  <2> QED
    BY <1>1, <1>2, <1>3, <2>1, ConnectTyped DEF SessionTyped
<1>4. Menu \in [name : SessionViews, card : Cards \cup {NoCard}]
  BY DEF Menu, SessionViews
<1>5. CASE ChangePin \/ UnblockPin
  <2>1. reader \in Cards \cup {NoCard} /\ view' = Menu /\ silent' = 0
    BY <1>5 DEF ChangePin, UnblockPin, SessionTyped, CardsTyped
  <2>2. cachedPin' \in Pins /\ owner' = reader /\ UNCHANGED <<lastUid, sent, told>>
    BY <1>5 DEF ChangePin, UnblockPin
  <2> QED
    BY <1>1, <1>2, <1>4, <2>1, <2>2 DEF SessionTyped
<1>6. CASE KeycardReset \/ Home
  BY <1>1, <1>2, <1>4, <1>6 DEF KeycardReset, Home, SessionTyped
<1>7. CASE ChooseReset \/ ResetRound \/ BlockPin \/ BackAtPinPrompt \/ BlockPuk \/ Leave
  <2>1. UNCHANGED <<cachedPin, lastUid, owner, sent, silent>>
    BY <1>7 DEF ChooseReset, ResetRound, BlockPin, BackAtPinPrompt, BlockPuk, Leave
  <2>2. told' \in {"nothing", "reset", "notReset"}
    BY <1>7 DEF ChooseReset, ResetRound, BlockPin, BackAtPinPrompt, BlockPuk, Leave, SessionTyped
  <2>3. view' \in {view, Menu} \/ \E n \in {"blockPin", "rounds", "blockPuk", view.name} : view' = [view EXCEPT !.name = n]
    BY <1>7 DEF ChooseReset, ResetRound, BlockPin, BackAtPinPrompt, BlockPuk, Leave
  <2>4. view' \in [name : SessionViews, card : Cards \cup {NoCard}]
    BY <1>4, <2>3 DEF SessionTyped, SessionViews
  <2> QED
    BY <1>1, <1>2, <2>1, <2>2, <2>4 DEF SessionTyped
<1>8. CASE SwapCard \/ UNCHANGED cardVars
  BY <1>1, <1>2, <1>8 DEF SwapCard, cardVars, SessionTyped
<1> QED
  BY <1>3, <1>5, <1>6, <1>7, <1>8 DEF Next

(* JavaCards.  The value for "no package" is not one.                       *)
LEMMA JavaStart == ASSUME Java!Init PROVE Java!TypeOK
BY DEF Java!Init, Java!TypeOK, Java!Built

LEMMA JavaStep ==
    ASSUME Java!TypeOK, [Java!Next]_javaVars
    PROVE  Java!TypeOK'
<1> USE DEF Java!TypeOK, Java!Next, javaVars, Java!SwapCard, Java!LoadKeys, Java!SaveKeysToMicroSD,
        Java!SaveKeysToSeedkeeper, Java!ClearKeys, Java!LockCard, Java!UnlockCard, Java!BuildApplets,
        Java!InstallApplet, Java!RollBack, Java!ListPackages, Java!UninstallApplet, Java!keyRest,
        Java!appletRest
<1>1. cardKey' \in [Cards -> Pins \cup {DefaultKey}]
  OBVIOUS
<1>2. loadedKeys' \in Pins \cup {NoPin} /\ keyFile' \in Pins \cup {NoPin} /\ keyNote' \in Pins \cup {NoPin}
  OBVIOUS
<1>3. inReader' \in Cards \cup {NoCard}
  OBVIOUS
<1>4. packages' \in [Cards -> SUBSET Things]
  BY DEF Java!Built
<1>5. caps' \subseteq Java!Built
  BY DEF Java!Built
<1>6. picked' \in Things \cup {None}
  OBVIOUS
<1> QED
  BY <1>1, <1>2, <1>3, <1>4, <1>5, <1>6

(* The trials.  A late answer is tried again within an attempt that the     *)
(* guard let start, so that the counters pass their limits by one at most.  *)
TrialsTyped ==
    /\ TrialsInv
    /\ idx \in 0..(MaxAttempts + 1) /\ inRow \in 0..(MaxFailures + 1)
    /\ again => idx <= MaxAttempts /\ inRow <= MaxFailures
    /\ \A r \in Reasons : dropped[r] <= idx
    /\ verdict \in {"none", "pass", "warn", "fail", "abort", "timed", "failed"}
    /\ timed \in Seq(BOOLEAN) /\ Len(timed) <= BenchSize
    /\ error \in BOOLEAN /\ verified \in BOOLEAN

LEMMA AttemptsNat == TrialsAssumption => MaxAttempts \in Nat
BY DEF TrialsAssumption, MaxAttempts

LEMMA TrialsTypes == ASSUME TrialsAssumption, TrialsTyped PROVE TrialsTypeOK
<1>1. \A r \in Reasons : dropped[r] \in 0..(MaxAttempts + 1)
  BY AttemptsNat DEF TrialsTyped, TrialsInv
<1>2. dropped \in [Reasons -> 0..(MaxAttempts + 1)]
  BY <1>1 DEF TrialsTyped, TrialsInv
<1> QED
  BY <1>2 DEF TrialsTyped, TrialsInv, TrialsTypeOK

LEMMA TrialsTypedStart == ASSUME TrialsAssumption, TrialsInit PROVE TrialsTyped
<1>1. TrialsInv
  BY TrialsStart
<1>2. error \in BOOLEAN /\ verified \in BOOLEAN /\ ~again
  BY Zenon DEF TrialsInit
<1>3. timed \in Seq(BOOLEAN) /\ Len(timed) <= BenchSize
  BY EmptySeq DEF TrialsInit, TrialsAssumption
<1>4. idx \in 0..(MaxAttempts + 1) /\ inRow \in 0..(MaxFailures + 1) /\ \A r \in Reasons : dropped[r] <= idx
  BY AttemptsNat DEF TrialsInit, NoReasons, TrialsAssumption
<1>5. verdict = "none"
  BY DEF TrialsInit
<1> QED
  BY <1>1, <1>2, <1>3, <1>4, <1>5 DEF TrialsTyped

LEMMA TrialsTypedStep ==
    ASSUME TrialsAssumption, TrialsTyped, [TrialsNext]_trialVars
    PROVE  TrialsTyped'
<1>1. TrialsInv'
  BY TrialsStep DEF TrialsTyped
<1>2. MaxAttempts \in Nat /\ MaxFailures \in Nat /\ BenchSize \in Nat
  BY AttemptsNat DEF TrialsAssumption
<1>3. idx \in Nat /\ inRow \in Nat /\ dropped \in [Reasons -> Nat]
  BY <1>2 DEF TrialsTyped, TrialsInv
<1>4. CASE StartBias
  <2>1. again' = FALSE /\ idx' = 0 /\ inRow' = 0 /\ dropped' = NoReasons /\ verdict' = "none" /\ UNCHANGED benchVars
    BY <1>4, Zenon DEF StartBias
  <2>2. idx' \in 0..(MaxAttempts + 1) /\ inRow' \in 0..(MaxFailures + 1) /\ \A r \in Reasons : dropped'[r] <= idx'
    BY <1>2, <2>1 DEF NoReasons
  <2> QED
    BY <1>1, <2>1, <2>2 DEF TrialsTyped, benchVars
<1>5. CASE Drop \/ Sample
  <2>1. idx <= MaxAttempts /\ inRow <= MaxFailures
    BY <1>2, <1>3, <1>5 DEF Drop, Sample, GoesOn, TrialsTyped
  <2>2. idx' = idx + 1 /\ inRow' \in {0, inRow + 1} /\ UNCHANGED <<verdict, timed, error, verified>>
    BY <1>5 DEF Drop, Sample, benchVars
  <2>3. again' => idx' <= MaxAttempts /\ inRow' <= MaxFailures
    <3> SUFFICES ASSUME again' PROVE idx' <= MaxAttempts /\ inRow' <= MaxFailures
      OBVIOUS
    <3>1. Drop /\ GoesOn
      BY <1>5 DEF Drop, Sample
    <3> QED
      BY <1>2, <1>3, <2>2, <3>1 DEF GoesOn
  <2>4. \A r \in Reasons : dropped'[r] <= idx'
    <3>1. \A r \in Reasons : dropped'[r] \in {dropped[r], dropped[r] + 1}
      BY <1>3, <1>5 DEF Drop, Sample
    <3>2. \A r \in Reasons : dropped[r] \in Nat /\ dropped[r] <= idx
      BY <1>3 DEF TrialsTyped
    <3> QED
      BY <1>3, <2>2, <3>1, <3>2
  <2>5. idx' \in 0..(MaxAttempts + 1) /\ inRow' \in 0..(MaxFailures + 1)
    BY <1>2, <1>3, <2>1, <2>2
  <2> QED
    BY <1>1, <2>2, <2>3, <2>4, <2>5 DEF TrialsTyped
<1>6. CASE EndBias
  <2>1. verdict' \in {"pass", "warn", "fail", "abort"}
    BY <1>6 DEF EndBias, Judge
  <2>2. UNCHANGED benchVars /\ UNCHANGED biasVars
    BY <1>6 DEF EndBias
  <2> QED
    BY <1>1, <2>1, <2>2 DEF TrialsTyped, benchVars, biasVars
<1>7. CASE StartBench
  <2>1. timed' = << >> /\ verdict' = "none" /\ UNCHANGED biasVars
    BY <1>7 DEF StartBench
  <2>2. error' \in BOOLEAN /\ verified' \in BOOLEAN
    BY <1>7, Zenon DEF StartBench
  <2>3. timed' \in Seq(BOOLEAN) /\ Len(timed') <= BenchSize
    BY <1>2, <2>1, EmptySeq
  <2> QED
    BY <1>1, <2>1, <2>2, <2>3 DEF TrialsTyped, biasVars
<1>8. CASE BenchAnswer
  <2>1. PICK good \in BOOLEAN, refused \in BOOLEAN :
          /\ timed' = Append(timed, good /\ ~refused)
          /\ error' = refused
          /\ verified' = IF timed = << >> /\ ~refused THEN good ELSE verified
    BY <1>8 DEF BenchAnswer
  <2>2. (good /\ ~refused) \in BOOLEAN
    BY Zenon
  <2>3. Len(timed) \in Nat /\ Len(timed) < BenchSize /\ timed \in Seq(BOOLEAN)
    BY <1>8, LenProperties DEF BenchAnswer, TrialsTyped
  <2>4. timed' \in Seq(BOOLEAN) /\ Len(timed') = Len(timed) + 1
    BY <2>1, <2>2, <2>3, AppendProperties
  <2>5. Len(timed') <= BenchSize
    BY <1>2, <2>3, <2>4
  <2>6. error' \in BOOLEAN
    BY <2>1, Zenon
  <2>7. verified' \in BOOLEAN
    BY <2>1 DEF TrialsTyped
  <2>8. UNCHANGED verdict /\ UNCHANGED biasVars
    BY <1>8 DEF BenchAnswer
  <2> QED
    BY <1>1, <2>4, <2>5, <2>6, <2>7, <2>8 DEF TrialsTyped, biasVars
<1>9. CASE BenchFails
  <2>1. error' \in BOOLEAN
    BY <1>9, Zenon DEF BenchFails
  <2>2. UNCHANGED <<verdict, timed, verified>> /\ UNCHANGED biasVars
    BY <1>9 DEF BenchFails
  <2> QED
    BY <1>1, <2>1, <2>2 DEF TrialsTyped, biasVars
<1>10. CASE EndBench
  <2>1. verdict' \in {"timed", "failed"} /\ UNCHANGED benchVars /\ UNCHANGED biasVars
    BY <1>10 DEF EndBench
  <2> QED
    BY <1>1, <2>1 DEF TrialsTyped, benchVars, biasVars
<1>11. CASE UNCHANGED trialVars
  BY <1>1, <1>11 DEF TrialsTyped, trialVars
<1> QED
  BY <1>4, <1>5, <1>6, <1>7, <1>8, <1>9, <1>10, <1>11 DEF TrialsNext

-----------------------------------------------------------------------------
(* All of the parts *)

CardsAssumption ==
    /\ SessionAssumption /\ KeysAssumption /\ TrialsAssumption
    /\ NoDime \notin SlotDimes /\ NoSigner \notin Signers

CardsInv ==
    /\ SessionTyped /\ KeysInv /\ SlotsInv /\ KeeperTyped
    /\ HoldersInv /\ SpecterTypeOK /\ Java!TypeOK /\ TrialsTyped

(* One part moves, or none, and each keeps what holds of it.                *)
LEMMA PartMoves ==
    CardsNext \/ UNCHANGED allVars
      => /\ [Next]_cardVars /\ [KeysNext]_keyVars /\ [SlotsNext]_slotVars
         /\ [KeeperNext]_keeperVars /\ [HoldersNext]_signerVars
         /\ [SpecterNext]_specterVars /\ [Java!Next]_javaVars /\ [TrialsNext]_trialVars
<1> USE DEF rest
<1>1. CASE part = "session" /\ Next /\ rest("session")
  BY <1>1
<1>2. CASE part = "claims" /\ KeysNext /\ rest("claims")
  BY <1>2
<1>3. CASE part = "slots" /\ SlotsNext /\ rest("slots")
  BY <1>3
<1>4. CASE part = "keeper" /\ KeeperNext /\ rest("keeper")
  BY <1>4
<1>5. CASE part = "signer" /\ HoldersNext /\ rest("signer")
  BY <1>5
<1>6. CASE part = "specter" /\ SpecterNext /\ rest("specter")
  BY <1>6
<1>7. CASE part = "java" /\ Java!Next /\ rest("java")
  BY <1>7
<1>8. CASE part = "trials" /\ TrialsNext /\ rest("trials")
  BY <1>8
<1>9. CASE UNCHANGED allVars
  BY <1>9 DEF allVars
<1> QED
  BY <1>1, <1>2, <1>3, <1>4, <1>5, <1>6, <1>7, <1>8, <1>9 DEF CardsNext

(* The variables of every part keep their types, for any cards, PINs, keys, *)
(* descriptors and limits: what a card's secrets are put together to is a   *)
(* descriptor or the keys of one, no attempt counter passes its limit by    *)
(* more than one, and no view waits for a card the session does not know.   *)
THEOREM CardsAreTyped == CardsAssumption => (CardsSpec => []TypesOK)
<1> SUFFICES ASSUME CardsAssumption PROVE CardsSpec => []TypesOK
  OBVIOUS
<1> USE DEF CardsAssumption
<1>1. CardsInit => CardsInv
  BY SessionStart, InitKeys, SlotsStart, KeeperTypedStart, HoldersStart, SpecterStart, JavaStart,
     TrialsTypedStart
  DEF CardsInit, CardsInv
<1>2. CardsInv /\ [CardsNext]_allVars => CardsInv'
  BY PartMoves, SessionStep, NextKeys, SlotsStep, KeeperTypedStep, HoldersStep, SpecterStep, JavaStep,
     TrialsTypedStep
  DEF CardsInv
<1>3. CardsInv => TypesOK
  BY SessionTypes, KeeperTypes, TrialsTypes DEF CardsInv, TypesOK, KeysInv, SlotsInv, HoldersInv
<1> QED
  BY <1>1, <1>2, <1>3, PTL DEF CardsSpec
=============================================================================
