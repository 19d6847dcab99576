---------------------------- MODULE SatodimeKeys ----------------------------
(***************************************************************************)
(* Ownership of Satodime cards: claiming and releasing a card, backing its *)
(* ownership key up and restoring it.  A card emits its key once, when it  *)
(* is claimed; a contactless reader needs it for every later change.  The  *)
(* controller keeps the keys for the session, by card id.                  *)
(*                                                                         *)
(* Each view connects anew, so each action takes the card c that happens   *)
(* to lie on the reader and the id the reader makes of it, which is NoId   *)
(* when the reader does not serve the data the id is made of.  Nicknames   *)
(* are a second way to a key: which keys have one is left open, as is      *)
(* whether the label on a card without an id agrees with a backup's.       *)
(***************************************************************************)
EXTENDS Integers, Sequences

CONSTANTS Dimes,     \* the Satodimes
          MaxClaims  \* bound on ownership keys ever minted

CONSTANT NoId

VARIABLES nfc,       \* whether the reader is contactless
          ownerKey,  \* each card's ownership key, 0 while it is unclaimed
          minted,    \* the card each ownership key was minted on
          unlockSecrets,   \* controller.Satodime_unlock_secrets, 0 for no entry
          sdFile,    \* the key in the MicroSD backup file of each id, 0 for none
          photos,    \* the backup QR codes the user has photographed
          backup,    \* the backup view on screen, if any
          forced     \* history: a key was loaded although it did not match

keyVars == <<nfc, ownerKey, minted, unlockSecrets, sdFile, photos, backup, forced>>

Keys == 1..MaxClaims
Ids == Dimes \cup {NoId}
NoBackup == [id |-> NoId, key |-> 0, done |-> FALSE]

KeysTypeOK ==
    /\ nfc \in BOOLEAN
    /\ ownerKey \in [Dimes -> 0..MaxClaims]
    /\ minted \in Seq(Dimes) /\ Len(minted) <= MaxClaims
    /\ unlockSecrets \in [Ids -> 0..MaxClaims]
    /\ sdFile \in [Dimes -> 0..MaxClaims]
    /\ photos \subseteq [id : Dimes, key : Keys]
    /\ backup \in [id : Ids, key : 0..MaxClaims, done : BOOLEAN]
    /\ forced \in BOOLEAN

KeysInit ==
    /\ nfc \in BOOLEAN
    /\ ownerKey = [c \in Dimes |-> 0]
    /\ minted = << >>
    /\ unlockSecrets = [i \in Ids |-> 0]
    /\ sdFile = [i \in Dimes |-> 0]
    /\ photos = {} /\ backup = NoBackup
    /\ forced = FALSE

\* No backup view is open: the user may start any other view.
NoneOpen == backup = NoBackup

\* Whether the card lets a state-changing command through: it must have been
\* claimed, and a contactless reader must have sent its current key.
Gate(c, id) == ownerKey[c] # 0 /\ (nfc => unlockSecrets[id] = ownerKey[c])

\* Releasing the card to its next owner.
TransferOwnership(c, id) ==
    /\ NoneOpen /\ Gate(c, id)
    /\ ownerKey' = [ownerKey EXCEPT ![c] = 0]
    /\ UNCHANGED <<nfc, minted, unlockSecrets, sdFile, photos, backup, forced>>

\* Claiming: an owned card is first released, which is gated; a failure after
\* that leaves it as TransferOwnership does.  The key is cached under the id
\* just read, and the backup view finds it there unless that is NoId.
Claim(c, id) ==
    /\ NoneOpen /\ Len(minted) < MaxClaims
    /\ ownerKey[c] = 0 \/ Gate(c, id)
    /\ LET k == Len(minted) + 1
       IN /\ ownerKey' = [ownerKey EXCEPT ![c] = k]
          /\ minted' = Append(minted, c)
          /\ unlockSecrets' = [unlockSecrets EXCEPT ![id] = k]
          /\ backup' = IF id = NoId THEN NoBackup
                       ELSE [id |-> id, key |-> k, done |-> FALSE]
    /\ UNCHANGED <<nfc, sdFile, photos, forced>>

\* Showing the key of a card claimed earlier once more, by its id or, when the
\* reader makes none, by a nickname, which finds a key only while that very key
\* is cached under the id it was named with.
Reshow(id) ==
    /\ NoneOpen
    /\ \E i \in IF id # NoId THEN {id} ELSE Dimes :
         /\ unlockSecrets[i] # 0
         /\ backup' = [id |-> i, key |-> unlockSecrets[i], done |-> FALSE]
    /\ UNCHANGED <<nfc, ownerKey, minted, unlockSecrets, sdFile, photos, forced>>

\* Saving the payload on the MicroSD.
SaveToMicroSD ==
    /\ backup.key # 0 /\ ~backup.done
    /\ sdFile' = [sdFile EXCEPT ![backup.id] = backup.key]
    /\ UNCHANGED <<nfc, ownerKey, minted, unlockSecrets, photos, backup, forced>>

\* Showing the QR code and reading the user's copy of it back.
VerifyQR ==
    /\ backup.key # 0 /\ ~backup.done
    /\ photos' = photos \cup {[id |-> backup.id, key |-> backup.key]}
    /\ backup' = [backup EXCEPT !.done = TRUE]
    /\ UNCHANGED <<nfc, ownerKey, minted, unlockSecrets, sdFile, forced>>

\* Mutant: a backup file of an earlier claim of the same card counts as well.
AnyFileMatches == sdFile[backup.id] # 0

\* Whether the file for this id on the MicroSD holds this very key.
FileMatches == sdFile[backup.id] = backup.key

\* The exit button is Finalise Claim or Done while a matching file is there.
Finalise ==
    /\ backup.key # 0 /\ ~backup.done /\ FileMatches
    /\ backup' = [backup EXCEPT !.done = TRUE]
    /\ UNCHANGED <<nfc, ownerKey, minted, unlockSecrets, sdFile, photos, forced>>

\* Leaving the view: after success, or by the skip that asks once more.
LeaveBackup ==
    /\ backup.key # 0
    /\ backup.done \/ ~FileMatches
    /\ backup' = NoBackup
    /\ UNCHANGED <<nfc, ownerKey, minted, unlockSecrets, sdFile, photos, forced>>

\* The backups the restore view can read: the file that is named after the id,
\* and any photograph.
Readable(id) ==
    photos \cup {[id |-> i, key |-> sdFile[i]] : i \in {j \in Dimes \cap {id} : sdFile[j] # 0}}

\* Mutant: a backup is taken for the card's as soon as the card has an id.
RecognisedAnyhow(id, p) == id # NoId

\* A backup is recognised when it carries the id that was read.
Recognised(id, p) == p.id = id

\* Restoring a key.  What is not recognised can be loaded anyway.
Restore(id) ==
    /\ NoneOpen
    /\ \E p \in Readable(id) :
         /\ unlockSecrets' = [unlockSecrets EXCEPT ![id] = p.key]
         /\ forced' = (forced \/ ~Recognised(id, p))
    /\ UNCHANGED <<nfc, ownerKey, minted, sdFile, photos, backup>>

\* The Home screen drops the keys, unless the setting keeps them.
ForgetKeys ==
    /\ NoneOpen
    /\ unlockSecrets' = [i \in Ids |-> 0]
    /\ UNCHANGED <<nfc, ownerKey, minted, sdFile, photos, backup, forced>>

KeysNext ==
    \/ \E c \in Dimes : \E id \in {c, NoId} : Claim(c, id) \/ TransferOwnership(c, id)
    \/ \E id \in Ids : Reshow(id) \/ Restore(id)
    \/ SaveToMicroSD \/ VerifyQR \/ Finalise \/ LeaveBackup \/ ForgetKeys

KeysSpec == KeysInit /\ [][KeysNext]_keyVars

----------------------------------------------------------------------------
(* Properties *)

\* The backup view reports success only when a copy of this very key exists on
\* the MicroSD or in a photograph that was read back.  The card never emits its
\* key again, so a stale copy taken for a good one strands the card.
DoneMeansBackedUp ==
    backup.done => [id |-> backup.id, key |-> backup.key] \in photos
                   \/ sdFile[backup.id] = backup.key

\* The key the session holds for an identified card was minted on that card,
\* as long as no key was loaded against the warning: through claims, releases,
\* backups and restores the pairing of card and key is kept.
KeysBelongToCards ==
    ~forced => \A c \in Dimes : unlockSecrets[c] # 0 => minted[unlockSecrets[c]] = c

\* A key that a claim has minted comes to the backup view: naming the key there
\* is what keeps a backup without a card id restorable.
ClaimLeadsToBackup == [][minted' # minted => backup'.key = Len(minted')]_keyVars
=============================================================================
