------------------------------ MODULE GpgKeys ------------------------------
(***************************************************************************)
(* The keyring and BIP85_DATA, the record of how its keys were derived     *)
(* (gpg_views.py).  The record is what a key is rebuilt from after a power *)
(* cycle: it has to say of every subkey where in the derivation it is.     *)
(*                                                                         *)
(* A key that was derived is the record of its derivation, as the same     *)
(* derivation gives the same fingerprint; so is a subkey.  Any other key   *)
(* is one of OtherKeys.  gpg is external: a command that fails changes     *)
(* nothing.                                                                *)
(***************************************************************************)
EXTENDS Naturals, Sequences, FiniteSets, SequencesExt

CONSTANTS
    GpgSeeds, OtherKeys, Uids,
    None,               \* no seed (a random key), no uid
    KeyIndexes,         \* the indexes a user enters
    KeyTypes,           \* curves and RSA sizes
    ListedTypes,        \* those in algo_map and curve_map of the view that rebuilds
    GpgVersions,        \* the derivation schemes of SETTING__BIP85_GPG_VERSION
    ThisVersion,        \* the one this release is recorded to use
    MaxKeys, MaxSubkeys,\* bounds: keys in the keyring and on record, subkeys and uids of one
    MaxChanges          \* of them, changes of subkeys and uids

ASSUME IndexesAreNumbers == KeyIndexes \subseteq Nat

VARIABLES
    gpgVersion, \* SETTING__BIP85_GPG_VERSION
    keySeeds,   \* the seeds in storage
    keyring,    \* the keyring: subs and uids of every key, the primary uid first
    bip85Data,  \* BIP85_DATA
    savedData,  \* the entries in the files on the microSD card
    keyChanges  \* the changes of subkeys and uids so far

ringVars == <<gpgVersion, keySeeds, keyring, bip85Data, savedData, keyChanges>>

DerivedKey(s, v, ty, path) == [seed |-> s, version |-> v, type |-> ty, path |-> path]
Primaries == {DerivedKey(s, v, ty, <<i>>) : s \in GpgSeeds, v \in GpgVersions, ty \in KeyTypes, i \in KeyIndexes}
Random(n) == DerivedKey(None, ThisVersion, None, <<n>>)
Trio == 0..2                            \* the three subkeys of a set, by sub_index

WithKey(f, x, e) == [y \in DOMAIN f \cup {x} |-> IF y = x THEN e ELSE f[y]]

(* bip85_verify_existing: the primary key and the numbered subkeys are      *)
(* those that the seed leads to, with subkey g in the set g // 3, whatever  *)
(* the index of the key.                                                    *)
VerifiedAt(s, v, ty, g) == DerivedKey(s, v, ty, <<g \div 3, g % 3>>)

Verifies(p, s, v, ty, i, numbered) ==
    /\ p = DerivedKey(s, v, ty, <<i>>)
    /\ \A sk \in numbered : sk.key = VerifiedAt(s, v, sk.key.type, sk.index)

RingInit ==
    /\ gpgVersion \in GpgVersions /\ keySeeds = {} /\ keyring = <<>> /\ bip85Data = <<>> /\ savedData = <<>>
    /\ keyChanges = 0

-----------------------------------------------------------------------------
(* The derived subkeys one after the other. *)
InOrder(derived) ==
    LET Number(k) == 3 * k.path[1] + k.path[2]
        Rank(k) == Cardinality({m \in derived : Number(m) <= Number(k)})
    IN  [n \in 1..Cardinality(derived) |-> CHOOSE k \in derived : Rank(k) = n]

(* ToolsGPGLoadBIP85KeyView.  The scheme is that of the settings, the one   *)
(* on record that of the release.  gpg merges what it has of the key.  What *)
(* was on record of the key is replaced.                                    *)
LoadBIP85Key(s, ty, i, u) ==
    LET p == DerivedKey(s, gpgVersion, ty, <<i>>)
        Sub(t) == DerivedKey(s, gpgVersion, ty, <<i, t>>)
        old == IF p \in DOMAIN keyring THEN keyring[p] ELSE [subs |-> <<>>, uids |-> <<>>]
        missing == {Sub(t) : t \in Trio} \ Range(old.subs)
    IN  /\ s \in keySeeds
        /\ p \in DOMAIN keyring \/ Cardinality(DOMAIN keyring) < MaxKeys
        /\ Cardinality({p} \cup DOMAIN bip85Data \cup DOMAIN savedData) <= MaxKeys
        /\ Len(old.subs) + Cardinality(missing) <= MaxSubkeys
        /\ keyring' = WithKey(keyring, p,
               [subs |-> old.subs \o InOrder(missing),
                uids |-> IF u \in Range(old.uids) THEN old.uids ELSE Append(old.uids, u)])
        /\ bip85Data' = WithKey(bip85Data, p,
               [seed |-> s, type |-> ty, index |-> i, version |-> ThisVersion, uids |-> <<u>>, primary |-> u,
                subs |-> {[index |-> t, key |-> Sub(t)] : t \in Trio}])
        /\ UNCHANGED <<gpgVersion, keySeeds, savedData, keyChanges>>

(* ToolsGPGGenerateKeyView, and the views that import a private key.        *)
GenerateKey(o, u) ==
    /\ o \notin DOMAIN keyring /\ Cardinality(DOMAIN keyring) < MaxKeys
    /\ keyring' = WithKey(keyring, o, [subs |-> [n \in 1..3 |-> Random(n)], uids |-> <<u>>])
    /\ UNCHANGED <<gpgVersion, keySeeds, bip85Data, savedData, keyChanges>>

(* Three new random subkeys. *)
FreshSubkeys(p) ==
    LET free == {n \in 1..(MaxSubkeys + 3) : Random(n) \notin Range(keyring[p].subs)}
    IN  [n \in 1..3 |-> Random(CHOOSE k \in free : Cardinality({m \in free : m <= k}) = n)]

ChangeKey == keyChanges < MaxChanges /\ keyChanges' = keyChanges + 1

(* Mutant: every set is derived as the first one is.                        *)
NewSubkeysAtIndex(e, ty, start) ==
    {[index |-> start + t, key |-> DerivedKey(e.seed, e.version, ty, <<e.index, (start % 3) + t>>)] : t \in Trio}

(* bip85_add_subkeys: the new set is derived from the number of subkeys     *)
(* that the key has in the keyring.                                         *)
NewSubkeys(e, ty, start) ==
    {[index |-> start + t, key |-> DerivedKey(e.seed, e.version, ty, <<e.index + start \div 3, (start % 3) + t>>)] :
        t \in Trio}

(* ToolsGPGAddSubkeysView.  Of a key on record the seed has to be loaded    *)
(* and the subkeys in the keyring have to be the ones of the scheme on      *)
(* record (a smaller index is tried, but it is that of another key).        *)
AddSubkeys(p, ty) ==
    /\ ChangeKey
    /\ p \in DOMAIN keyring /\ Len(keyring[p].subs) + 3 <= MaxSubkeys
    /\ LET start == Len(keyring[p].subs)
           listed == {[index |-> j - 1, key |-> keyring[p].subs[j]] : j \in 1..start}
       IN  IF p \in DOMAIN bip85Data
           THEN LET e == bip85Data[p]
                    new == NewSubkeys(e, ty, start)
                    missing == {sk.key : sk \in new} \ Range(keyring[p].subs)
                IN  /\ e.seed \in keySeeds
                    /\ Verifies(p, e.seed, e.version, p.type, e.index, listed)
                    /\ keyring' = [keyring EXCEPT ![p].subs = @ \o InOrder(missing)]
                    /\ bip85Data' = [bip85Data EXCEPT ![p].subs = @ \cup new]
           ELSE keyring' = [keyring EXCEPT ![p].subs = @ \o FreshSubkeys(p)] /\ UNCHANGED bip85Data
    /\ UNCHANGED <<gpgVersion, keySeeds, savedData>>

(* ToolsGPGDeleteSubkeysView.  filter_deletable_subkeys: of a key on record *)
(* only the last one.                                                       *)
Deletable(p) == IF p \in DOMAIN bip85Data THEN {Len(keyring[p].subs)} ELSE DOMAIN keyring[p].subs

DeleteSubkey(p, j) ==
    /\ ChangeKey
    /\ p \in DOMAIN keyring /\ keyring[p].subs # <<>> /\ j \in Deletable(p)
    /\ bip85Data' = IF p \in DOMAIN bip85Data
                    THEN [bip85Data EXCEPT ![p].subs = {sk \in @ : sk.key # keyring[p].subs[j]}]
                    ELSE bip85Data
    /\ keyring' = [keyring EXCEPT ![p].subs = RemoveAt(@, j)]
    /\ UNCHANGED <<gpgVersion, keySeeds, savedData>>

-----------------------------------------------------------------------------
PutFirst(uids, u) == <<u>> \o SelectSeq(uids, LAMBDA x : x # u)

(* ToolsGPGAddUidView: the primary uid is set again afterwards.             *)
AddUid(p, u) ==
    /\ ChangeKey
    /\ p \in DOMAIN keyring /\ u \notin Range(keyring[p].uids)
    /\ p \in DOMAIN bip85Data => Len(bip85Data[p].uids) < MaxSubkeys
    /\ keyring' = [keyring EXCEPT ![p].uids = Append(@, u)]
    /\ bip85Data' = IF p \in DOMAIN bip85Data THEN [bip85Data EXCEPT ![p].uids = Append(@, u)] ELSE bip85Data
    /\ UNCHANGED <<gpgVersion, keySeeds, savedData>>

(* ToolsGPGEditUidView: the new uid is made the primary one, the old one    *)
(* revoked (which leaves it in the lists); nothing of it is recorded.       *)
EditUid(p, u) ==
    /\ ChangeKey
    /\ p \in DOMAIN keyring /\ u \notin Range(keyring[p].uids)
    /\ keyring' = [keyring EXCEPT ![p].uids = PutFirst(@, u)]
    /\ UNCHANGED <<gpgVersion, keySeeds, bip85Data, savedData>>

(* ToolsGPGSetPrimaryUidView. *)
SetPrimaryUid(p, u) ==
    /\ ChangeKey
    /\ p \in DOMAIN keyring /\ u \in Range(keyring[p].uids)
    /\ keyring' = [keyring EXCEPT ![p].uids = PutFirst(@, u)]
    /\ bip85Data' = IF p \in DOMAIN bip85Data
                    THEN [bip85Data EXCEPT ![p].primary = u,
                                           ![p].uids = IF u \in Range(@) THEN PutFirst(@, u) ELSE @]
                    ELSE bip85Data
    /\ UNCHANGED <<gpgVersion, keySeeds, savedData>>

(* ToolsGPGDeleteUidView; gpg keeps the last uid. *)
DeleteUid(p, u) ==
    /\ ChangeKey
    /\ p \in DOMAIN keyring /\ u \in Range(keyring[p].uids) /\ Len(keyring[p].uids) > 1
    /\ keyring' = [keyring EXCEPT ![p].uids = SelectSeq(@, LAMBDA x : x # u)]
    /\ bip85Data' = IF p \in DOMAIN bip85Data
                    THEN LET rest == SelectSeq(bip85Data[p].uids, LAMBDA x : x # u)
                         IN [bip85Data EXCEPT ![p].uids = rest,
                                              ![p].primary = IF @ # u THEN @
                                                             ELSE IF rest = <<>> THEN None ELSE rest[1]]
                    ELSE bip85Data
    /\ UNCHANGED <<gpgVersion, keySeeds, savedData>>

-----------------------------------------------------------------------------
(* ToolsGPGSaveBip85DataView, bip85_save_data: a file of every entry; the  *)
(* other files stay.                                                        *)
SaveData ==
    /\ savedData' = [p \in DOMAIN savedData \cup DOMAIN bip85Data |->
                        IF p \in DOMAIN bip85Data THEN bip85Data[p] ELSE savedData[p]]
    /\ UNCHANGED <<gpgVersion, keySeeds, keyring, bip85Data, keyChanges>>

(* bip85_import_json: the primary uid of an entry is put first.             *)
PrimaryFirst(e) ==
    IF e.primary \in Range(e.uids) THEN [e EXCEPT !.uids = PutFirst(@, e.primary)] ELSE e

(* ToolsGPGLoadBip85DataView, bip85_load_data: the entries of all files     *)
(* take the place of what was on record, be there any or not.               *)
LoadData ==
    /\ bip85Data' = [p \in DOMAIN savedData |-> PrimaryFirst(savedData[p])]
    /\ UNCHANGED <<gpgVersion, keySeeds, keyring, savedData, keyChanges>>

(* ToolsGPGRebuildBip85KeyView: the subkeys on record are verified against  *)
(* the seed by their numbers.  A type that is not listed ends in an error,  *)
(* or in a curve that cannot be verified.                                   *)
Rebuildable(e, p) ==
    /\ e.uids # <<>>
    /\ {e.type} \cup {sk.key.type : sk \in e.subs} \subseteq ListedTypes
    /\ Verifies(p, e.seed, e.version, e.type, e.index, e.subs)

(* They are derived again by numbers of their own, and imported.            *)
RebuiltAt(s, v, ty, g) == DerivedKey(s, v, ty, <<g \div 3, g % 3>>)
RebuiltSubkeys(e) == {RebuiltAt(e.seed, e.version, sk.key.type, sk.index) : sk \in e.subs}

Rebuild(p) ==
    /\ p \in DOMAIN bip85Data /\ bip85Data[p].seed \in keySeeds
    /\ LET e == bip85Data[p]
           old == IF p \in DOMAIN keyring THEN keyring[p] ELSE [subs |-> <<>>, uids |-> <<>>]
           subs == old.subs \o InOrder(RebuiltSubkeys(e) \ Range(old.subs))
           NewUids == Range(e.uids) \ Range(old.uids)
       IN  /\ Rebuildable(e, p)
           /\ Len(subs) <= MaxSubkeys
           /\ p \in DOMAIN keyring \/ Cardinality(DOMAIN keyring) < MaxKeys
           /\ keyring' = WithKey(keyring, p, [subs |-> subs, uids |-> old.uids \o SetToSeq(NewUids)])
    /\ UNCHANGED <<gpgVersion, keySeeds, bip85Data, savedData, keyChanges>>

(* Outside of these views: a seed is loaded, the scheme is chosen in the    *)
(* settings, the device is switched off, which leaves the files only.       *)
LoadGpgSeed(s) == keySeeds' = keySeeds \cup {s} /\ UNCHANGED <<gpgVersion, keyring, bip85Data, savedData, keyChanges>>

ChooseVersion(v) == gpgVersion' = v /\ UNCHANGED <<keySeeds, keyring, bip85Data, savedData, keyChanges>>

PowerCycle ==
    /\ keySeeds' = {} /\ keyring' = <<>> /\ bip85Data' = <<>>
    /\ UNCHANGED <<gpgVersion, savedData, keyChanges>>

RingNext ==
    \/ \E s \in GpgSeeds, ty \in KeyTypes, i \in KeyIndexes, u \in Uids : LoadBIP85Key(s, ty, i, u)
    \/ \E o \in OtherKeys, u \in Uids : GenerateKey(o, u)
    \/ \E p \in DOMAIN keyring, ty \in KeyTypes : AddSubkeys(p, ty)
    \/ \E p \in DOMAIN keyring : \E j \in DOMAIN keyring[p].subs : DeleteSubkey(p, j)
    \/ \E p \in DOMAIN keyring, u \in Uids :
           AddUid(p, u) \/ EditUid(p, u) \/ SetPrimaryUid(p, u) \/ DeleteUid(p, u)
    \/ SaveData
    \/ LoadData
    \/ \E p \in DOMAIN bip85Data : Rebuild(p)
    \/ \E s \in GpgSeeds : LoadGpgSeed(s)
    \/ \E v \in GpgVersions : ChooseVersion(v)
    \/ PowerCycle

RingSpec == RingInit /\ [][RingNext]_ringVars

-----------------------------------------------------------------------------
RingTypeOK ==
    /\ gpgVersion \in GpgVersions /\ keySeeds \subseteq GpgSeeds
    /\ DOMAIN keyring \subseteq Primaries \cup OtherKeys
    /\ \A p \in DOMAIN keyring : /\ keyring[p].uids \in Seq(Uids) /\ IsInjective(keyring[p].uids)
                              /\ keyring[p].uids # <<>>
                              /\ IsInjective(keyring[p].subs)
    /\ DOMAIN bip85Data \cup DOMAIN savedData \subseteq Primaries

(* Which keys can be rebuilt, as three views number the subkeys on their    *)
(* own, the one that adds a set from the index of the key and the length of *)
(* the list, the two of rebuilding from the number on record: those loaded  *)
(* at index 0 under the scheme on record, when no set was added behind one  *)
(* that was not whole, and all types are listed; and these get every subkey *)
(* on record back.                                                          *)
RebuildsNumberedAlike ==
    \A p \in DOMAIN bip85Data :
        LET e == bip85Data[p]
        IN  /\ Rebuildable(e, p) <=>
                   /\ e.uids # <<>> /\ e.version = p.version
                   /\ {e.type} \cup {sk.key.type : sk \in e.subs} \subseteq ListedTypes
                   /\ \A sk \in e.subs : e.index = 0 /\ sk.key.path[2] \in Trio
            /\ Rebuildable(e, p) => RebuiltSubkeys(e) = {sk.key : sk \in e.subs}
=============================================================================
