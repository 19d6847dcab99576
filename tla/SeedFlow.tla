------------------------------ MODULE SeedFlow ------------------------------
(***************************************************************************)
(* Loading, finalizing and discarding seeds: SeedStorage together with the *)
(* views that call it, and the auto-wipe, which runs in a thread of its    *)
(* own while a view waits for the user.                                    *)
(*                                                                         *)
(* One action is the answer to one screen: what the view does from there   *)
(* until the next view shows its screen, the main loop in between included *)
(* (Navigation.tla).  A Seed is an object with an identity, because        *)
(* storage, views and destinations share and mutate the same objects: heap *)
(* holds what each of them contains.                                       *)
(***************************************************************************)
EXTENDS Naturals, Sequences

CONSTANTS
    Objects,        \* Seed objects that may be in memory at the same time
    NoSeed,         \* None
    Keys,           \* what a valid mnemonic stands for
    LockedKeys,     \* ... those of an Aezeed that needs a passphrase
    NoKey,          \* what a wiped Seed contains
    TypedKinds,     \* the kinds of mnemonic that are typed in
    NumWords,       \* words of a mnemonic
    MaxWipes        \* bound: auto-wipes in a behaviour

ASSUME SeedFlowAssumption ==
    /\ NoSeed \notin Objects
    /\ NoKey \notin Keys /\ LockedKeys \subseteq Keys
    /\ TypedKinds \subseteq {"bip39", "electrum", "aezeed"}
    /\ NumWords \in Nat /\ NumWords > 1
    /\ MaxWipes \in Nat

VARIABLES
    cur, hist,      \* Navigation: the destination on screen, the history
    held,           \* self.seed of the view on screen
    listed,         \* the entries the seeds menu on screen shows
    heap,           \* contents of the Seed objects
    seeds,          \* SeedStorage.seeds
    pending,        \* SeedStorage.pending_seed
    mnemonic,       \* SeedStorage._pending_mnemonic
    kind,           \* _pending_is_electrum, _pending_is_aezeed
    wipes           \* auto-wipes so far

screen == <<cur, hist, held, listed>>
storage == <<heap, seeds, pending>>
words == <<mnemonic, kind>>
vars == <<screen, storage, words, wipes>>

-----------------------------------------------------------------------------
(* Destinations: a view and its arguments.  The word entry from "Review &  *)
(* edit" passes an index where the one that starts the entry passes none,  *)
(* so the two are different destinations for the same screen.              *)
Plain(v) == [view |-> v, word |-> 0, calc |-> FALSE, edit |-> FALSE, coin |-> FALSE, seed |-> NoSeed]

Entry(i, calc) == [Plain("SeedMnemonicEntryView") EXCEPT !.word = i, !.calc = calc]
EditWords == [Plain("SeedMnemonicEntryView") EXCEPT !.edit = TRUE]
ShowFinalWord(coin) == [Plain("ToolsCalcFinalWordShowFinalWordView") EXCEPT !.coin = coin]
OfSeed(v, s) == [Plain(v) EXCEPT !.seed = s]

Home == Plain("MainMenuView")
Error == Plain("UnhandledExceptionView")

CalcViews ==
    {"ToolsCalcFinalWordFinalizePromptView", "ToolsCalcFinalWordCoinFlipsView",
     "ToolsCalcFinalWordShowFinalWordView", "ToolsCalcFinalWordDoneView"}
PassphraseViews ==
    {"SeedAezeedPassphraseModeView", "SeedAddPassphraseView", "SeedScanPassphraseView",
     "SeedAddPassphraseExitDialogView", "SeedReviewPassphraseView"}
PlainViews ==
    {"MainMenuView", "UnhandledExceptionView", "SeedsMenuView", "LoadSeedView",
     "SeedElectrumMnemonicStartView", "SeedAezeedMnemonicStartView", "ToolsMenuView",
     "SeedMnemonicInvalidView", "ToolsCalcFinalWordNumWordsView", "SeedFinalizeView",
     "SeedDiscardView"} \cup (CalcViews \ {"ToolsCalcFinalWordShowFinalWordView"})
    \cup PassphraseViews

Destinations ==
    {Plain(v) : v \in PlainViews}
    \cup {Entry(i, calc) : i \in 0..(NumWords - 1), calc \in BOOLEAN} \cup {EditWords}
    \cup {ShowFinalWord(coin) : coin \in BOOLEAN}
    \cup {OfSeed(v, s) : v \in {"SeedOptionsView", "SeedDiscardView"}, s \in Objects \cup {NoSeed}}

Nav == INSTANCE Navigation WITH Views <- Destinations \ {Home}, MainMenu <- Home, StartupViews <- {}

-----------------------------------------------------------------------------
(* Seed objects. *)
Passphrases == {"right", "other"}       \* "" is no passphrase
Contents == [kind : {"bip39", "electrum", "aezeed"}, key : Keys \cup {NoKey},
             pass : Passphrases \cup {""}]
Wiped(c) == [c EXCEPT !.key = NoKey, !.pass = ""]

(* seed_bytes is set: the Seed was not wiped and is decrypted. *)
HasBytes(c) == c.key # NoKey /\ (c.key \in LockedKeys => c.pass # "")
Usable(o) == o # NoSeed /\ HasBytes(heap[o])

(* `a == b` of list.__contains__ and list.remove: identity, or equal bytes. *)
SameIn(h, a, b) ==
    \/ a = b
    \/ NoSeed \notin {a, b} /\ IF HasBytes(h[a]) THEN h[a] = h[b] ELSE ~HasBytes(h[b])

Stored == {seeds[i] : i \in DOMAIN seeds}
Live == (Stored \cup {pending, held, cur.seed} \cup {hist[i].seed : i \in DOMAIN hist}) \ {NoSeed}

-----------------------------------------------------------------------------
(* Showing the next view: its constructor and run() up to the screen.      *)
PendingViews == PassphraseViews \cup {"SeedFinalizeView"}

HeldBy(d) ==
    IF d.view \in PendingViews \/ d = Plain("SeedDiscardView") THEN pending' ELSE d.seed

UsableNext(o) == o # NoSeed /\ HasBytes(heap'[o])

(* The fingerprint (or passphrase) a view displays can be had.  A locked   *)
(* Aezeed has no fingerprint, but its passphrase can be edited.            *)
CanShow(d) ==
    CASE d.view = "SeedsMenuView" -> \A i \in DOMAIN seeds' : UsableNext(seeds'[i])
      [] d.view \in {"SeedAddPassphraseView", "SeedAddPassphraseExitDialogView"} ->
            HeldBy(d) # NoSeed
      [] d.view \in {"SeedFinalizeView", "SeedReviewPassphraseView", "SeedOptionsView",
                     "SeedDiscardView"} -> UsableNext(HeldBy(d))
      [] OTHER -> TRUE

Show(d, navigate) ==
    IF CanShow(d)
    THEN /\ navigate
         /\ held' = HeldBy(d)
         /\ listed' = IF d.view = "SeedsMenuView" THEN Len(seeds') ELSE 0
    ELSE Nav!Visit(Error, FALSE, TRUE) /\ held' = NoSeed /\ listed' = 0

Goto(d) == Show(d, Nav!Visit(d, FALSE, FALSE))
Forward(d) == Show(d, Nav!Visit(d, TRUE, FALSE))        \* skip_current_view
Restart(d) == Show(d, Nav!Visit(d, FALSE, TRUE))        \* clear_history
Back == Show(IF Len(hist) < 2 THEN Home ELSE hist[Len(hist) - 1], Nav!GoBack(FALSE))
Fail == Restart(Error)

At(v) == cur.view = v /\ UNCHANGED wipes

KeepsStorage == UNCHANGED storage
KeepsWords == UNCHANGED words
KeepsAll == KeepsStorage /\ KeepsWords

-----------------------------------------------------------------------------
(* SeedStorage: the pending mnemonic. *)
NoWord == "none"        \* an empty slot
Typed == "typed"        \* a word the user chose
Checked == "checked"    \* a final word with the right checksum

(* Mutant: a slot too few. *)
InitOneShort(k) == mnemonic' = [i \in 1..(NumWords - 1) |-> NoWord] /\ kind' = k

InitPendingMnemonic(k) == mnemonic' = [i \in 1..NumWords |-> NoWord] /\ kind' = k
UpdatePendingMnemonic(w, i) == mnemonic' = [mnemonic EXCEPT ![i + 1] = w] /\ UNCHANGED kind
DiscardPendingMnemonic == mnemonic' = <<>> /\ kind' = "bip39"

Complete(m) == m # <<>> /\ \A i \in DOMAIN m : m[i] # NoWord

(* The Seed a mnemonic converts to; what it stands for is anything of its  *)
(* kind.  The mnemonic is discarded once the Seed exists.                  *)
ConvertTo(o, key) ==
    /\ o \in Objects \ Live
    /\ heap' = [heap EXCEPT ![o] = [kind |-> kind, key |-> key, pass |-> ""]]
    /\ pending' = o
    /\ UNCHANGED seeds
    /\ DiscardPendingMnemonic

KeysOf(k) == IF k = "aezeed" THEN Keys ELSE Keys \ LockedKeys

StoresPending == \A i \in DOMAIN seeds : ~SameIn(heap, seeds[i], pending)

FinalizePendingSeed ==
    /\ seeds' = IF StoresPending THEN Append(seeds, pending) ELSE seeds
    /\ pending' = NoSeed
    /\ UNCHANGED heap

ClearPendingSeed ==
    /\ heap' = [o \in Objects |-> IF o = pending THEN Wiped(heap[o]) ELSE heap[o]]
    /\ pending' = NoSeed
    /\ UNCHANGED seeds

(* Controller.discard_seed: wipe, then storage.seeds.remove, which finds    *)
(* the first entry that equals the seed as it is now.                      *)
WipedHeap(o) == [heap EXCEPT ![o] = Wiped(@)]
Removable(h, o) == {i \in DOMAIN seeds : SameIn(h, seeds[i], o)}

(* Mutant: the entry that was stored last is removed. *)
DiscardsLast(o) ==
    /\ heap' = WipedHeap(o)
    /\ seeds' = IF seeds = <<>> THEN seeds ELSE SubSeq(seeds, 1, Len(seeds) - 1)
    /\ UNCHANGED pending
    /\ Restart(Home)

DiscardSeed(o) ==
    LET found == Removable(WipedHeap(o), o)
        first == CHOOSE i \in found : \A j \in found : i <= j
    IN  /\ heap' = WipedHeap(o)
        /\ seeds' = IF found = {} THEN seeds
                    ELSE SubSeq(seeds, 1, first - 1) \o SubSeq(seeds, first + 1, Len(seeds))
        /\ UNCHANGED pending
        /\ IF found = {} THEN Fail ELSE Restart(Home)       \* ValueError


-----------------------------------------------------------------------------
(* Menus. *)
MainMenu ==
    /\ At("MainMenuView") /\ KeepsAll
    /\ Goto(Plain("SeedsMenuView")) \/ Goto(Plain("ToolsMenuView"))

(* An unhandled exception led here; the only button leads home. *)
LeaveError == At("UnhandledExceptionView") /\ KeepsAll /\ Restart(Home)

(* An empty menu forwards without showing a screen.  The entries on screen  *)
(* are those of storage.seeds at the time the view was constructed.        *)
SeedsMenu ==
    /\ At("SeedsMenuView") /\ KeepsAll
    /\ IF listed = 0
       THEN Restart(Plain("LoadSeedView"))
       ELSE \/ Back
            \/ Goto(Plain("LoadSeedView"))
            \/ \E i \in 1..listed :
                 IF i \in DOMAIN seeds THEN Goto(OfSeed("SeedOptionsView", seeds[i])) ELSE Fail

LoadSeed ==
    /\ At("LoadSeedView") /\ KeepsStorage
    /\ \/ KeepsWords /\ Back
       \/ "bip39" \in TypedKinds /\ InitPendingMnemonic("bip39") /\ Goto(Entry(0, FALSE))
       \/ "electrum" \in TypedKinds /\ KeepsWords /\ Goto(Plain("SeedElectrumMnemonicStartView"))
       \/ "aezeed" \in TypedKinds /\ KeepsWords /\ Goto(Plain("SeedAezeedMnemonicStartView"))

(* A warning whose only button starts the word entry. *)
StartMnemonic(v, k) ==
    At(v) /\ KeepsStorage /\ InitPendingMnemonic(k) /\ Goto(Entry(0, FALSE))
StartElectrum == StartMnemonic("SeedElectrumMnemonicStartView", "electrum")
StartAezeed == StartMnemonic("SeedAezeedMnemonicStartView", "aezeed")

-----------------------------------------------------------------------------
(* Typing a mnemonic. *)
(* Mutants: going back empties the mnemonic; going back from the first word *)
(* starts over.                                                            *)
BackForgetsWords ==
    /\ At("SeedMnemonicEntryView") /\ KeepsStorage
    /\ IF cur.word = 0 THEN DiscardPendingMnemonic ELSE InitPendingMnemonic(kind)
    /\ Back

BackStartsOver ==
    /\ At("SeedMnemonicEntryView") /\ KeepsStorage
    /\ IF cur.word = 0
       THEN InitPendingMnemonic(kind) /\ Goto(Entry(0, cur.calc))
       ELSE KeepsWords /\ Back

EntryBack ==
    /\ At("SeedMnemonicEntryView") /\ KeepsStorage
    /\ IF cur.word = 0 THEN DiscardPendingMnemonic ELSE KeepsWords
    /\ Back

(* "index is too high" *)
WordRefused ==
    /\ At("SeedMnemonicEntryView") /\ KeepsAll
    /\ cur.word >= Len(mnemonic)
    /\ Fail

AcceptsWord == At("SeedMnemonicEntryView") /\ cur.word < Len(mnemonic)
UpdatedWords == [mnemonic EXCEPT ![cur.word + 1] = Typed]

WordTyped ==
    /\ AcceptsWord /\ KeepsStorage
    /\ UpdatePendingMnemonic(Typed, cur.word)
    /\ \/ /\ cur.calc /\ cur.word = Len(mnemonic) - 2
          /\ Goto(Plain("ToolsCalcFinalWordFinalizePromptView"))
       \/ /\ cur.calc /\ cur.word = Len(mnemonic) - 1
          /\ Goto(ShowFinalWord(FALSE))
       \/ /\ IF cur.calc THEN cur.word < Len(mnemonic) - 2 ELSE cur.word < Len(mnemonic) - 1
          /\ Goto(Entry(cur.word + 1, cur.calc))

(* The last word: conversion refuses the mnemonic, or fails on a slot that  *)
(* was never filled, or makes a Seed, which may still be locked.           *)
EndsMnemonic == AcceptsWord /\ ~cur.calc /\ cur.word = Len(mnemonic) - 1

LastWordInvalid ==
    /\ EndsMnemonic /\ KeepsStorage
    /\ UpdatePendingMnemonic(Typed, cur.word)
    /\ IF Complete(UpdatedWords) THEN Goto(Plain("SeedMnemonicInvalidView")) ELSE Fail

(* Mutant: a locked Aezeed is finalized like any other seed. *)
AlwaysFinalized(key) == Plain("SeedFinalizeView")

AfterConversion(key) ==
    Plain(IF key \in LockedKeys THEN "SeedAezeedPassphraseModeView" ELSE "SeedFinalizeView")

LastWordTyped(o, key) ==
    /\ EndsMnemonic /\ Complete(UpdatedWords)
    /\ key \in KeysOf(kind)
    /\ ConvertTo(o, key)
    /\ Goto(AfterConversion(key))

InvalidMnemonic ==
    /\ At("SeedMnemonicInvalidView") /\ KeepsStorage
    /\ \/ KeepsWords /\ Goto(EditWords)
       \/ DiscardPendingMnemonic /\ Goto(Home)

-----------------------------------------------------------------------------
(* Calculating the final word of a mnemonic. *)
ToolsMenu ==
    /\ At("ToolsMenuView") /\ KeepsAll
    /\ Back \/ Goto(Plain("ToolsCalcFinalWordNumWordsView"))

CalcNumWords ==
    /\ At("ToolsCalcFinalWordNumWordsView") /\ KeepsStorage
    /\ \/ KeepsWords /\ Back
       \/ InitPendingMnemonic("bip39") /\ Goto(Entry(0, TRUE))

CalcPrompt ==
    /\ At("ToolsCalcFinalWordFinalizePromptView") /\ KeepsStorage
    /\ \/ KeepsWords /\ Back
       \/ KeepsWords /\ Goto(Plain("ToolsCalcFinalWordCoinFlipsView"))
       \/ /\ UpdatePendingMnemonic(NoWord, Len(mnemonic) - 1)
          /\ Goto(Entry(Len(mnemonic) - 1, TRUE))
       \/ /\ UpdatePendingMnemonic(Typed, Len(mnemonic) - 1)
          /\ Goto(ShowFinalWord(TRUE))

CalcCoinFlips ==
    /\ At("ToolsCalcFinalWordCoinFlipsView") /\ KeepsAll
    /\ Back \/ Goto(ShowFinalWord(TRUE))

(* The constructor of the view replaces the final word by the calculated    *)
(* one; the user's word must be there unless coin flips stand for it.      *)
FinalWord == IF mnemonic = <<>> THEN NoWord ELSE mnemonic[Len(mnemonic)]

CalculateFinalWord ==
    /\ At("ToolsCalcFinalWordShowFinalWordView") /\ FinalWord # Checked /\ KeepsStorage
    /\ IF mnemonic = <<>> \/ (~cur.coin /\ FinalWord = NoWord)
       THEN KeepsWords /\ Fail
       ELSE UpdatePendingMnemonic(Checked, Len(mnemonic) - 1) /\ UNCHANGED screen

CalcShow ==
    /\ At("ToolsCalcFinalWordShowFinalWordView") /\ FinalWord = Checked /\ KeepsAll
    /\ Back \/ Goto(Plain("ToolsCalcFinalWordDoneView"))

CalcDoneBack == At("ToolsCalcFinalWordDoneView") /\ KeepsAll /\ Back

(* Nothing catches a mnemonic that conversion refuses here. *)
CalcDone(o, key) ==
    /\ At("ToolsCalcFinalWordDoneView")
    /\ IF Complete(mnemonic) /\ FinalWord = Checked
       THEN /\ key \in KeysOf(kind)
            /\ ConvertTo(o, key)
            /\ Goto(Plain("SeedFinalizeView")) \/ Goto(Plain("SeedDiscardView"))
       ELSE KeepsAll /\ Fail

-----------------------------------------------------------------------------
(* Finalizing the pending Seed, with or without a passphrase. *)
StoreAndShow ==
    KeepsWords /\ FinalizePendingSeed /\ Restart(OfSeed("SeedOptionsView", pending))

TakesPassphrase(o) == heap[o].kind # "aezeed"

Finalize ==
    /\ At("SeedFinalizeView")
    /\ \/ StoreAndShow
       \/ /\ TakesPassphrase(held) /\ KeepsAll
          /\ \/ Goto(Plain("SeedAddPassphraseView"))
             \/ Goto(Plain("SeedScanPassphraseView"))

AezeedPassphraseMode ==
    /\ At("SeedAezeedPassphraseModeView") /\ KeepsWords
    /\ IF held = NoSeed
       THEN KeepsStorage /\ Goto(Plain("SeedAddPassphraseView"))    \* not an AezeedSeed
       ELSE \/ /\ KeepsStorage
               /\ \/ Goto(Plain("SeedAddPassphraseView"))
                  \/ Goto(Plain("SeedScanPassphraseView"))
            \/ ClearPendingSeed /\ Restart(Home)

(* seed.set_passphrase(p): regenerates the seed, which a wiped Seed cannot  *)
(* do, and an encrypted Aezeed only with the right passphrase or with none.*)
Refuses(o, p) == heap[o].key = NoKey \/ (heap[o].key \in LockedKeys /\ p = "other")

SetPassphrase(o, p) ==
    /\ ~Refuses(o, p)
    /\ heap' = [heap EXCEPT ![o].pass = p]
    /\ UNCHANGED <<seeds, pending>> /\ KeepsWords

(* A wrong passphrase of an Aezeed is cleared and asked for again. *)
WrongPassphrase(o, p) ==
    /\ heap[o].key \in LockedKeys /\ Refuses(o, p)
    /\ heap' = [heap EXCEPT ![o].pass = ""]
    /\ UNCHANGED <<seeds, pending>> /\ KeepsWords

AddPassphrase(p, isBack) ==
    /\ At("SeedAddPassphraseView")
    /\ \/ /\ SetPassphrase(held, p)
          /\ IF TakesPassphrase(held)
             THEN Goto(Plain(IF isBack \/ p = "" THEN "SeedAddPassphraseExitDialogView"
                             ELSE "SeedReviewPassphraseView"))
             ELSE Goto(Plain(CASE isBack -> "SeedAezeedPassphraseModeView"
                               [] ~isBack /\ p # "" -> "SeedFinalizeView"
                               [] OTHER -> IF heap[held].key \in LockedKeys
                                           THEN "SeedAddPassphraseView"
                                           ELSE "SeedAddPassphraseExitDialogView"))
       \/ WrongPassphrase(held, p) /\ Goto(Plain("SeedAddPassphraseView"))
       \/ heap[held].key = NoKey /\ KeepsAll /\ Fail

AddPassphraseExit ==
    /\ At("SeedAddPassphraseExitDialogView")
    /\ \/ KeepsAll /\ Goto(Plain("SeedAddPassphraseView"))
       \/ SetPassphrase(held, "") /\ Goto(Plain("SeedFinalizeView"))
       \/ Refuses(held, "") /\ KeepsAll /\ Fail

ScanPassphraseBack ==
    /\ At("SeedScanPassphraseView") /\ KeepsAll
    /\ IF held # NoSeed /\ ~TakesPassphrase(held)
       THEN Goto(Plain("SeedAezeedPassphraseModeView"))
       ELSE Back

(* The scanned text is appended to the passphrase so far, and goes to the   *)
(* pending Seed as it is then, not to the one the view was entered with.   *)
ScanPassphrase(p) ==
    /\ At("SeedScanPassphraseView")
    /\ \/ /\ NoSeed \notin {held, pending}
          /\ SetPassphrase(pending, p)
          /\ Goto(Plain(IF TakesPassphrase(held) THEN "SeedReviewPassphraseView"
                        ELSE "SeedFinalizeView"))
       \/ /\ NoSeed \notin {held, pending}
          /\ WrongPassphrase(pending, p)
          /\ Goto(Plain("SeedAezeedPassphraseModeView"))
       \/ NoSeed \in {held, pending} /\ KeepsAll /\ Fail

ReviewPassphrase ==
    /\ At("SeedReviewPassphraseView")
    /\ \/ SetPassphrase(held, "") /\ Goto(Plain("SeedFinalizeView"))
       \/ Refuses(held, "") /\ KeepsAll /\ Fail
       \/ StoreAndShow
       \/ /\ KeepsAll
          /\ \/ Goto(Plain("SeedAddPassphraseView"))
             \/ Goto(Plain("SeedScanPassphraseView"))

-----------------------------------------------------------------------------
(* A stored Seed. *)
SeedOptions ==
    /\ At("SeedOptionsView") /\ KeepsAll
    /\ Goto(Home) \/ Goto(OfSeed("SeedDiscardView", held))

IsPendingDiscard == cur.seed = NoSeed

KeepSeed ==
    /\ At("SeedDiscardView") /\ KeepsAll
    /\ IF IsPendingDiscard
       THEN Forward(Plain("SeedFinalizeView"))
       ELSE Forward(OfSeed("SeedOptionsView", held))

DiscardAnswered ==
    /\ At("SeedDiscardView") /\ KeepsWords
    /\ IF IsPendingDiscard
       THEN ClearPendingSeed /\ Restart(Home)
       ELSE DiscardSeed(held)

-----------------------------------------------------------------------------
(* handle_wipe_timeout: storage is emptied, navigation forgotten; the view  *)
(* on screen stays, with the objects it holds.  The words of a mnemonic    *)
(* that is being typed are not touched.                                    *)
(* Mutant: the seeds are wiped where they are. *)
WipeKeepsList ==
    /\ wipes < MaxWipes
    /\ wipes' = wipes + 1
    /\ heap' = [o \in Objects |-> IF o \in Stored \cup {pending} THEN Wiped(heap[o]) ELSE heap[o]]
    /\ pending' = NoSeed
    /\ Nav!Forget
    /\ UNCHANGED <<seeds, held, listed, words>>

Wipe ==
    /\ wipes < MaxWipes
    /\ wipes' = wipes + 1
    /\ heap' = [o \in Objects |-> IF o \in Stored \cup {pending} THEN Wiped(heap[o]) ELSE heap[o]]
    /\ seeds' = <<>>
    /\ pending' = NoSeed
    /\ Nav!Forget
    /\ UNCHANGED <<held, listed, words>>

-----------------------------------------------------------------------------
Init ==
    /\ Nav!Init /\ held = NoSeed /\ listed = 0
    /\ heap = [o \in Objects |-> [kind |-> "bip39", key |-> NoKey, pass |-> ""]]
    /\ seeds = <<>> /\ pending = NoSeed
    /\ mnemonic = <<>> /\ kind = "bip39"
    /\ wipes = 0

Answer ==
    \/ MainMenu \/ LeaveError \/ SeedsMenu \/ LoadSeed \/ StartElectrum \/ StartAezeed
    \/ EntryBack \/ WordRefused \/ WordTyped \/ LastWordInvalid \/ InvalidMnemonic
    \/ \E o \in Objects, key \in Keys : LastWordTyped(o, key) \/ CalcDone(o, key)
    \/ ToolsMenu \/ CalcNumWords \/ CalcPrompt \/ CalcCoinFlips \/ CalculateFinalWord
    \/ CalcShow \/ CalcDoneBack
    \/ Finalize \/ AezeedPassphraseMode
    \/ \E p \in Passphrases \cup {""}, isBack \in BOOLEAN : AddPassphrase(p, isBack)
    \/ AddPassphraseExit \/ ScanPassphraseBack \/ \E p \in Passphrases : ScanPassphrase(p)
    \/ ReviewPassphrase \/ SeedOptions \/ KeepSeed \/ DiscardAnswered

Next == Answer \/ Wipe

Spec == Init /\ [][Next]_vars

-----------------------------------------------------------------------------
TypeOK ==
    /\ Nav!TypeOK
    /\ held \in Objects \cup {NoSeed} /\ pending \in Objects \cup {NoSeed}
    /\ heap \in [Objects -> Contents]
    /\ seeds \in Seq(Objects \cup {NoSeed}) /\ listed \in Nat
    /\ mnemonic \in Seq({NoWord, Typed, Checked}) /\ Len(mnemonic) \in {0, NumWords}
    /\ kind \in {"bip39", "electrum", "aezeed"}
    /\ wipes \in 0..MaxWipes

(* Every stored seed can be used: no path through the passphrase screens    *)
(* stores an Aezeed that is still locked, and a Seed that an auto-wipe      *)
(* wiped under a waiting view never gets back into the list that the seeds *)
(* menu asks for fingerprints.  (None may, after a wipe: see               *)
(* StoresOnlySeeds.)                                                       *)
StoredSeedsUsable ==
    \A o \in Stored : IF o = NoSeed THEN wipes > 0 ELSE Usable(o)

(* Every word before the one that is being entered has been entered, and    *)
(* the mnemonic has a place for it, whichever way the user went back,      *)
(* edited or started over.  The one word entry that comes up without a     *)
(* mnemonic, where update_pending_mnemonic raises "index 0 is too high",   *)
(* is that of a second "Review & edit" after the first was backed out of:  *)
(* see EntryHasWords.                                                      *)
WordsFit ==
    cur.view = "SeedMnemonicEntryView" =>
        /\ \A j \in 1..cur.word : j \in DOMAIN mnemonic /\ mnemonic[j] # NoWord
        /\ cur.word < Len(mnemonic) \/ (cur = EditWords /\ mnemonic = <<>>)

(* ToolsCalcFinalWordDoneView converts the mnemonic without catching        *)
(* InvalidSeedException: it is only reached with the calculated final word.*)
DoneWordsValid ==
    cur.view = "ToolsCalcFinalWordDoneView" => Complete(mnemonic) /\ FinalWord = Checked

(* The words a view of the mnemonic entry relies on are there.              *)
EntryIsSound == WordsFit /\ DoneWordsValid

(* A pending seed is not left behind by a workflow that was abandoned, and  *)
(* until an auto-wipe takes it away no view of the passphrase workflow     *)
(* finds None.                                                             *)
PendingInFlow ==
    LET needed == cur.view \in PendingViews \/ cur = Plain("SeedDiscardView")
    IN  IF wipes = 0 THEN (pending # NoSeed) <=> needed
        ELSE pending # NoSeed => needed

(* "Backing out of the first word cancels the mnemonic entry process;       *)
(* return to whichever View routed us here initially": no word entry is    *)
(* left on screen without a mnemonic to enter words into.                  *)
EntryHasWords == cur.view = "SeedMnemonicEntryView" => mnemonic # <<>>

(* "Wipe seed ... from the device?": once the user has confirmed, no stored *)
(* seed has the bytes of the loaded seed that the question was about.      *)
DiscardForgets ==
    [][ cur.view = "SeedDiscardView" /\ ~IsPendingDiscard
        /\ cur'.view \in {"MainMenuView", "UnhandledExceptionView"}
            => \A i \in DOMAIN seeds' : heap'[seeds'[i]] # heap[held] ]_vars

(* SeedStorage.seeds is a List[Seed]. *)
StoresOnlySeeds == NoSeed \notin Stored

(* "Wipe sensitive in-memory data": right after a wipe no Seed that the     *)
(* program still refers to can be used, and no typed word is left.         *)
WipeLeavesNoSecret ==
    [][ wipes' # wipes =>
            /\ \A o \in Live : ~HasBytes(heap'[o])
            /\ \A i \in DOMAIN mnemonic' : mnemonic'[i] = NoWord ]_vars
=============================================================================
