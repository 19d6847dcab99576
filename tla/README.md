# SeedSigner in TLA+

This directory specifies the control logic of SeedSigner (`src/`, with the Python
program under `src/src/seedsigner/`): what the main loop, the threads beside it and
the views do to the state they share. It is checked with TLC and, in part, proved
with TLAPS. `PROJECT.json` lists the components, the runs, the source lines behind
every definition, the hazards and the theorems; this file says how they hang
together. Paths below are relative to `src/src/seedsigner/`.

## The system

SeedSigner is an air-gapped signing device: one Python process, a small display,
a joystick with three keys, a camera. It keeps no secret on disk. What makes it
correct is which secrets are in memory when, what is shown before what is signed,
and that no sequence of keys, QR codes, cards or timeouts brings the program down
or leaves the user without a way out.

The main thread runs `Controller.start` (`controller.py`): a loop that dispatches
one `View` after the other. A view runs one or more `Screen`s, each of which waits
for keys in `HardwareButtons.wait_for`, and returns a `Destination`: a view class
with arguments, or `BackStackView` for "back". Everything the views share hangs off
two singletons, the `Controller` (session attributes, back stack, `SeedStorage`)
and the `Settings`. Next to the main thread run the wipe timer, the MicroSD
listener, toasts, loading screens, live previews, the camera's frame thread, the
RNG monitor and the battery monitor. Only the display is locked (`Renderer.lock`).

| component | state | operations | talks to | hard because |
|---|---|---|---|---|
| main loop (`controller.py`) | `back_stack`, session attributes, `auto_wiped` | dispatch, skip, back, clear, unwind, handle exception | every view; the wipe timer edits its state | two threads on one list without a lock; long key sequences |
| wipe timer (`controller.py`) | `last_input_time` | `handle_wipe_timeout` | all of the above, toasts, `override_ind` | runs between any two statements of the main thread |
| renderer, toasts, screensaver (`gui/renderer.py`, `gui/toast.py`, `views/screensaver.py`) | lock, canvas, saved screens, `keep_running` | draw, show, give up and take back the lock, restore, activate | main thread and any number of toasts | lock hand-off by polling; copies of a canvas that others draw on |
| hardware buttons (`hardware/buttons.py`) | `override_ind`, `last_input_time` | `wait_for`, `trigger_override` | screens, toasts, timer | a flag that is dropped by the call it is to interrupt |
| seed storage and seed views (`models/seed_storage.py`, `models/seed.py`, `views/seed_views.py`, `views/tools_views.py`) | stored seeds, pending seed, pending words, the Seed objects | type, calculate, convert, passphrase, finalize, discard | navigation, wipe | objects shared and mutated, value equality, back in the middle |
| SLIP-39 entry (same files) | words of a share, shares, first share | type, scan, read from card, combine | navigation | two nested lists reset at different times |
| workflows that wait for a seed (`views/seed_views.py`, `views/tools_views.py`) | `resume_main_flow`, the address, message, xpub or import waited for | start, load a seed or a descriptor, resume, finish | seed views, scanner, cards | attributes of one workflow that the next one finds |
| address search (`views/seed_views.py`) | counter, skips, index found | derive, compare, skip, finish | a thread and a screen | two threads, one counter |
| PSBT (`models/psbt_parser.py`, `views/psbt_views.py`) | psbt, parser, signer, descriptor, source time | load, choose a signer, parse, review, sign | seeds, cards, scanner, microSD | order of review and signing; what is called change |
| signing cards (`views/smartcard_views.py`, `helpers/*_connector.py`, `helpers/satochip*.py`) | connector, cached PIN, last card id, signatures so far | connect, verify, sign, retry, reset | cards that may be removed | stale caches, limited tries, time limits |
| SeedKeeper, Satodime, Specter, JavaCards (`views/smartcard_views.py`) | secrets, ownership keys, slot snapshots, applet keys | save, clone, claim, back up, seal, install | cards, microSD, camera | a key that a card emits once; commands that fail half-way |
| GPG tools (`views/gpg_views.py`, `helpers/smartpgp_import.py`) | keyring, derivation record, pending message, admin PIN | derive, rebuild, sign, decrypt, verify, move to card | external programs, microSD, cards | state kept in two places; looked at and used in different steps |
| QR decoding (`models/decode_qr.py`, `helpers/ur2/`) | type, decoder, parts received, queue of mixtures | add part | scan view, camera | parts in any order, repeated, foreign |
| scan views (`views/scan_views.py`) | `storage2`, the encrypted QR and its key | dispatch, decrypt | every workflow above | a code stored by a thread, used by later views |
| settings (`models/settings.py`), MicroSD listener (`hardware/microsd.py`) | dict, JSON file; FIFO, inserted flag | get, set, save, import; insert, remove | views, toasts | power loss, card removed |
| camera (`hardware/pivideostream.py`) | frame, stop flag | start, read, stop | scan view | thread against thread |
| battery, RNG monitor | cached readings | poll | toasts | threads |
| screens, display drivers, encodings, cryptography | – | pure or I/O | – | – |

For each component, what makes it correct:

- main loop: it never ends but by power-off; back leads through the visited views,
  no view twice; the top of the stack is the view on screen; main menu and wipe
  reset the session;
- display: one thread draws at a time; a toast leaves the screen it came over;
  nobody waits for the lock for ever;
- seeds: what is stored is usable and stored once; a pending seed or mnemonic ends
  with its workflow; discarded and wiped seeds are gone; every word entered has its
  place; back always leads out;
- SLIP-39: shares are counted against the first of them, and end with the workflow;
- workflows: what waited for a key is done with the key that was chosen for it;
- address search: "not found" means that no address was passed over;
- PSBT: only what was reviewed is signed, by the signer that was chosen, every input
  of it; what is shown as change comes back;
- cards: tries of a PIN are not spent silently; no card loses its PIN or its seed
  without the user being told; a key that exists once is backed up when the device
  says so; a clone or a verdict that is reported is true;
- GPG: a key can be rebuilt from its record; a message that waited for a key is the
  one last loaded; a key is in a slot of a card where it can be used;
- QR: a completed message is the message sent, however its parts arrive; what is
  decrypted is what the user agreed to decrypt;
- settings: what is on the card is some complete state of the settings.

## Modules

| module | models | checked in |
|---|---|---|
| `Navigation` | one iteration of the main loop per step: the abstract specification, also used by the view modules | `MCFlows`, and as the property `ImplementsNavigation` |
| `Controller` | the main loop statement by statement, session attributes, `override_ind`, the wipe thread | `MCController` |
| `ControllerHistory` | `Controller` with a history variable: the refinement mapping to `Navigation` | `MCControllerHistory` |
| `RendererLock` | lock, canvas, screens, screensaver, toasts, `activate_toast` | `MCRendererLock` |
| `SeedFlow` | `SeedStorage` (but SLIP-39), Seed objects, the views that load, finalize and discard seeds, the auto-wipe | `MCSeedFlow` |
| `SeedBacking` | `SeedFlow` with a user who only wants out | `MCSeedBacking` |
| `Slip39Flow` | the SLIP-39 part of `SeedStorage` with its views | `MCFlows` |
| `Workflows` | the workflows that wait for a seed or a descriptor | `MCFlows` |
| `AddressSearch` | the search thread and its screen | `MCFlows` |
| `PSBTFlow` | loading, reviewing and signing a transaction, the auto-wipe between any two screens | `MCFlows` |
| `PsbtParser`, `PsbtSamples` | what `PSBTParser.parse` makes of a transaction; transactions to put to it | `MCFlows` |
| `CardSigner` | the signing of a transaction's inputs by a card | `MCFlows` |
| `CardSession` | connection, card id, cached PIN; verify, change, unblock, reset | `MCCards` |
| `CardTrials` | bias check and benchmarks of a signing card | `MCCards` |
| `SignerCards` | seed, second factor and account key of Satochip and Keycard | `MCCards` |
| `SatodimeKeys` | ownership keys of Satodime cards and their backups | `MCCards` |
| `SatodimeSlots` | the keyslots of a Satodime and the snapshot of them | `MCCards` |
| `SeedkeeperSecrets` | secrets and descriptors on SeedKeeper cards, cloning | `MCCards` |
| `SpecterCard` | the Specter-DIY applet | `MCCards` |
| `JavaCards` | keys that lock JavaCards, applet packages | `MCCards` |
| `GpgKeys` | the keyring and the record its keys are rebuilt from | `MCFlows` |
| `GpgMessages` | messages and the key a message waits for | `MCFlows` |
| `GpgFiles` | files, signatures and manifests on the microSD | `MCFlows` |
| `GpgCard` | moving keys to an OpenPGP card, by gpg or by the importer | `MCFlows` |
| `QRCodes` | the type of a code and what its decoder accepts: operators for the next two | |
| `QRAnimation` | animations: numbered parts and UR fountain codes | `MCFlows` |
| `Lists` | the elements at some places of a list, and sums: operators for `QRAnimation` and `GpgCard` | |
| `ScanFlow`, `ScanSamples` | from a code to the workflow it leads into; decrypting an encrypted QR; codes to scan | `MCFlows` |
| `NavigationProofs`, `ControllerProofs`, `RendererLockProofs`, `SeedFlowProofs` | theorems about `Navigation`, `Controller` and `ControllerHistory`, `RendererLock`, `SeedFlow`, proved with TLAPS | |
| `PSBTProofs` | about `PSBTFlow`, `CardSigner`, `PsbtParser` | |
| `CardsProofs` | about `CardSession`, `SatodimeKeys`, `CardTrials`, `SpecterCard`, `SatodimeSlots`, `SeedkeeperSecrets`, `SignerCards`, `JavaCards`, `MCCards` | |
| `FlowsProofs` | about `AddressSearch`, `GpgKeys`, `GpgMessages`, `Slip39Flow`, `Workflows`, `ScanFlow` | |
| `RecursionProofs` | about `GpgCard` and `QRAnimation`, whose actions compute by going through lists | |

`MCCards` and `MCFlows` each put together components that share no state. A variable
`part` is chosen at the start; the behaviour runs that component while the others keep
one of their initial states. The states of the components add up instead of
multiplying, and nothing is lost, since no component could see another move. The
components that do interact are composed in one module: the loop with the wipe thread
(`Controller`), threads around the lock (`RendererLock`), storage with views and wipe
(`SeedFlow`), PSBT views with scanner, seeds, cards and wipe (`PSBTFlow`), workflows
with each other and with the views that load seeds (`Workflows`), the search thread with
its screen (`AddressSearch`).

### Navigation and Controller

`Controller.mpc` is the main thread's place in `Controller.start`; the pcs
`"returned"` to `"append"` are the statements after `run()` in the order of the
code, each reading or writing the back stack once, so that the wipe thread
(`wpc`, the statements of `handle_wipe_timeout`) can fall between any two of them.
`pop_prev_from_back_stack` is four steps: two length tests and two pops. What a view
does is left open: it may wait for a key (`WaitForInput`, `KeyPressed`,
`OverrideSeen`), store a session attribute, raise, leave the loop, or return any
Destination that a view of the repository may return (`Returnable` excludes
combinations no view returns, such as "back" with a cleared history). An entry of
the stack says whether its Destination ever ran, because only then it has the
`.view` that `is_screensaver_start_allowed` reads. Attributes are `absent`, `held`
or, once a wipe has begun, `stale`; the three sets of what Home, the main menu's
own `run` and the wipe reset are copied from the three places in the code. No
property compares them: what ought to be sensitive the code says nowhere but in
these lists (see below for what the wipe leaves alone).

`Navigation` says what this amounts to: `Visit`, `GoBack`, `Forget` on a history
without repeats that ends with the current view. `ControllerHistory` remembers the
stack as of the last time a view ran and implements it. `SeedFlow`, `Slip39Flow`,
`PSBTFlow`, `Workflows`, `ScanFlow` and `GpgMessages` use `Navigation`'s actions by
INSTANCE, with concrete Destinations.

### RendererLock

One pc per thread. `MainThread` is a screen that draws under the lock and waits, or
the screensaver, which runs inside `wait_for`; a `ToastThread` is
`BaseToastOverlayManagerThread.run` statement by statement, its polling loop
included; an `ActivateToast` is `Controller.activate_toast`. `canvas` is the screen
drawn last and the toasts on it: that is what the saved copies of toasts and
screensaver hold. Times are abstract: a delay or duration may end at any step.

### SeedFlow and Slip39Flow

An action is the user's answer to one screen: what the view does with it, the main
loop, and the next view's constructor and `run()` up to its screen (`Show`, whose
`CanShow` is the exceptions that these may raise). Seeds are objects with an
identity (`heap`): storage, the view on screen (`held`) and Destinations in the
history refer to the same objects and `set_passphrase`, `wipe` and
`finalize_pending_seed` mutate and compare them, by bytes. Words are `none`,
`typed` or `checked` (a calculated final word): which word it is matters to no
property. What a mnemonic stands for is chosen when it is converted, so that two
entries may or may not be the same seed. The wipe is one step and strikes while a
view waits: `Controller` has the statement-level races of the back stack, those of
`SeedStorage` are planned.

Left out of `SeedFlow`: seeds that are scanned or come from a card, xprv seeds,
passphrases from a SeedKeeper, the passphrase setting's values "disabled" and
"required", what a `resume_main_flow` makes of a finalized seed (`Workflows`), and what
`SeedOptionsView` leads to apart from discarding. Destinations are compared by the
identity of the seed argument; `Seed.__eq__` would also equate two objects with
equal bytes, of which only one is ever stored.

### Workflows, AddressSearch, ScanFlow

In `Workflows` and `ScanFlow` an action is what a view does from its screen up to the
next screen, over the Controller attributes through which the views talk
(`resume_main_flow`, the unverified address, the message and its derivation, the xpub's
settings, the import's kind, `storage2`). A seed or a descriptor may be there, be
loaded on the way, or be refused. Menus whose entries depend on settings choose anew
each time. The type of a QR code and the order of the tests that find it come from
`QRCodes`, where a code is the set of answers it gives to those tests.

`AddressSearch` has the thread's loop statement by statement (derive and compare,
count, next index) and the screen's "Skip 10", which adds to the same counter under its lock
while every reading of it holds none. The three searches (a batch of one key's addresses,
all paths, and with a descriptor, which has no end) end differently, and so do they
here.

### PSBTFlow, PsbtParser, CardSigner

`PSBTFlow` keeps the attributes `psbt`, `psbt_parser`, `psbt_seed`, the descriptor,
`psbt_source_time` and the signing card on the Controller and, apart, what the view on
screen took from them before it began to wait (`local`): an auto-wipe may come in
between. A reading (what the parser made of a transaction, for which signer and
descriptor) is a record that can be compared with what is signed later. It says of the
outputs what the review branches on: recipients, change outputs, whether the change has
any value (`change_amount`, which is what the code asks, not whether there are change
outputs), whether an address could be shown for them, and the OP_RETURN payload the parser
kept. `Owed` is what follows from these for the screens a review owes the user.

`PsbtParser` takes the checks of `parse` one step each, in the code's order: an operator
named `...Code` says whether a check passes and with which error it fails, `verdict`
keeps the first failure, and inputs and outputs are read one by one (`ParseInput`,
`ParseOutput`, `KindOf`: as what an output is shown). Keys, paths and scripts are
records; a hash is the script it commits to, so equal commitments are equal scripts.
Claims (derivation entries) may be false. In `MCFlows` a behaviour of this part picks a listed
transaction, a key, and a descriptor or none.

`CardSigner` is `sign_psbt_with_satochip` and its Keycard twin: each call to the card is
a step that may answer, fail or outlast its time limit; the worker thread of an
outlasted call ends later, and the caller is kept until it does. Inputs signed, the
keys not tried yet, dummy calls and the repeated signatures of which one is drawn are
state.

### Cards

Each view connects anew and takes whichever card lies on the reader, so that every
action of `CardSession`, `SatodimeKeys` and `SatodimeSlots` is a card exchanged or not, and
then the view. The card is external: it is modelled by the commands the views send, in
which state it takes them, and what a failure leaves. `CardSession` has `init_satochip`
with its check for a swapped card, the PIN that is cached, sent and dropped, and the
views that change a PIN, unblock a card by its PUK or reset it step by step.
`SatodimeKeys` follows an ownership key through every place it may be: card,
`unlockSecrets`, backup file, photograph of a QR, backup view. `SatodimeSlots` compares the
snapshot the menus are built from with the slots. `SeedkeeperSecrets` has the memory of
the card run out in the middle of a clone or of a descriptor in several parts;
`SignerCards` looks at a card, shows a menu under which the card may be exchanged, and then
imports; a clone passes over secrets the device cannot write, and any call of it may
fail; `SpecterCard` and `JavaCards` have
the PIN tries and keys that lock a card for good; `CardTrials` has attempts, lines of
the report and the dropped slow signature.

### GPG

`GpgKeys` puts a derived key next to the record `BIP85_DATA` that is to rebuild it:
creating, adding and removing subkeys and user ids, importing, editing the expiry,
deleting and rebuilding. The views number subkeys on their own: adding derives from the
key's index and the place in its list (`NewSubkeys`), verifying and rebuilding from the
number on record (`VerifiedAt`, `RebuiltAt`), and so does the module.
`GpgMessages` steps from screen to screen of the views that read, decrypt, sign and
encrypt, with the message that waits on the Controller while a key is loaded.
`GpgFiles` has the folder as versions of a file, its signatures, beside it or inside, and
its manifest. The folder may change while any screen is shown; gpg's verdict, the
manifest and the checksums are read in different steps.
`GpgCard` moves subkeys into slots, first by gpg, then by
`smartpgp_import`, whose two commands per slot may be separated by a failure.

### QRAnimation

`add_data` for one code after the other. A UR fragment is the pair of UR and index, a
mixture the set of its fragments, and xor the symmetric difference of sets, so that
`reduce` by another mixture is what the code does with indexes and bytes at once. The
queue of parts, the reduction of the mixed parts by the new one and back, the check
against the first header seen and the completion test follow `FountainDecoder`;
Specter's and BBQr's numbered parts follow `DecodeQR`. The camera gives any code of the
list at any step.

## Runs

Every property of a passing run is also checked to fail for a mutant of the code
that `PROJECT.json` names (the operators marked "Mutant" in the modules).

| run | bounds | shows |
|---|---|---|
| `Controller_Navigation` | three views and Home, attributes of different fates, two wipes under a waiting view; 525 thousand states | refinement of `Navigation`; `TopIsCurrentView`; `SurvivesUntilWipe` (before the first wipe) |
| `Controller_Racy` | the same, one wipe between any two statements, fair threads | `NoRepeats`, `TopIsCurrentView`, `WipeWakesScreens` |
| `RendererLock_Safe` | two toasts, two activating threads, two screens, screensaver; 6.5 million states | exclusion |
| `RendererLock_NoSaver` | the same without the screensaver | toasts end, restore the screen, leave nothing; the main thread gets the lock |
| `SeedFlow_Safe` | three Seed objects, three keys (one of a locked Aezeed), three words, one wipe; 1.2 million states | storage and workflow invariants |
| `SeedBacking_Leaves` | BIP-39, three words | back leads out |
| `Cards_Safe` | two cards (also the Satodimes), two PINs, two other things; 1.2 million states | the cards' invariants, below |
| `Flows_Safe` | see below; 1.4 million states | the invariants of the flows, below |
| `Controller_RacyCrash` | as `Controller_Racy` | refutes `LoopSurvives` |
| `SeedFlow_WipeSecret` | BIP-39, two words, one wipe | refutes `WipeLeavesNoSecret` |
| `Cards_CachedPin` | as `Cards_Safe` | refutes `CachedPinStaysWithItsCard` |
| `Flows_ReadAgain` | as `Flows_Safe` | refutes `ReadAgain` |

`Cards_Safe`: a wrong cached PIN costs one try at most (`SilentTriesBounded`) and a
card loses its PIN only by a reset that is reported (`ResetIsTold`); a Satodime's key is
backed up when the view says so and stays with its card (`DoneMeansBackedUp`,
`KeysBelongToCards`); the snapshot of slots lags only by a signing that unsealed a slot
(`CacheLagsOnlyBySigning`); a clone reported complete has every secret of the source, or
counts it among those the device cannot write (`CloneIsComplete`); a reported import has put
the chosen seed on the card that is on the reader, which had none, although the card is
looked at before a menu and may be exchanged under it (`ImportIsTrue`).

`Flows_Safe`: while words of a share are held, every view of their entry in the history goes
on where they end (`EntryContinues`); the reading of a transaction is of this
transaction, signer and descriptor, and what is signed was reviewed, but for change of no
value, an empty OP_RETURN and all but the last of several (`ReadingIsCurrent`,
`SignedWasReviewed`); a card signs every input it has a key
for, once, unless a call failed (`InputsAreSigned`); what is shown as change is ours
(`ChangeIsOurs`); a workflow serves the key it was chosen for (`ServesChosen`); a search
that found nothing passed over at most what was skipped (`NoneMissed`); which keys can be
rebuilt from their record, and that these get every subkey back, whose numbers three views
compute each in its own way (`RebuildsNumberedAlike`); a slot of a card holds key and
fingerprint that fit (`SlotsFit`); a message resumes only as the one last loaded
(`ResumesWithMessage`); a UR is complete only with its own fragments and then whatever
came before (`UrIsSolved`); what is decrypted was agreed to (`DecryptsAgreed`).

Bounds and why they suffice:

- Navigation, Controller: unwinding and skipping look at one destination and the two
  below it, so that three destinations and Home meet every combination of a stack that
  is empty, has one entry or more, with and without the destination in it.
- RendererLock: a hand-off of the lock involves at most the main thread and two toasts,
  the old and the new; a second activator is what lets two toasts be live at once.
- SeedFlow: two equal and one different stored seed need three objects (a fourth could
  only be stored if it differed from all). Three words have a first, a middle and a
  last one; the final-word calculation treats the last two differently from the rest.
- Slip39Flow: a 3-of-n and a 1-of-1 backup, shares of two and three words: one that is
  complete at once, one that needs shares of another length to be refused.
- PSBTFlow: three transactions (single and multisig, and one whose change may have no
  value and whose OP_RETURN may be empty or one of several), two seeds, a WIF, a descriptor, a
  card and one wipe, so that any of them can be exchanged for another in mid-review; a
  reading has up to two recipients and change outputs (`MaxOutputs`), so that there is a
  first, a last and a next one.
  CardSigner: two inputs and two keys, one repetition beyond the first
  (`MaxExtra`), three time limits.
- PsbtParser: 697 listed transactions, each for three kinds of key and with or without
  descriptor; every check of `parse` fails for one and passes for another. Limits are
  small (in the .cfg: `MaxMoney` 10000, `MaxFeeRate` 15, `Lookahead` 1); the fee rate is compared in
  quarters of a virtual byte, as the code's division does.
- Workflows: one seed, one descriptor, two addresses, two messages, navigation five
  deep. AddressSearch: batches of three, skips of two, at most two skips, indexes to six:
  a skip before, at and after the address, and beyond the batch.
- Cards: one try of a PIN, two rounds of a reset, two claims, three units of memory,
  three samples with two failures of which one is tolerated, benchmarks of three.
- GpgKeys: one derived key at a time with up to six subkeys (two sets) and two changes, at
  index 0 or 1, of two types of which one is listed, with user ids, both schemes of
  derivation. GpgMessages: two keys, one with a passphrase, three incoming messages.
  GpgFiles: two keys, two versions, two projects. GpgCard: three subkeys, three tries.
- SeedkeeperSecrets: at most one card holds secrets to begin with.
- QRAnimation: a UR of four fragments with eleven mixtures of them, a foreign UR of two
  parts, a part that claims more fragments than a UR may have (`MaxSeqLen` 4), numbered animations of two parts: mixtures that overlap, contain each
  other, and reduce each other in both directions. ScanFlow: 17 codes, one for each type and
  answer of a decoder, one wipe.

Every bound is a CONSTANT or a definition of an MC module, and counters stop in guards.
Symmetry is used only in runs without liveness.

Deadlock is not checked in the `Controller`, `Cards` and `Flows` runs: power-off and a crash
really end the program, and a card that is blocked, a transaction that is parsed, an
animation that is complete and a search that is over have nothing left to do.

Fairness: every thread is scheduled, which is weak fairness of its next statement
(`FairSpec` of `Controller` and `RendererLock`); a toast's duration ends. CPython's
`threading.Lock` makes no promise to a waiter, and none is assumed: the main thread
gets the lock in `ToastsEnd` because the finitely many toasts of a run each take it
once; polling loops come round again. No fairness for keys or for the wipe
timer's expiry. `SeedBacking` assumes one thing of the user: that he goes on
pressing back once he has begun to leave.

### Where the code departs from what it says

Four findings are runs of their own and described in `PROJECT.json`. The modules define
more properties that the code does not have; no run names them, and TLC refutes each
when it is added to the configuration of its module:

- `RendererLock!OneToastAtATime`: two threads inside `activate_toast` start two toasts
  ("Can only run one toast at a time", `controller.py:771`).
- `RendererLock!SaverGivesWay`: a toast activated just before the screensaver starts
  waits behind it ("New toast notifications break out of the Screensaver",
  `controller.py:766`).
- `RendererLock!ToastExpires`, `NoGhostToast`, `RestoresScreen` with the screensaver: a toast
  that gave the lock to a screensaver which ended within the toast's poll interval stays
  until somebody else draws; the screensaver copies the screen before it has the lock
  and later restores a toast that is over; a toast restores a screen that another screen
  has replaced.
- `Controller!WipeReturnsToMenu`: a screen that ignores overrides is not left by a wipe.
  `ScreensaverCheckFails`: after a wipe the stack ends with a Destination that never ran,
  and the next screensaver check raises; `TopIsCurrentView` allows for that one entry.
- `SeedFlow!DiscardForgets`: a seed that was loaded twice is discarded as the copy the
  view holds, and the stored one stays. `EntryHasWords`: Review & edit of an invalid
  mnemonic, back from its first word, Review & edit again, and the next word raises.
  `StoresOnlySeeds`: Done on a finalize screen that was open during a wipe stores None.
- `SeedBacking!LeavingEnds` with Electrum or Aezeed mnemonics: back from the first word
  leads to a warning without a back button that starts the entry again
  (`seed_views.py:1706`, `:1069`).
- `Slip39Flow`: Try Again after an invalid typed share begins a share of no words; back on
  the screen that asks for more shares is used as a list index; without a scanner the
  error screen's "back" passes over two views and may lead into the entry of a share that
  is finished, where every word is refused.
- `AddressSearch!ChangeIsReported`; `Workflows!SearchesChosen`, `ExplorerIsLeft` and
  `ReadIsSigned`: attributes of an earlier workflow that a later one finds.
- `CardSession!SuccessMeansReset`: back at a PIN prompt in the middle of a reset is taken
  for its success. `SatodimeKeys!ClaimLeadsToBackup`: a claimed key that no backup view
  follows. `SatodimeSlots!ResetErasesShownKey`: Reset Slot erases the slot of the card on
  the reader, which need not be the one whose slots were shown.

Seen while modelling and left out of the properties, because they concern data or a
single statement, or are exceptions that a property states:

- The wipe "Wipe[s] sensitive in-memory data" (`controller.py:787`) and leaves alone the
  pending GPG message (`:270`), the source time of a transaction (`:251`), the JavaCard keys
  (`:292`), and what a view that was waiting stores after the reset.
- `controller.py:765`, `models/seed_storage.py:33` and `:40`: test and use of shared
  state in different statements. `models/seed_storage.py:227` multiplies thresholds of
  groups that may differ. `models/seed.py:105` decodes escapes of a passphrase again.
  `views/seed_views.py:1817`, `:1818`: a return code used as index; shares lost by
  back.
- QR: the estimated progress may fall (`fountain_decoder.py:115`); the numbered parts of
  two animations with the same count mix (`decode_qr.py:1028`); a Specter wallet part of
  base64 characters only is taken for a PSBT part (`:691` before `:705`);
  `ScanSlip39ShareQRView.run` does not look at the type (`scan_views.py:446`).
- PSBT: whether there is change to show is asked of its amount (`psbt_views.py:780`, `:890`,
  `:1030`), and change outputs of no value are change, too (`psbt_parser.py:1212`, `:1368`),
  so that they are signed unseen when none of the change has a value; with others that
  have, they are shown. Of several OP_RETURNs the last is kept (`:1330`), and an empty
  one is none (`psbt_views.py:1034`, `:1243`). An `AttributeError` for some malformed
  claims (`psbt_parser.py:1233`, `:1244`); a bare multisig input with an OP_RETURN output raises.
- Workflows: `sign_message_data` is not reset on the way home; "Sign message" from a seed's
  options, then scanning a seed, raises (`seed_views.py:2081`); so does choosing a seed
  after backing out of a message's first page (`:4916`).
- Cards: "Clone Complete" is the title also when secrets were passed over as unsupported;
  the screen has their number (`smartcard_views.py:1818`, `:1869`). The bias check counts an answer
  over the hard limit as an exception and not as slow (`satochip_signer.py:181`,
  `satochip_bias.py:117`).
- GPG: the cached admin PIN is not updated by the view that changes it
  (`gpg_views.py:3805`); a pending message survives Home and the auto-wipe; back at the
  passphrase prompt loses it (`:3471`); a signature by an unknown key is shown as
  "Invalid Signature" (`:604`, `:490`); key and fingerprint are two commands
  (`smartpgp_import.py:204`, `:250`).
- Rebuilding: `docs/gpg_tools.md:17` promises that a key is rebuilt from its record "when the
  original seed is available", with "the derivation scheme matching the firmware version",
  and that added subkeys "continue from the last subkey index". `RebuildsNumberedAlike` says when: not from an index other than 0
  (`gpg_views.py:1755`, `:5903`), not when it was derived under another scheme than is
  recorded, not with a set that was added behind an incomplete one, and not with a type that
  the list of algorithms lacks (`:1569`, a `KeyError`). Loading a key again forgets the
  subkeys that were recorded for it.
- Checksums: what gpg verified is read again to be checked, after screens under which the
  folder may change (`:4586`, `:4602`, `:4626`), and a file that is signed inside is verified
  as it is (`:4446`) and then read with the lines outside of its signature (`:4593`). No
  property relates the checksums to the signature.

## Proofs

Every theorem holds for every value of the constants that satisfies its hypotheses:
the assumptions of the modules, which TLC evaluates in the runs, or those defined in the
proof module and stated with the theorem (mostly that the value for "none" is not one of
the things, and that a bound is a number). None of them excludes a value the device can
have. Two theorems say less than the run that goes with it would allow one to hope, and
say so: those about toasts need a device without screensaver, because TLC refutes the
properties with it.

Each proof has the same shape: an invariant that implies the property and is kept by
every action, one lemma per action or group of actions, and a last temporal step. The
properties themselves are seldom inductive; what follows is what had to be added.

**The loop and the display**

- `NavigationProofs`: `TypeOK`, `NoRepeats`, `EndsWithCurrent` for any set of views.
  Together they are inductive (`NavInv`). The step that matters is entering a view
  that occurs in the history: the history is cut at its *first* occurrence, and
  because nothing occurs twice the rest does not contain it (`UnwoundIsHistory`).
  What a visit and a step back leave of a history is stated there once more as laws
  (an entry of the new history is an entry of the old one at the same place, or the view
  that was entered, at the end), which `SeedFlowProofs`, `PSBTProofs` and `FlowsProofs`
  instantiate for their own histories: all their invariants are about what may lie
  below what in it. The assumption that the main menu is not among the views is a
  hypothesis of these laws (`ViewsAssumption`), discharged there.
- `ControllerProofs`: `TypeOK`, `NoRepeats`, `TopIsCurrentView` and
  `SurvivesUntilWipe` for any views, any number of wipes, wherever they strike. The
  invariant `LoopInv` has a part for each place where the loop leaves off half-way:
  `Resolved` (a Destination without a view is on the stack only on the way to the
  main menu, where `Dispatch` empties it), `Unwinding` (from `list.index` to `append`,
  the destination is where the index says, and after the truncation nowhere: the
  only entry a wipe can add meanwhile is the main menu, which is excepted because
  going there empties the stack), `Unrepeated` (which therefore needs nothing when
  the loop goes to the main menu, and says that the wipe finds no main menu when it
  comes to append one), `Undisturbed` (before the first wipe, what the loop pops is
  there and the top of the stack is the view that runs) and `OwnTop` (at any time that view, or what a wipe
  appended, is on top of a stack that is not empty). Together with `TypeOK`
  they are inductive; `NoRepeats` alone is not, as the statements between two views
  would be free to do anything.
- `ControllerProofs!LoopImplementsNavigation`: the loop implements `Navigation`, for any
  views and wipes that meet a waiting screen (`~RacyWipe`; a wipe between two statements of
  the tail really breaks the history). The history variable follows the stack only when
  a view runs, so the invariant `HistInv` relates the two at each statement in between: it
  says which part of the history is still on the stack, what was popped or cut, and that the
  main menu was left out. With it a step of the loop's end is one of `Visit`, `GoBack` and
  `Forget`, and every other step a stutter.
- `RendererLockProofs!DrawingIsExclusive`: `DrawsAlone`. Exclusion is not
  inductive: that a toast which draws is alone follows from who holds the lock.
  The invariant `HolderInv` says of every thread at a statement where it draws that
  `lock` names it; each step preserves it, and two threads that draw would both be
  named.
- `RendererLockProofs!NoToastOutlivesItsThread` and `ScreenIsRestored`: `NoGhostToast` and
  `RestoresScreen` without the screensaver, for any number of toasts and activators.
  `ToastInv` adds that a toast is constructed and started once (`StartedOnce`), that
  nobody asks for the lock (`LockStays`), and that the toasts on the canvas are those
  whose threads hold it, with a copy of just the screen below (`KnowsWhatIsUnder`).

**Seeds**

- `SeedFlowProofs`: `TypeOK`, `EntryIsSound`, `PendingInFlow` and `StoredSeedsUsable` for any
  seeds, keys, kinds and lengths of a mnemonic, any number of wipes. The invariant
  `SeedInv` orders the views: every Destination has a `Level`, levels never fall from
  the bottom of the history to its top (`Climbs`), and so "back" from a menu never leads
  into an entry whose mnemonic is gone, or from a word to a pending seed that another
  workflow has taken. The rest says what each view in the history can rely on when it
  is met again: `WordsReady` (the words before the one a view enters), `PendingReady`
  (the pending seed is the one on screen, and the state that its view needs), `HeldReady`
  (the seed a view holds, which is never a stored one in the passphrase
  workflow) and `StoredOnce`. A discarded mnemonic has no words: the entry that may then come
  up is that of `EditWords` alone, because the first word's other entries lie on a menu,
  which sets up a mnemonic before (`FirstFrom`, `EntryFinds`). What is stored from a screen
  that a wipe left open may be None, and `StoredSeedsUsable` excepts it.
- `FlowsProofs!SharesAreTyped`, `SharesContinue`: `EntryContinues` and the types it rests on,
  for any backups and lengths of a share. The view of the first word lies below every
  other view of the entry, and a share is begun anew only by going to it, which cuts the
  history there; so no view of a share that is gone is left to lead into the new one.

**Transactions**

- `PSBTProofs`: `ReadingIsCurrent` and `SignedWasReviewed`, and the types, for any
  transactions, readings, keys, descriptors, wipes and `MaxOutputs`. `ReviewInv` says of
  every view that may lie in the history what was shown before it (`Reviewed`); what
  makes this inductive is `Ordered`: views of a review lie above an overview, and no
  view that prepares a review lies above one that belongs to it. A review is therefore
  never resumed in the reading of another transaction, key or descriptor. That local
  copies and the Controller agree unless a wipe struck is `Belongs`; `ByCard` is the same
  for the card's flag.
- `PSBTProofs!ShownChangeIsOurs`: `ChangeIsOurs` for any transactions, descriptors,
  account and lookahead. `ParserInv` says that the policy is that of the first input,
  that the places which count as reachable and the highest index are those of claims
  which are evidence (an input commits to the key, which is ours), and that each output
  shown as change passed its checks. From the checks of one claim follows that the key
  the output pays is at a place the wallet scans: the policy's type decides which
  script was rederived, and equal scripts have equal keys. A multisig
  policy names cosigners, which the keys of the output's own script come from, or the
  descriptor has derived that script.
  `TransactionsAssumption` has types only (paths are sequences of numbers). That the
  least index exists, and the greatest, is proved from the well-foundedness of the
  natural numbers. Stated and proved exactly: a key is compared by branch only if its
  claim lies two steps or more below the account, and by index only with a lookahead
  above 0, as in the code.
- `PSBTProofs!EveryInputIsSigned`: `InputsAreSigned`. `SignerInv` says of the input at
  hand which of its keys are still to be tried and what the answers so far are worth, and
  of the inputs behind it that they are done; the input that is skipped, drawn and
  failed are cases of one step.

**Cards** (`CardsProofs`)

- `BackupIsReal` and `KeysStayWithCards`: `DoneMeansBackedUp` and
  `KeysBelongToCards`. A key comes back from files and photographs, so every place it passes
  through has to keep it with its card: `KeysInv` says so of session, files, photographs
  and the open backup view.
- `WrongPinIsSentOnce` and `NoSilentReset`: after a silent try nothing is
  cached (`SilentInv`), so there is no second; every step that takes a PIN from a card is
  the end of a reset that is reported.
- `ImportsTrue`: `ImportIsTrue`. The card the import view was connected with has no seed
  while the view is open. A Keycard's secure channel reaches no other card; a Satochip
  may be another one by then, and refuses if it has a seed.
- `SnapshotLags`: `CacheLagsOnlyBySigning` is inductive with the types, for any cards and
  slots. `CloneComplete`: `CloneIsComplete`; `KeeperInv` says of a clone in progress which
  of the source's secrets the destination has and which were passed over, where several
  secrets may read the same.
- `CardsAreTyped`: `TypesOK` of `MCCards`, for its composed specification. One part moves
  and the others keep their variables (`PartMoves`), so the invariants of the parts
  hold together (`CardsInv`). Two types are not inductive: what is loaded from a
  card as a descriptor is one, or made of keys of one, because every secret reads as its
  type says (`ReadsAs`), on the cards and in a clone; the counters of the bias check
  pass their limits by one at most because the second try of a hash, which the
  loop's guard does not see, only follows an attempt that the guard let start
  (`TrialsTyped`).

**Workflows and GPG** (`FlowsProofs`)

- `NotFoundIsTrue`: `NoneMissed` for any batch and skips. A skip that
  falls between comparing and counting moves the counter under the index; `SearchInv`
  counts the address that is being compared among those tried, and the skipped ones
  against the addresses passed over.
- `KeyIsServed`: `ServesChosen` for any seeds, descriptors and messages, with no
  hypothesis. What was chosen is looked at views later; `WorkInv` says that the views which
  may not change it lie on top of the history with none but each other above them
  (`OnTop`, for the explorer's and the signing views), that the addresses in the
  explorer belong to what it was opened for (`AddressesAreExplored`) and that the address
  to confirm is the signer's (`AddressIsSigners`).
- `CodesAreTyped`, `OnlyAgreedIsDecrypted`: `DecryptsAgreed`. A code that looks
  encrypted is stored before anybody is asked. `OldIsOutOfReach` says that such a one
  is there only while no view that asks for a key is on screen or in the history;
  `ScannersFirst` (a scanner is at the bottom of the history) is why it can be kept.
- `MessagesAreTyped`, `MessageComesBack`: `ResumesWithMessage`. The views that load a key
  lie above the message they load it for (`Waypoints`), so one who has taken the message
  back is on none of them (`NobodyImports`).
- `RebuildsExactly`: `RebuildsNumberedAlike` for any seeds, keys, types and sizes, under the
  assumption that indexes are numbers. `RingInv` says of every subkey on record how it was
  derived: as one of the three of a set that was begun at some length of the list. The
  arithmetic is `NumbersAgree`: index and place in the list give the path that the
  number gives exactly at index 0, with the set whole (`start % 3 + t` below 3).

**Scans and cards for GPG** (`RecursionProofs`)

These actions loop over lists, and the library's induction principles cannot be used with
the installed provers, as their parameter is an operator. `Ind` states induction for a set
of numbers instead (from the well-foundedness of `<`: the least number outside the set has
a predecessor in it), and `Iterate` proves with it that a function defined by recursion
along a list exists, and so is what its recursive equation says. `ReduceByParts`,
`ProcessQueue`, `MovedWhole` and `SumOf` are written as such functions, and the elements at
some places of a list (`Those`) by their rank.

- `EveryUrIsSolved`, `ScanIsTyped`: `UrIsSolved` for any URs with any numbers of
  fragments, and any codes in any order, under `ScanAssumption` (URs have fragments; a code
  that is taken for a part of a UR is a mixture of some of its fragments). The invariant
  `ScanInv` says that what is known of a fragment is that fragment, that no mixed part is
  simple or holds one that is known, and that the UR is there as soon as all are. In the
  middle of a queue this is not so: `Solving` is what holds there, with the additional
  fact that all parts in the queue but the first are simple. `ReducedIs` is the algebra
  (the difference of a mixture and one within it is the mixture of the rest);
  `SimpleProcessed` and `MixedProcessed` are the two kinds of turns.
  That 100 % is shown of complete scans only needs numbers: a fragment that is not known
  counts for three quarters at most (`UnknownAddUp`).
- `QueueProcessed`: the loop over the queue ends. A turn takes a part from queue and
  mixed parts, or turns a mixed part into a simple or a stored one; `Weight` counts a mixed
  part at the head of the queue twice and falls with every turn (`ItemProcessed`), so
  that the turns `ProcessQueue` allows for are enough.
- `EverySlotFits`, `CardIsTyped`: `SlotsFit` for any subkeys, in any order and with any
  uses, and any failures, under `CardAssumption` (subkeys are a list, there are tries).
  `MovedFits` and `ImportedFits` say that each program names a slot the key fits, the one
  choosing slots that are free yet, the other the first that fits; `CardInv` says of an
  import by the second program that what is behind it is written under its own
  fingerprint (`Importing`: except, between the two commands, for the slot at hand).

Only model-checked: liveness (`WipeWakesScreens`, `ToastsEnd`, `LeavingEnds`), which the
prover cannot do under fairness; the types of `MCFlows` as it is composed, where those of
most components are proved; the four refuted properties. The refinement of
`Navigation` under wipes between two statements is not claimed.

## Not modelled

- Settings and MicroSD, the frame thread of the camera, key repeat and debouncing, the
  password generator and the entropy tools, battery and RNG monitors: planned, below.
- Display drivers, layout, wording, icons: I/O and presentation.
- Cryptography, key derivation, checksums of mnemonics, encodings (CBOR, bytewords,
  base43, BBQr's compression, SeedQR): computation on bytes without control; the modules
  take their outcome (valid, equal, of which key) as data.
- The external programs (gpg, pgpy, Java tools) and the firmware of cards: modelled by
  what the views rely on, marked external in the map.
- Start-up and hardening: run once, before the loop.
- Views that only read and show (card information, NDEF, key lists, backups of a seed
  as words or SeedQR) change nothing that another view reads.

## Plan

1. `AutoWipe`: `handle_wipe_timeout` against `SeedStorage` statement by statement
   (the loop over a list that the main thread shortens, `clear_pending_seed`'s test
   and use). Abstract specification: the wipe in one step, as in `SeedFlow`.
2. `Settings` with `MicroSD`: memory, file and card; refinement of a single
   persistent store with crashes and a card that is pulled.
3. `VideoStream`: stop against the frame thread, with a camera that fails.
4. `Buttons`: key repeat, debouncing, override and timeout.
5. The password generator and image entropy; battery and RNG monitors with their toasts.
6. A run's property about `JavaCards`, whose packages nothing but their types is said of yet.
