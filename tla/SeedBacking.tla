----------------------------- MODULE SeedBacking ----------------------------
(***************************************************************************)
(* SeedFlow with a user who, at some point of entering a mnemonic, has had *)
(* enough: from then on every answer is "back" where the screen offers it, *)
(* and the button that is left where it does not.                          *)
(***************************************************************************)
EXTENDS SeedFlow

VARIABLE leaving

WithBackButton ==
    {"LoadSeedView", "SeedsMenuView", "ToolsMenuView", "ToolsCalcFinalWordNumWordsView",
     "ToolsCalcFinalWordFinalizePromptView"}

GoesBack ==
    \/ EntryBack
    \/ cur.view \in WithBackButton /\ KeepsAll /\ UNCHANGED wipes /\ Back
    \/ StartElectrum \/ StartAezeed                     \* their only button
    \/ InvalidMnemonic /\ cur' = Home                   \* "Discard"

Leave == leaving /\ GoesBack /\ leaving' = (cur' # Home)

BNext ==
    \/ ~leaving /\ Next /\ UNCHANGED leaving
    \/ /\ ~leaving /\ cur.view = "SeedMnemonicEntryView"
       /\ leaving' = TRUE /\ UNCHANGED vars
    \/ Leave

BInit == Init /\ leaving = FALSE

(* The screens wait for keys without an end; the user presses one.         *)
BSpec == BInit /\ [][BNext]_<<vars, leaving>> /\ WF_<<vars, leaving>>(Leave)

(* Whoever keeps pressing "back" during word entry gets to the main menu,   *)
(* whichever detours over word review or word calculation came before.     *)
LeavingEnds == leaving ~> ~leaving
=============================================================================
