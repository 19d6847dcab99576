----------------------------- MODULE Controller -----------------------------
(***************************************************************************)
(* The Controller's main loop (Controller.start), its back stack and its   *)
(* session attributes, and the wipe timer thread that runs                 *)
(* handle_wipe_timeout concurrently with it.  Nothing in the code locks    *)
(* these attributes, so each statement of one thread that reads or writes  *)
(* the back stack may fall between any two of the other.                   *)
(*                                                                         *)
(* A View is modelled by what the loop sees of it: it may wait for a key,  *)
(* store session attributes, raise, and return any Destination that the    *)
(* views of the repository return.                                         *)
(***************************************************************************)
EXTENDS Naturals, Sequences

CONSTANTS
    Views,              \* destinations (view class and arguments) but Home
    ErrorView,          \* UnhandledExceptionView
    SmartcardMenu,      \* ToolsSmartcardMenuView
    StartupViews,       \* may be dispatched before the main menu ever was
    IgnoresOverride,    \* views whose Screen keeps waiting after an override
    Tracked,            \* the session attributes a run keeps track of
    CachesCardPin,      \* SETTING__CACHE_SCARD_PIN = "E"
    RacyWipe,           \* may a wipe meet the main thread outside wait_for?
    MaxWipes            \* bound: wipes in one behaviour

Home == "MainMenuView"
Back == "BackStackView"
None == "None"          \* Destination(None)

ASSUME ControllerAssumption ==
    /\ {Home, Back, None} \cap Views = {}
    /\ ErrorView \in Views /\ SmartcardMenu \in Views
    /\ StartupViews \subseteq Views
    /\ IgnoresOverride \subseteq Views \cup {Home}
    /\ CachesCardPin \in BOOLEAN /\ RacyWipe \in BOOLEAN
    /\ MaxWipes \in Nat

VARIABLES
    mpc,        \* where the main thread is in Controller.start
    cur,        \* the view that was dispatched last
    next,       \* next_destination
    clearH,     \* the local clear_history
    unwind,     \* the local unwind_index, counted from 1; 0 is None
    stack,      \* back_stack: the view, and whether its Destination ever ran
    attr,       \* the session attributes: absent or held
    override,   \* HardwareButtons.override_ind
    autoWiped,  \* Controller.auto_wiped
    wpc,        \* where the wipe timer thread is in handle_wipe_timeout
    wipes       \* how many wipes were started

stackVars == <<stack, next, clearH, unwind>>
wipeVars  == <<wpc, wipes>>
vars == <<mpc, cur, next, clearH, unwind, stack, attr, override, autoWiped, wpc, wipes>>

-----------------------------------------------------------------------------
(* Session attributes.                                                     *)

(* What the loop resets whenever it dispatches the main menu.               *)
HomeResets ==
    {"resume_main_flow", "unverified_address", "address_explorer_data",
     "psbt", "psbt_parser", "psbt_seed", "psbt_sign_with_satochip",
     "sign_message_with_satochip", "image_entropy_preview_frames",
     "image_entropy_final_image", "password_generator_entropy_cache",
     "GPG_Admin_PIN", "satodime_slot_cache"}
    \cup (IF CachesCardPin THEN {}
          ELSE {"Satochip_PIN", "Satochip_Last_UID_SHA1", "Satochip_Connector",
                "Satodime_unlock_secrets", "Satodime_unlock_nicknames"})

(* What MainMenuView.run resets once it runs.                               *)
MenuResets == {"psbt_from_microsd", "psbt_microsd_save_path",
               "psbt_microsd_seed_warning_shown", "pending_slip39_shares"}

(* What handle_wipe_timeout resets.                                         *)
WipeResets ==
    {"encryptedqr", "password_generator_entropy_cache",
     "psbt", "psbt_parser", "psbt_seed", "psbt_sign_with_satochip",
     "sign_message_with_satochip", "multisig_wallet_descriptor",
     "unverified_address", "address_explorer_data", "sign_message_data",
     "resume_main_flow", "Satochip_PIN", "Satochip_Last_UID_SHA1",
     "Satochip_Connector", "Satodime_unlock_secrets",
     "Satodime_unlock_nicknames", "satodime_slot_cache", "GPG_Admin_PIN",
     "image_entropy_preview_frames", "image_entropy_final_image"}

ResetByDeleting(fields) == [f \in Tracked \ fields |-> attr[f]]
Reset(fields) == [f \in Tracked |-> IF f \in fields THEN "absent" ELSE attr[f]]

-----------------------------------------------------------------------------
(* Destinations a view may return.                                         *)
Destination(v, skip, clear) == [view |-> v, skip |-> skip, clear |-> clear]

Destinations == [view : Views \cup {Home, Back, None}, skip : BOOLEAN, clear : BOOLEAN]

(* The main menu forwards without options; the views that may come first,   *)
(* RemoveMicroSDWarningView and the error view of a failed startup, never  *)
(* ask to be skipped; "back" never clears the history.                     *)
Returnable(d) ==
    /\ d.view # None
    /\ cur = Home => ~d.skip /\ ~d.clear /\ d.view # Back
    /\ cur \in StartupViews => ~d.skip
    /\ d.view = Back => ~d.clear

Entry(v) == [view |-> v, ran |-> TRUE]
UnrunEntry(v) == [view |-> v, ran |-> FALSE]
WithoutLast(s) == SubSeq(s, 1, Len(s) - 1)

MainPcs == {"dispatch", "menu", "view", "wait", "returned", "back1", "pop1",
            "back2", "pop2", "clear", "index", "truncate", "append",
            "exited", "crashed"}
Running == {"menu", "view", "wait"}
WipePcs == {"idle", "reset", "clear_stack", "append_home", "flag", "toast", "override"}

Init ==
    /\ mpc = "dispatch" /\ cur \in {Home} \cup StartupViews
    /\ next = Destination(cur, FALSE, FALSE)
    /\ clearH = FALSE /\ unwind = 0 /\ stack = <<>>
    /\ attr = [f \in Tracked |-> "absent"]
    /\ override = FALSE /\ autoWiped = FALSE
    /\ wpc = "idle" /\ wipes = 0

-----------------------------------------------------------------------------
(* The main thread.                                                        *)

(* The top of the loop: Home empties the stack and resets the attributes;   *)
(* the smartcard menu ends an applet session.                              *)
Dispatch ==
    /\ mpc = "dispatch"
    /\ LET v == IF next.view = None THEN Home ELSE next.view
       IN  /\ cur' = v
           /\ IF v = Home
              THEN stack' = <<>> /\ attr' = Reset(HomeResets) /\ mpc' = "menu"
              ELSE /\ attr' = Reset(IF v = SmartcardMenu THEN {"satodime_slot_cache"} ELSE {})
                   /\ UNCHANGED stack /\ mpc' = "view"
    /\ UNCHANGED <<next, clearH, unwind, override, autoWiped, wipeVars>>

(* MainMenuView.run up to its screen.  The InfoToast it constructs after an *)
(* auto-wipe raises override_ind.                                          *)
EnterMainMenu ==
    /\ mpc = "menu"
    /\ attr' = Reset(MenuResets)
    /\ autoWiped' = FALSE
    /\ override' = (override \/ autoWiped)
    /\ mpc' = "view"
    /\ UNCHANGED <<cur, stackVars, wipeVars>>

(* A Screen's loop calls HardwareButtons.wait_for, which first drops any    *)
(* override that was raised since the previous call.                       *)
WaitForInput ==
    /\ mpc = "view"
    /\ override' = FALSE /\ mpc' = "wait"
    /\ UNCHANGED <<cur, stackVars, attr, autoWiped, wipeVars>>

(* wait_for returns a key: the screen continues with it.                    *)
KeyPressed ==
    /\ mpc = "wait"
    /\ mpc' = "view"
    /\ UNCHANGED <<cur, stackVars, attr, override, autoWiped, wipeVars>>

(* wait_for returns OVERRIDE.  Most screens know no such key and wait again;*)
(* the others end and let their view go on.                                *)
OverrideSeen ==
    /\ mpc = "wait" /\ override
    /\ override' = FALSE
    /\ mpc' = IF cur \in IgnoresOverride THEN "wait" ELSE "view"
    /\ UNCHANGED <<cur, stackVars, attr, autoWiped, wipeVars>>

(* The view the screensaver check asks, or None: reading .view of a         *)
(* Destination that never ran raises AttributeError.                       *)
ActiveView ==
    IF stack = <<>> THEN Home
    ELSE IF stack[Len(stack)].ran THEN stack[Len(stack)].view ELSE None

Raised == Destination(ErrorView, FALSE, TRUE)

(* The screensaver comes due in wait_for, and is_screensaver_start_allowed  *)
(* finds no view to ask.  (When it finds one, wait_for goes on waiting,    *)
(* after the screensaver or without it.)                                   *)
ScreensaverCheckFails ==
    /\ mpc = "wait" /\ ActiveView = None
    /\ next' = Raised /\ mpc' = "returned"
    /\ UNCHANGED <<cur, clearH, unwind, stack, attr, override, autoWiped, wipeVars>>

(* The running view stores a session attribute.                            *)
StoreAttribute(f) ==
    /\ mpc = "view" /\ cur # Home
    /\ attr' = [attr EXCEPT ![f] = "held"]
    /\ UNCHANGED <<mpc, cur, stackVars, override, autoWiped, wipeVars>>

ViewReturns(d) ==
    /\ mpc = "view" /\ Returnable(d)
    /\ next' = d /\ mpc' = "returned"
    /\ UNCHANGED <<cur, clearH, unwind, stack, attr, override, autoWiped, wipeVars>>

(* Any exception but those that mean to leave the loop.                     *)
ViewRaises ==
    /\ mpc = "view"
    /\ next' = Raised /\ mpc' = "returned"
    /\ UNCHANGED <<cur, clearH, unwind, stack, attr, override, autoWiped, wipeVars>>

(* PowerOffView and Ctrl-C leave the loop.                                  *)
ViewExits ==
    /\ mpc = "view"
    /\ mpc' = "exited"
    /\ UNCHANGED <<cur, stackVars, attr, override, autoWiped, wipeVars>>

(* skip_current_view, then clear_history is saved.  The pop is outside the  *)
(* loop's try statement: an IndexError here ends the program.              *)
AfterRun ==
    /\ mpc = "returned"
    /\ IF next.skip /\ stack = <<>>
       THEN mpc' = "crashed" /\ UNCHANGED <<stack, clearH>>
       ELSE /\ stack' = IF next.skip THEN WithoutLast(stack) ELSE stack
            /\ clearH' = next.clear
            /\ mpc' = IF next.view = Back THEN "back1" ELSE "clear"
    /\ UNCHANGED <<cur, next, unwind, attr, override, autoWiped, wipeVars>>

(* pop_prev_from_back_stack: each length test and the pop it guards are two *)
(* statements.                                                             *)
PopUntested(at, pop) ==
    /\ mpc = at /\ mpc' = pop
    /\ UNCHANGED <<cur, stackVars, attr, override, autoWiped, wipeVars>>

TestStack(at, pop) ==
    /\ mpc = at
    /\ IF stack = <<>>
       THEN next' = Destination(None, FALSE, FALSE) /\ mpc' = "clear"
       ELSE UNCHANGED next /\ mpc' = pop
    /\ UNCHANGED <<cur, clearH, unwind, stack, attr, override, autoWiped, wipeVars>>

PopCurrent ==
    /\ mpc = "pop1"
    /\ IF stack = <<>>
       THEN mpc' = "crashed" /\ UNCHANGED stack
       ELSE mpc' = "back2" /\ stack' = WithoutLast(stack)
    /\ UNCHANGED <<cur, next, clearH, unwind, attr, override, autoWiped, wipeVars>>

PopPrevious ==
    /\ mpc = "pop2"
    /\ IF stack = <<>>
       THEN mpc' = "crashed" /\ UNCHANGED <<stack, next>>
       ELSE /\ next' = Destination(stack[Len(stack)].view, FALSE, FALSE)
            /\ stack' = WithoutLast(stack) /\ mpc' = "clear"
    /\ UNCHANGED <<cur, clearH, unwind, attr, override, autoWiped, wipeVars>>

ApplyClearHistory ==
    /\ mpc = "clear"
    /\ stack' = IF clearH THEN <<>> ELSE stack
    /\ mpc' = "index"
    /\ UNCHANGED <<cur, next, clearH, unwind, attr, override, autoWiped, wipeVars>>

(* list.index: the first entry equal to the destination.                   *)
Occurrences == {i \in DOMAIN stack : stack[i].view = next.view}

FindDestination ==
    /\ mpc = "index"
    /\ unwind' = IF Occurrences = {} THEN 0
                 ELSE CHOOSE i \in Occurrences : \A j \in Occurrences : i <= j
    /\ mpc' = "truncate"
    /\ UNCHANGED <<cur, next, clearH, stack, attr, override, autoWiped, wipeVars>>

(* del back_stack[unwind_index:] of a stack that may be shorter by now.     *)
KeepsFound(s, i) == IF i = 0 \/ i > Len(s) THEN s ELSE SubSeq(s, 1, i)
Truncated(s, i) == IF i = 0 \/ i > Len(s) THEN s ELSE SubSeq(s, 1, i - 1)

UnwindStack ==
    /\ mpc = "truncate"
    /\ stack' = Truncated(stack, unwind)
    /\ unwind' = 0 /\ mpc' = "append"
    /\ UNCHANGED <<cur, next, clearH, attr, override, autoWiped, wipeVars>>

(* The entry appended is run by the Dispatch that follows.                 *)
AppendThenClear ==
    /\ mpc = "append"
    /\ stack' = IF clearH THEN <<>> ELSE Append(stack, Entry(next.view))
    /\ clearH' = FALSE /\ mpc' = "dispatch"
    /\ UNCHANGED <<cur, next, unwind, attr, override, autoWiped, wipeVars>>

AppendDestination ==
    /\ mpc = "append"
    /\ stack' = Append(stack, Entry(next.view))
    /\ clearH' = FALSE /\ mpc' = "dispatch"
    /\ UNCHANGED <<cur, next, unwind, attr, override, autoWiped, wipeVars>>

LoopStep ==
    \/ Dispatch \/ EnterMainMenu
    \/ AfterRun \/ TestStack("back1", "pop1") \/ PopCurrent
    \/ TestStack("back2", "pop2") \/ PopPrevious
    \/ ApplyClearHistory \/ FindDestination \/ UnwindStack \/ AppendDestination

(* What the view on screen does by itself.                                 *)
ViewStep ==
    \/ WaitForInput \/ OverrideSeen \/ ScreensaverCheckFails
    \/ \E d \in Destinations : ViewReturns(d)
    \/ ViewRaises \/ ViewExits

-----------------------------------------------------------------------------
(* The wipe timer thread: handle_wipe_timeout, in the order of the code.    *)
(* The seeds it wipes first are modelled in SeedFlow.tla.                   *)

WipeMayRun == RacyWipe \/ mpc = "wait"

WipeStep(from, to) ==
    /\ wpc = from /\ wpc' = to
    /\ WipeMayRun
    /\ UNCHANGED <<mpc, cur, next, clearH, unwind>>

(* No input for longer than the wipe timer.                                *)
WipeTimeout ==
    /\ mpc \notin {"exited", "crashed"}
    /\ wipes < MaxWipes
    /\ WipeStep("idle", "reset")
    /\ wipes' = wipes + 1
    /\ UNCHANGED <<stack, attr, override, autoWiped>>

(* The assignments of None, all of them: which of them another thread has   *)
(* seen makes no difference to the properties below.  gpg_pending_message,  *)
(* psbt_source_time, the JavaCard keys and what only the main menu resets   *)
(* are not among them.                                                     *)
WipeAttributes ==
    /\ WipeStep("reset", "clear_stack")
    /\ attr' = Reset(WipeResets)
    /\ UNCHANGED <<stack, override, autoWiped, wipes>>

WipeClearStack ==
    /\ WipeStep("clear_stack", "append_home")
    /\ stack' = <<>>
    /\ UNCHANGED <<attr, override, autoWiped, wipes>>

WipeAppendHome ==
    /\ WipeStep("append_home", "flag")
    /\ stack' = Append(stack, UnrunEntry(Home))
    /\ UNCHANGED <<attr, override, autoWiped, wipes>>

WipeSetFlag ==
    /\ WipeStep("flag", "toast")
    /\ autoWiped' = TRUE
    /\ UNCHANGED <<stack, attr, override, wipes>>

(* Constructing the InfoToast raises override_ind, as trigger_override does *)
(* after it.                                                               *)
WipeOnlyToasts ==
    /\ wpc \in {"toast", "override"}
    /\ WipeStep(wpc, IF wpc = "toast" THEN "override" ELSE "idle")
    /\ override' = (override \/ wpc = "toast")
    /\ UNCHANGED <<stack, attr, autoWiped, wipes>>

WipeNotify ==
    /\ \/ WipeStep("toast", "override")
       \/ WipeStep("override", "idle")
    /\ override' = TRUE
    /\ UNCHANGED <<stack, attr, autoWiped, wipes>>

WipeThread ==
    \/ WipeTimeout \/ WipeAttributes \/ WipeClearStack \/ WipeAppendHome
    \/ WipeSetFlag \/ WipeNotify

-----------------------------------------------------------------------------
Next ==
    \/ LoopStep \/ ViewStep \/ KeyPressed
    \/ \E f \in Tracked : StoreAttribute(f)
    \/ WipeThread

Spec == Init /\ [][Next]_vars

(* The threads are scheduled; the user need not press a key, nor need the   *)
(* wipe timer ever run out.                                                *)
FairSpec ==
    /\ Spec
    /\ WF_vars(LoopStep)
    /\ WF_vars(WaitForInput \/ OverrideSeen)
    /\ WF_vars(WipeThread /\ wpc # "idle")

-----------------------------------------------------------------------------
(* The type invariant.                                                     *)
TypeOK ==
    /\ mpc \in MainPcs /\ cur \in Views \cup {Home}
    /\ next \in Destinations /\ clearH \in BOOLEAN /\ unwind \in Nat
    /\ stack \in Seq([view : Views \cup {Home, None}, ran : BOOLEAN])
    /\ attr \in [Tracked -> {"absent", "held"}]
    /\ override \in BOOLEAN /\ autoWiped \in BOOLEAN
    /\ wpc \in WipePcs /\ wipes \in 0..MaxWipes

(* "Confusingly, the top item in the BackStack is actually the *current*    *)
(* View": whenever the screensaver check may look at the stack, it finds    *)
(* the view on screen there; only the main menu and a startup view have an  *)
(* empty stack.  After an auto-wipe, whichever statements of the loop it    *)
(* fell between, the stack may be empty or end in the Destination the wipe  *)
(* appended and that never ran (see ScreensaverCheckFails), but still no    *)
(* other view than the one on screen is asked, nor any other Destination    *)
(* that never ran.                                                         *)
TopIsCurrentView ==
    mpc = "wait" =>
        \/ stack # <<>> /\ ActiveView = cur
        \/ stack = <<>> /\ cur \in {Home} \cup StartupViews
        \/ wipes > 0 /\ (stack = <<>> \/ stack[Len(stack)] = UnrunEntry(Home))

(* Nothing ends the program from the tail of the loop, where no exception   *)
(* is caught ...                                                           *)
LoopSurvives == mpc # "crashed"

(* ... and until the first auto-wipe nothing does, whatever the views       *)
(* return: every pop of the stack finds something to pop.                  *)
SurvivesUntilWipe == wipes = 0 => LoopSurvives

(* No destination is on the stack twice while a view runs, whatever the     *)
(* views return and whenever a wipe replaces the stack.                    *)
NoRepeats ==
    mpc \in Running =>
        \A i, j \in DOMAIN stack : stack[i].view = stack[j].view => i = j

(* A screen that gives way to an override and waits for a key while the     *)
(* wipe thread comes to trigger_override does not go on waiting.           *)
WipeWakesScreens ==
    (wpc = "override" /\ mpc = "wait" /\ cur \notin IgnoresOverride) ~> (mpc # "wait")

(* "Return to main menu" and "Ensure any running screens break out of wait  *)
(* loops" (handle_wipe_timeout): after a wipe the main menu comes up, where *)
(* auto_wiped is taken back.                                               *)
WipeReturnsToMenu == autoWiped ~> (~autoWiped \/ mpc \in {"exited", "crashed"})
=============================================================================
