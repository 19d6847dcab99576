---------------------------- MODULE RendererLock ----------------------------
(***************************************************************************)
(* Who may draw: Renderer.lock and the protocol by which the main thread's *)
(* Screens, the screensaver (which runs on the main thread, inside         *)
(* HardwareButtons.wait_for) and the toast manager threads hand it to each *)
(* other, with the threads that activate toasts: the wipe timer, the       *)
(* MicroSD listener and the main menu.                                     *)
(*                                                                         *)
(* The canvas is abstracted to which screen is drawn on it and which       *)
(* toasts lie over that.  A key press is whatever the thread that polls    *)
(* the pins makes of it: each poller may see it or miss it.                *)
(***************************************************************************)
EXTENDS Naturals, FiniteSets

CONSTANTS
    Toasts,         \* toast manager threads, used once each
    Activators,     \* threads that call Controller.activate_toast
    Screens,        \* what a Screen may draw
    SaverAllowed    \* does the active view allow the screensaver?

Main == "main"
Free == "free"
Nothing == "nothing"

ASSUME RendererLockAssumption ==
    /\ {Main, Free, Nothing} \cap Toasts = {}
    /\ SaverAllowed \in BOOLEAN

VARIABLES
    lock,           \* the holder of Renderer.lock, or Free
    canvas,         \* Renderer.canvas
    override,       \* HardwareButtons.override_ind
    mpc,            \* the main thread
    saverOn,        \* ScreensaverScreen._is_running
    lastScreen,     \* ScreensaverScreen.last_screen
    tpc,            \* the toast threads
    keep,           \* BaseThread.keep_running of each
    toggle,         \* _toggle_renderer_lock of each
    expired,        \* has its duration run out?
    shown,          \* has_rendered of each
    saved,          \* previous_screen_state of each, once it is shown
    current,        \* Controller.toast_notification_thread
    apc,            \* the activators
    activating      \* the toast each of them activates

mainVars  == <<mpc, saverOn, lastScreen>>
toastVars == <<tpc, keep, toggle, expired, shown, saved>>
actVars   == <<current, apc, activating>>
vars == <<lock, canvas, override, mainVars, toastVars, actVars>>

Canvases == [screen : Screens, toasts : SUBSET Toasts]
MainPcs == {"draw", "drawing", "wait", "saver_toggle", "saver_copy",
            "saver_acquire", "saver_loop", "saver_restore"}
ToastPcs == {"new", "delay", "acquire", "check", "toggle", "handoff",
             "reacquire", "render", "expiry", "restore", "done"}
ActivatorPcs == {"idle", "saver", "stop", "set", "start"}

Alive(t) == tpc[t] \notin {"new", "done"}

Init ==
    /\ lock = Free /\ override = FALSE
    /\ canvas \in [screen : Screens, toasts : {{}}]
    /\ mpc = "draw" /\ saverOn = FALSE /\ lastScreen = canvas
    /\ tpc = [t \in Toasts |-> "new"]
    /\ keep = [t \in Toasts |-> FALSE]
    /\ toggle = [t \in Toasts |-> FALSE]
    /\ expired = [t \in Toasts |-> FALSE]
    /\ shown = [t \in Toasts |-> FALSE]
    /\ saved = [t \in Toasts |-> canvas]
    /\ current = Nothing
    /\ apc = [a \in Activators |-> "idle"]
    /\ activating = [a \in Activators |-> Nothing]

-----------------------------------------------------------------------------
(* The main thread: Screens.                                               *)

MainStep(from, to) == mpc = from /\ mpc' = to /\ UNCHANGED <<toastVars, actVars>>

(* "with self.renderer.lock", from BaseScreen.display or a Screen's loop.   *)
BeginDraw ==
    /\ MainStep("draw", "drawing")
    /\ Main \in Activators => apc[Main] = "idle"
    /\ lock = Free /\ lock' = Main
    /\ UNCHANGED <<canvas, override, saverOn, lastScreen>>

(* A whole Screen is drawn over a cleared canvas; a key changes a part of   *)
(* one.  Then the loop enters wait_for, which drops any earlier override.   *)
EndDraw ==
    /\ MainStep("drawing", "wait")
    /\ \E s \in Screens, toasts \in {{}, canvas.toasts} :
           canvas' = [screen |-> s, toasts |-> toasts]
    /\ lock' = Free /\ override' = FALSE
    /\ UNCHANGED <<saverOn, lastScreen>>

(* wait_for returns a key, or OVERRIDE: either way a Screen draws next.     *)
Pressed ==
    /\ MainStep("wait", "draw")
    /\ UNCHANGED <<lock, canvas, override, saverOn, lastScreen>>

OverrideSeen ==
    /\ MainStep("wait", "draw")
    /\ override /\ override' = FALSE
    /\ UNCHANGED <<lock, canvas, saverOn, lastScreen>>

(* The screensaver comes due: Controller.start_screensaver.                 *)
SaverDue ==
    /\ MainStep("wait", "saver_toggle")
    /\ SaverAllowed /\ ~saverOn
    /\ UNCHANGED <<lock, canvas, override, saverOn, lastScreen>>

SaverTogglesToast ==
    /\ mpc = "saver_toggle" /\ mpc' = "saver_copy"
    /\ toggle' = IF current # Nothing /\ Alive(current)
                 THEN [toggle EXCEPT ![current] = TRUE] ELSE toggle
    /\ UNCHANGED <<lock, canvas, override, saverOn, lastScreen,
                   tpc, keep, expired, shown, saved, actVars>>

(* The screen to restore is copied before the lock is held.                 *)
SaverCopiesScreen ==
    /\ MainStep("saver_copy", "saver_acquire")
    /\ saverOn' = TRUE /\ lastScreen' = canvas
    /\ UNCHANGED <<lock, canvas, override>>

SaverAcquires ==
    /\ MainStep("saver_acquire", "saver_loop")
    /\ lock = Free /\ lock' = Main
    /\ UNCHANGED <<canvas, override, saverOn, lastScreen>>

SaverSeesInput ==
    /\ MainStep("saver_loop", "saver_restore")
    /\ UNCHANGED <<lock, canvas, override, saverOn, lastScreen>>

SaverStopped ==
    /\ override \/ ~saverOn
    /\ SaverSeesInput

SaverRestores ==
    /\ MainStep("saver_restore", "wait")
    /\ saverOn' = FALSE
    /\ canvas' = lastScreen
    /\ lock' = Free
    /\ UNCHANGED <<override, lastScreen>>

MainThread ==
    \/ BeginDraw \/ EndDraw \/ OverrideSeen
    \/ SaverTogglesToast \/ SaverCopiesScreen \/ SaverAcquires
    \/ SaverStopped \/ SaverRestores

-----------------------------------------------------------------------------
(* A toast thread: BaseToastOverlayManagerThread.run.                       *)

ToastStep(t, from, to) ==
    /\ tpc[t] = from
    /\ tpc' = [tpc EXCEPT ![t] = to]
    /\ UNCHANGED <<override, mainVars, keep, actVars>>

CopiesBeforeLock(t) ==
    /\ ToastStep(t, "delay", "acquire")
    /\ saved' = [saved EXCEPT ![t] = canvas]
    /\ shown' = [shown EXCEPT ![t] = TRUE]
    /\ UNCHANGED <<lock, canvas, toggle, expired>>

(* The activation delay, which a key press cancels and stop() does not.     *)
DelayOver(t) ==
    /\ ToastStep(t, "delay", "acquire")
    /\ UNCHANGED <<lock, canvas, toggle, expired, shown, saved>>

DelayCancelled(t) ==
    /\ ToastStep(t, "delay", "done")
    /\ UNCHANGED <<lock, canvas, toggle, expired, shown, saved>>

ToastAcquires(t) ==
    /\ \/ ToastStep(t, "acquire", "check")
       \/ ToastStep(t, "reacquire", "render")
    /\ lock = Free /\ lock' = t
    /\ UNCHANGED <<canvas, toggle, expired, shown, saved>>

(* The loop's condition, and the break on a key press.                      *)
ToastChecks(t) ==
    /\ IF keep[t] THEN ToastStep(t, "check", "toggle") ELSE ToastStep(t, "check", "restore")
    /\ UNCHANGED <<lock, canvas, toggle, expired, shown, saved>>

ToastInterrupted(t) ==
    /\ keep[t] /\ ToastStep(t, "check", "restore")
    /\ UNCHANGED <<lock, canvas, toggle, expired, shown, saved>>

GivesUpLockAndRenders(t) ==
    /\ ToastStep(t, "toggle", "render")
    /\ lock' = IF toggle[t] THEN Free ELSE lock
    /\ toggle' = [toggle EXCEPT ![t] = FALSE]
    /\ UNCHANGED <<canvas, expired, shown, saved>>

(* The controller asked for the lock: give it up, wait until somebody has   *)
(* it, then queue for it again.                                            *)
ToastGivesUpLock(t) ==
    /\ IF toggle[t]
       THEN ToastStep(t, "toggle", "handoff") /\ lock' = Free
       ELSE ToastStep(t, "toggle", "render") /\ UNCHANGED lock
    /\ toggle' = [toggle EXCEPT ![t] = FALSE]
    /\ UNCHANGED <<canvas, expired, shown, saved>>

ToastSeesLockTaken(t) ==
    /\ ToastStep(t, "handoff", "reacquire")
    /\ lock # Free
    /\ UNCHANGED <<lock, canvas, toggle, expired, shown, saved>>

ToastRenders(t) ==
    /\ ToastStep(t, "render", "expiry")
    /\ IF ~shown[t]
       THEN /\ saved' = [saved EXCEPT ![t] = canvas]
            /\ canvas' = [canvas EXCEPT !.toasts = @ \cup {t}]
       ELSE UNCHANGED <<saved, canvas>>
    /\ shown' = [shown EXCEPT ![t] = TRUE]
    /\ UNCHANGED <<lock, toggle, expired>>

DurationOver(t) ==
    /\ Alive(t) /\ ~expired[t]
    /\ expired' = [expired EXCEPT ![t] = TRUE]
    /\ UNCHANGED <<lock, canvas, override, mainVars, tpc, keep, toggle, shown, saved, actVars>>

StaysForever(t) ==
    /\ ToastStep(t, "expiry", "check")
    /\ UNCHANGED <<lock, canvas, toggle, expired, shown, saved>>

ToastTestsDuration(t) ==
    /\ IF expired[t] THEN ToastStep(t, "expiry", "restore") ELSE ToastStep(t, "expiry", "check")
    /\ UNCHANGED <<lock, canvas, toggle, expired, shown, saved>>

RestoresUnlessStopped(t) ==
    /\ ToastStep(t, "restore", "done")
    /\ canvas' = IF shown[t] /\ keep[t] THEN saved[t] ELSE canvas
    /\ lock' = Free
    /\ UNCHANGED <<toggle, expired, shown, saved>>

(* The finally clause: put back what was under the toast, if it was shown,  *)
(* and release the lock.                                                   *)
ToastRestores(t) ==
    /\ ToastStep(t, "restore", "done")
    /\ canvas' = IF shown[t] THEN saved[t] ELSE canvas
    /\ lock' = Free
    /\ UNCHANGED <<toggle, expired, shown, saved>>

ToastThread(t) ==
    \/ DelayOver(t) \/ ToastAcquires(t) \/ ToastChecks(t)
    \/ ToastGivesUpLock(t) \/ ToastSeesLockTaken(t) \/ ToastRenders(t)
    \/ ToastTestsDuration(t) \/ ToastRestores(t)

-----------------------------------------------------------------------------
(* A thread that activates a toast: the constructor, then activate_toast.   *)

ActivatorStep(a, from, to) ==
    /\ apc[a] = from
    /\ apc' = [apc EXCEPT ![a] = to]
    /\ a = Main => mpc = "draw"
    /\ UNCHANGED <<lock, canvas, mpc, lastScreen, tpc, toggle, expired, shown, saved>>

(* "Special case when screensaver is running": the constructor raises the   *)
(* override.                                                               *)
ConstructToast(a, t) ==
    /\ tpc[t] = "new" /\ t \notin {activating[b] : b \in Activators}
    /\ ActivatorStep(a, "idle", "saver")
    /\ activating' = [activating EXCEPT ![a] = t]
    /\ override' = TRUE
    /\ UNCHANGED <<saverOn, keep, current>>

StopScreensaver(a) ==
    /\ ActivatorStep(a, "saver", "stop")
    /\ saverOn' = FALSE
    /\ UNCHANGED <<override, keep, current, activating>>

StopOldToast(a) ==
    /\ ActivatorStep(a, "stop", "set")
    /\ keep' = IF current # Nothing /\ Alive(current)
               THEN [keep EXCEPT ![current] = FALSE] ELSE keep
    /\ UNCHANGED <<override, saverOn, current, activating>>

SetToast(a) ==
    /\ ActivatorStep(a, "set", "start")
    /\ current' = activating[a]
    /\ UNCHANGED <<override, saverOn, keep, activating>>

(* Thread.start; handle_wipe_timeout calls trigger_override after it.       *)
StartToast(a) ==
    /\ apc[a] = "start"
    /\ apc' = [apc EXCEPT ![a] = "idle"]
    /\ a = Main => mpc = "draw"
    /\ LET t == activating[a]
       IN  /\ keep' = [keep EXCEPT ![t] = TRUE]
           /\ tpc' = [tpc EXCEPT ![t] = "delay"]
    /\ activating' = [activating EXCEPT ![a] = Nothing]
    /\ override' \in {override, TRUE}
    /\ UNCHANGED <<lock, canvas, mainVars, toggle, expired, shown, saved, current>>

ActivateToast(a) ==
    StopScreensaver(a) \/ StopOldToast(a) \/ SetToast(a) \/ StartToast(a)

-----------------------------------------------------------------------------
(* The user, who need not do anything.                                      *)
User == Pressed \/ SaverSeesInput
           \/ \E t \in Toasts : DelayCancelled(t) \/ ToastInterrupted(t)

Next ==
    \/ MainThread \/ SaverDue \/ User
    \/ \E t \in Toasts : ToastThread(t) \/ DurationOver(t)
    \/ \E a \in Activators :
           ActivateToast(a) \/ \E t \in Toasts : ConstructToast(a, t)

Spec == Init /\ [][Next]_vars

(* Every thread is scheduled, every duration runs out; nobody has to press  *)
(* a key, and no toast has to be activated.                                *)
FairSpec ==
    /\ Spec
    /\ WF_vars(MainThread)
    /\ \A t \in Toasts : WF_vars(ToastThread(t)) /\ WF_vars(DurationOver(t))
    /\ \A a \in Activators : WF_vars(ActivateToast(a))

-----------------------------------------------------------------------------
(* The type invariant.                                                     *)
TypeOK ==
    /\ lock \in Toasts \cup {Main, Free}
    /\ canvas \in Canvases /\ lastScreen \in Canvases
    /\ override \in BOOLEAN /\ saverOn \in BOOLEAN
    /\ mpc \in MainPcs
    /\ tpc \in [Toasts -> ToastPcs]
    /\ keep \in [Toasts -> BOOLEAN] /\ toggle \in [Toasts -> BOOLEAN]
    /\ expired \in [Toasts -> BOOLEAN]
    /\ shown \in [Toasts -> BOOLEAN] /\ saved \in [Toasts -> Canvases]
    /\ current \in Toasts \cup {Nothing}
    /\ apc \in [Activators -> ActivatorPcs]
    /\ activating \in [Activators -> Toasts \cup {Nothing}]

MainDraws == mpc \in {"drawing", "saver_loop", "saver_restore"}
ToastDraws(t) == tpc[t] \in {"check", "toggle", "render", "expiry", "restore"}

(* At most one thread is where it may draw or release the lock, so that     *)
(* nobody draws over another's update or releases a lock it does not hold.  *)
DrawsAlone ==
    /\ \A t \in Toasts : ~(MainDraws /\ ToastDraws(t))
    /\ \A t, u \in Toasts : ToastDraws(t) /\ ToastDraws(u) => t = u

(* "Can only run one toast at a time": at most one live toast was not told  *)
(* to stop.                                                                *)
OneToastAtATime ==
    \A t, u \in Toasts : Alive(t) /\ Alive(u) /\ keep[t] /\ keep[u] => t = u

(* "Hold onto the Renderer lock so we're guaranteed to restore the original *)
(* screen": what a toast puts back is the screen that it was shown over     *)
(* last, not one that has been replaced since.                             *)
RestoresScreen ==
    [][\A t \in Toasts :
           tpc[t] = "restore" /\ tpc'[t] = "done" => canvas'.screen = canvas.screen]_vars

(* Nothing is left of a toast on the canvas when its thread has ended.      *)
NoGhostToast == \A t \in canvas.toasts : Alive(t)

(* A Screen that asks for the lock gets it, for no toast keeps it longer    *)
(* than its duration.                                                      *)
MainGetsLock == (mpc = "draw") ~> (mpc = "drawing")

(* A toast is on the canvas only until its duration has run out and the     *)
(* toast threads have been scheduled.                                      *)
ToastExpires == \A t \in Toasts : (t \in canvas.toasts) ~> (t \notin canvas.toasts)

(* No toast keeps the lock, or its place on the canvas, beyond its duration.*)
ToastsEnd == MainGetsLock /\ ToastExpires

(* "New toast notifications break out of the Screensaver".                   *)
SaverGivesWay ==
    (mpc = "saver_loop" /\ \E a \in Activators : apc[a] = "stop") ~> (mpc # "saver_loop")
=============================================================================
