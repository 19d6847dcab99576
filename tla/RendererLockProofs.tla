-------------------------- MODULE RendererLockProofs --------------------------
(***************************************************************************)
(* DrawsAlone for any number of toasts and activators, with and without    *)
(* the screensaver.  It is not inductive: it does not say who may take the *)
(* lock next.  The invariant that is says that whoever may draw holds the  *)
(* lock.                                                                   *)
(*                                                                         *)
(* Without the screensaver, also what a toast puts back and when it is     *)
(* gone: a toast that has drawn keeps the lock until it has restored what  *)
(* it knows to be under it.  (With the screensaver TLC refutes both.)      *)
(***************************************************************************)
EXTENDS RendererLock, TLAPS

HolderInv ==
    /\ tpc \in [Toasts -> ToastPcs]
    /\ MainDraws => lock = Main
    /\ \A t \in Toasts : ToastDraws(t) => lock = t

(* What an action must leave alone for the holder to remain the holder.     *)
LEMMA HolderFrame ==
    ASSUME HolderInv, UNCHANGED <<lock, mpc, tpc>>
    PROVE  HolderInv'
  BY DEF HolderInv, MainDraws, ToastDraws

LEMMA HolderInit == Init => HolderInv
  BY DEF Init, HolderInv, MainDraws, ToastDraws, ToastPcs

LEMMA HolderMain ==
    ASSUME HolderInv, MainThread \/ SaverDue \/ Pressed \/ SaverSeesInput
    PROVE  HolderInv'
<1> USE RendererLockAssumption DEF HolderInv, MainDraws, ToastDraws, MainStep, toastVars
<1>1. CASE BeginDraw  BY <1>1 DEF BeginDraw
<1>2. CASE EndDraw  BY <1>2 DEF EndDraw, Main
<1>3. CASE OverrideSeen  BY <1>3 DEF OverrideSeen
<1>4. CASE SaverTogglesToast  BY <1>4 DEF SaverTogglesToast
<1>5. CASE SaverCopiesScreen  BY <1>5 DEF SaverCopiesScreen
<1>6. CASE SaverAcquires  BY <1>6 DEF SaverAcquires
<1>7. CASE SaverStopped \/ SaverSeesInput  BY <1>7 DEF SaverStopped, SaverSeesInput
<1>8. CASE SaverRestores  BY <1>8 DEF SaverRestores, Main
<1>9. CASE SaverDue  BY <1>9 DEF SaverDue
<1>10. CASE Pressed  BY <1>10 DEF Pressed
<1> QED
  BY <1>1, <1>2, <1>3, <1>4, <1>5, <1>6, <1>7, <1>8, <1>9, <1>10 DEF MainThread

(* A step of toast t that neither takes nor gives up the lock.              *)
LEMMA HolderKeeps ==
    ASSUME HolderInv, NEW t \in Toasts, NEW from, NEW to \in ToastPcs,
           ToastStep(t, from, to), UNCHANGED lock,
           to \in {"check", "toggle", "render", "expiry", "restore"}
             => from \in {"check", "toggle", "render", "expiry", "restore"}
    PROVE  HolderInv'
  BY DEF HolderInv, MainDraws, ToastDraws, ToastStep, mainVars

LEMMA HolderToast ==
    ASSUME HolderInv, NEW t \in Toasts,
           ToastThread(t) \/ DurationOver(t) \/ DelayCancelled(t) \/ ToastInterrupted(t)
    PROVE  HolderInv'
<1> USE RendererLockAssumption
<1>1. CASE DelayOver(t)  BY <1>1, HolderKeeps DEF DelayOver, ToastPcs
<1>2. CASE ToastAcquires(t)
  <2>1. ~MainDraws /\ \A u \in Toasts : ~ToastDraws(u)
    BY <1>2 DEF ToastAcquires, HolderInv, Main, Free
  <2>2. lock' = t /\ mpc' = mpc
    BY <1>2 DEF ToastAcquires, ToastStep, mainVars
  <2>3. \E to \in ToastPcs : tpc' = [tpc EXCEPT ![t] = to]
    BY <1>2 DEF ToastAcquires, ToastStep, ToastPcs
  <2> QED
    BY <2>1, <2>2, <2>3 DEF HolderInv, MainDraws, ToastDraws
<1>3. CASE ToastChecks(t)  BY <1>3, HolderKeeps DEF ToastChecks, ToastPcs
<1>4. CASE ToastGivesUpLock(t)
  <2>1. CASE toggle[t]
    BY <1>4, <2>1 DEF ToastGivesUpLock, HolderInv, MainDraws, ToastDraws,
                      ToastStep, mainVars, ToastPcs, Main
  <2>2. CASE ~toggle[t]
    BY <1>4, <2>2, HolderKeeps DEF ToastGivesUpLock, ToastPcs
  <2> QED
    BY <2>1, <2>2
<1>5. CASE ToastSeesLockTaken(t)  BY <1>5, HolderKeeps DEF ToastSeesLockTaken, ToastPcs
<1>6. CASE ToastRenders(t)  BY <1>6, HolderKeeps DEF ToastRenders, ToastPcs
<1>7. CASE ToastTestsDuration(t)  BY <1>7, HolderKeeps DEF ToastTestsDuration, ToastPcs
<1>8. CASE ToastRestores(t)
  BY <1>8 DEF ToastRestores, HolderInv, MainDraws, ToastDraws, ToastStep, mainVars, ToastPcs, Main
<1>9. CASE DurationOver(t)  BY <1>9, HolderFrame DEF DurationOver, mainVars
<1>10. CASE DelayCancelled(t)  BY <1>10, HolderKeeps DEF DelayCancelled, ToastPcs
<1>11. CASE ToastInterrupted(t)  BY <1>11, HolderKeeps DEF ToastInterrupted, ToastPcs
<1> QED
  BY <1>1, <1>2, <1>3, <1>4, <1>5, <1>6, <1>7, <1>8, <1>9, <1>10, <1>11 DEF ToastThread

LEMMA HolderActivator ==
    ASSUME HolderInv, NEW a \in Activators,
           ActivateToast(a) \/ \E t \in Toasts : ConstructToast(a, t)
    PROVE  HolderInv'
<1>1. CASE StopScreensaver(a)
  BY <1>1, HolderFrame DEF StopScreensaver, ActivatorStep
<1>2. CASE StopOldToast(a)  BY <1>2, HolderFrame DEF StopOldToast, ActivatorStep
<1>3. CASE SetToast(a)  BY <1>3, HolderFrame DEF SetToast, ActivatorStep
<1>4. CASE StartToast(a)
  BY <1>4 DEF StartToast, HolderInv, MainDraws, ToastDraws, mainVars, ToastPcs
<1>5. CASE \E t \in Toasts : ConstructToast(a, t)
  BY <1>5, HolderFrame DEF ConstructToast, ActivatorStep
<1> QED
  BY <1>1, <1>2, <1>3, <1>4, <1>5 DEF ActivateToast

LEMMA HolderNext == HolderInv /\ [Next]_vars => HolderInv'
<1> SUFFICES ASSUME HolderInv, [Next]_vars
             PROVE  HolderInv'
  OBVIOUS
<1>1. CASE MainThread \/ SaverDue \/ Pressed \/ SaverSeesInput
  BY <1>1, HolderMain
<1>2. CASE \E t \in Toasts : ToastThread(t) \/ DurationOver(t)
                               \/ DelayCancelled(t) \/ ToastInterrupted(t)
  BY <1>2, HolderToast
<1>3. CASE \E a \in Activators :
               ActivateToast(a) \/ \E t \in Toasts : ConstructToast(a, t)
  BY <1>3, HolderActivator
<1>4. CASE UNCHANGED vars
  BY <1>4, HolderFrame DEF vars, mainVars, toastVars
<1> QED
  BY <1>1, <1>2, <1>3, <1>4 DEF Next, User

(* Whoever holds the right to draw holds it alone, since the lock has one   *)
(* holder and neither Main nor Free is a toast.                            *)
LEMMA HolderDrawsAlone == HolderInv => DrawsAlone
  BY RendererLockAssumption DEF HolderInv, DrawsAlone

(* At most one of the main thread, its screensaver and the toast threads is *)
(* ever between acquiring and releasing Renderer.lock, through hand-offs,   *)
(* stops and re-acquisitions in any order.                                 *)
THEOREM DrawingIsExclusive == Spec => []DrawsAlone
<1>1. Init => HolderInv  BY HolderInit
<1>2. HolderInv /\ [Next]_vars => HolderInv'  BY HolderNext
<1>3. HolderInv => DrawsAlone  BY HolderDrawsAlone
<1> QED
  BY <1>1, <1>2, <1>3, PTL DEF Spec
-----------------------------------------------------------------------------
(* Without the screensaver                                                  *)

\* A toast is constructed and started once.
StartedOnce ==
    /\ \A a \in Activators : activating[a] \in Toasts => tpc[activating[a]] = "new"
    /\ \A a, b \in Activators : activating[a] = activating[b] /\ activating[a] \in Toasts => a = b

\* Nobody asks a toast for the lock: only the screensaver does.
LockStays ==
    /\ mpc \in {"draw", "drawing", "wait"}
    /\ \A t \in Toasts : ~toggle[t] /\ tpc[t] \notin {"handoff", "reacquire"}

\* What lies on the canvas was put there by the holder of the lock, which knows what is under it.
KnowsWhatIsUnder ==
    /\ \A t \in Toasts : shown[t] => ToastDraws(t) \/ tpc[t] = "done"
    /\ \A t \in canvas.toasts : shown[t] /\ ToastDraws(t)
    /\ \A t \in Toasts : shown[t] /\ ToastDraws(t) => saved[t] = [screen |-> canvas.screen, toasts |-> {}]

ToastInv == TypeOK /\ HolderInv /\ StartedOnce /\ LockStays /\ KnowsWhatIsUnder

LEMMA TypeInit == ASSUME Init PROVE TypeOK
<1>1. canvas \in Canvases /\ lastScreen = canvas /\ saved = [t \in Toasts |-> canvas]
  BY DEF Init, Canvases
<1>2. /\ lock \in Toasts \cup {Main, Free} /\ override \in BOOLEAN /\ saverOn \in BOOLEAN
      /\ mpc \in MainPcs /\ current \in Toasts \cup {Nothing}
  BY DEF Init, MainPcs
<1>3. /\ tpc \in [Toasts -> ToastPcs] /\ keep \in [Toasts -> BOOLEAN] /\ toggle \in [Toasts -> BOOLEAN]
      /\ expired \in [Toasts -> BOOLEAN] /\ shown \in [Toasts -> BOOLEAN]
      /\ apc \in [Activators -> ActivatorPcs] /\ activating \in [Activators -> Toasts \cup {Nothing}]
  BY DEF Init, ToastPcs, ActivatorPcs
<1> QED
  BY <1>1, <1>2, <1>3 DEF TypeOK

LEMMA TypeMain ==
    ASSUME TypeOK, MainThread \/ SaverDue \/ Pressed \/ SaverSeesInput
    PROVE  TypeOK'
<1> USE DEF TypeOK, MainPcs, MainStep, toastVars, actVars
<1>1. CASE BeginDraw  BY <1>1 DEF BeginDraw
<1>2. CASE EndDraw
  <2>1. canvas' \in Canvases
    BY <1>2 DEF EndDraw, Canvases
  <2> QED
    BY <1>2, <2>1 DEF EndDraw
<1>3. CASE OverrideSeen  BY <1>3 DEF OverrideSeen
<1>4. CASE SaverTogglesToast
  <2>1. toggle' \in [Toasts -> BOOLEAN]
    BY <1>4 DEF SaverTogglesToast
  <2> QED
    BY <1>4, <2>1 DEF SaverTogglesToast
<1>5. CASE SaverCopiesScreen  BY <1>5 DEF SaverCopiesScreen
<1>6. CASE SaverAcquires  BY <1>6 DEF SaverAcquires
<1>7. CASE SaverStopped \/ SaverSeesInput  BY <1>7 DEF SaverStopped, SaverSeesInput
<1>8. CASE SaverRestores  BY <1>8 DEF SaverRestores
<1>9. CASE SaverDue  BY <1>9 DEF SaverDue
<1>10. CASE Pressed  BY <1>10 DEF Pressed
<1> QED
  BY <1>1, <1>2, <1>3, <1>4, <1>5, <1>6, <1>7, <1>8, <1>9, <1>10 DEF MainThread

\* What a step of a toast leaves typed, besides what it draws.
LEMMA TypeStep ==
    ASSUME TypeOK, NEW t \in Toasts, NEW from, NEW to \in ToastPcs, ToastStep(t, from, to),
           lock' \in Toasts \cup {Main, Free}, canvas' \in Canvases,
           toggle' \in [Toasts -> BOOLEAN], expired' = expired,
           shown' \in [Toasts -> BOOLEAN], saved' \in [Toasts -> Canvases]
    PROVE  TypeOK'
  BY DEF TypeOK, ToastStep, mainVars, actVars

LEMMA TypeToast ==
    ASSUME TypeOK, NEW t \in Toasts,
           ToastThread(t) \/ DurationOver(t) \/ DelayCancelled(t) \/ ToastInterrupted(t)
    PROVE  TypeOK'
<1> USE DEF ToastPcs
<1>1. /\ lock \in Toasts \cup {Main, Free} /\ canvas \in Canvases /\ toggle \in [Toasts -> BOOLEAN]
      /\ shown \in [Toasts -> BOOLEAN] /\ saved \in [Toasts -> Canvases]
  BY DEF TypeOK
<1>2. CASE DelayOver(t)  BY <1>1, <1>2, TypeStep DEF DelayOver
<1>3. CASE ToastAcquires(t)  BY <1>1, <1>3, TypeStep DEF ToastAcquires
<1>4. CASE ToastChecks(t)  BY <1>1, <1>4, TypeStep DEF ToastChecks
<1>5. CASE ToastGivesUpLock(t)
  <2>1. toggle' \in [Toasts -> BOOLEAN] /\ lock' \in Toasts \cup {Main, Free}
    BY <1>1, <1>5 DEF ToastGivesUpLock
  <2> QED
    BY <1>1, <1>5, <2>1, TypeStep DEF ToastGivesUpLock
<1>6. CASE ToastSeesLockTaken(t)  BY <1>1, <1>6, TypeStep DEF ToastSeesLockTaken
<1>7. CASE ToastRenders(t)
  <2>1. [canvas EXCEPT !.toasts = @ \cup {t}] \in Canvases
    BY <1>1 DEF Canvases
  <2>2. /\ canvas' \in Canvases /\ saved' \in [Toasts -> Canvases] /\ shown' \in [Toasts -> BOOLEAN]
        /\ ToastStep(t, "render", "expiry") /\ lock' = lock /\ toggle' = toggle /\ expired' = expired
    BY <1>1, <1>7, <2>1 DEF ToastRenders
  <2> QED
    BY <1>1, <2>2, TypeStep
<1>8. CASE ToastTestsDuration(t)  BY <1>1, <1>8, TypeStep DEF ToastTestsDuration
<1>9. CASE ToastRestores(t)  BY <1>1, <1>9, TypeStep DEF ToastRestores
<1>10. CASE DurationOver(t)  BY <1>10 DEF DurationOver, TypeOK, mainVars, actVars
<1>11. CASE DelayCancelled(t)  BY <1>1, <1>11, TypeStep DEF DelayCancelled
<1>12. CASE ToastInterrupted(t)  BY <1>1, <1>12, TypeStep DEF ToastInterrupted
<1> QED
  BY <1>2, <1>3, <1>4, <1>5, <1>6, <1>7, <1>8, <1>9, <1>10, <1>11, <1>12 DEF ToastThread

LEMMA TypeActivator ==
    ASSUME TypeOK, NEW a \in Activators,
           ActivateToast(a) \/ \E t \in Toasts : ConstructToast(a, t)
    PROVE  TypeOK'
<1> USE DEF TypeOK, ActivatorPcs
<1>1. CASE StopScreensaver(a)  BY <1>1 DEF StopScreensaver, ActivatorStep
<1>2. CASE StopOldToast(a)  BY <1>2 DEF StopOldToast, ActivatorStep
<1>3. CASE SetToast(a)  BY <1>3 DEF SetToast, ActivatorStep
<1>4. CASE StartToast(a)
  <2>1. keep' \in [Toasts -> BOOLEAN] /\ tpc' \in [Toasts -> ToastPcs]
    BY <1>4 DEF StartToast, ToastPcs
  <2> QED
    BY <1>4, <2>1 DEF StartToast, mainVars
<1>5. CASE \E t \in Toasts : ConstructToast(a, t)  BY <1>5 DEF ConstructToast, ActivatorStep
<1> QED
  BY <1>1, <1>2, <1>3, <1>4, <1>5 DEF ActivateToast

LEMMA TypeNext == ASSUME TypeOK, [Next]_vars PROVE TypeOK'
<1>1. CASE MainThread \/ SaverDue \/ Pressed \/ SaverSeesInput
  BY <1>1, TypeMain
<1>2. CASE \E t \in Toasts : ToastThread(t) \/ DurationOver(t)
                               \/ DelayCancelled(t) \/ ToastInterrupted(t)
  BY <1>2, TypeToast
<1>3. CASE \E a \in Activators :
               ActivateToast(a) \/ \E t \in Toasts : ConstructToast(a, t)
  BY <1>3, TypeActivator
<1>4. CASE UNCHANGED vars
  BY <1>4 DEF vars, mainVars, toastVars, actVars, TypeOK
<1> QED
  BY <1>1, <1>2, <1>3, <1>4 DEF Next, User

-----------------------------------------------------------------------------
(* What a toast puts back, step by step.                                    *)

Quiet == StartedOnce /\ LockStays /\ KnowsWhatIsUnder

LEMMA QuietFrame ==
    ASSUME Quiet, UNCHANGED <<canvas, tpc, toggle, shown, saved, activating>>,
           mpc' \in {"draw", "drawing", "wait"}
    PROVE  Quiet'
  BY DEF Quiet, StartedOnce, LockStays, KnowsWhatIsUnder, ToastDraws

LEMMA QuietMain ==
    ASSUME ToastInv, ~SaverAllowed, MainThread \/ SaverDue \/ Pressed \/ SaverSeesInput
    PROVE  Quiet'
<1> USE DEF MainStep, toastVars, actVars
<1>1. Quiet /\ mpc \in {"draw", "drawing", "wait"}
  BY DEF ToastInv, Quiet, LockStays
<1>2. CASE BeginDraw  BY <1>1, <1>2, QuietFrame DEF BeginDraw
<1>3. CASE EndDraw
  <2>1. \A t \in Toasts : ~ToastDraws(t)
    BY <1>3, RendererLockAssumption DEF EndDraw, ToastInv, HolderInv, MainDraws, Main
  <2>2. canvas.toasts = {}
    BY <2>1 DEF ToastInv, KnowsWhatIsUnder, TypeOK, Canvases
  <2>3. canvas'.toasts = {}
    BY <1>3, <2>2 DEF EndDraw
  <2> QED
    BY <1>1, <1>3, <2>1, <2>3 DEF EndDraw, Quiet, StartedOnce, LockStays, KnowsWhatIsUnder, ToastDraws
<1>4. CASE OverrideSeen  BY <1>1, <1>4, QuietFrame DEF OverrideSeen
<1>5. CASE Pressed  BY <1>1, <1>5, QuietFrame DEF Pressed
<1>6. CASE SaverDue  BY <1>6 DEF SaverDue
<1>7. CASE SaverTogglesToast \/ SaverCopiesScreen \/ SaverAcquires \/ SaverStopped \/ SaverSeesInput \/ SaverRestores
  BY <1>1, <1>7 DEF SaverTogglesToast, SaverCopiesScreen, SaverAcquires, SaverStopped, SaverSeesInput, SaverRestores
<1> QED
  BY <1>2, <1>3, <1>4, <1>5, <1>6, <1>7 DEF MainThread

(* A step of toast t that changes nothing it has drawn.                     *)
LEMMA QuietStep ==
    ASSUME ToastInv, NEW t \in Toasts, NEW from, NEW to \in ToastPcs \ {"handoff", "reacquire", "new"},
           ToastStep(t, from, to), from # "new", UNCHANGED <<canvas, shown, saved, toggle>>,
           from \in {"check", "toggle", "render", "expiry", "restore"}
             => to \in {"check", "toggle", "render", "expiry", "restore"},
           from \notin {"check", "toggle", "render", "expiry", "restore"} => from # "done"
    PROVE  Quiet'
<1>1. /\ tpc \in [Toasts -> ToastPcs] /\ tpc[t] = from /\ tpc' = [tpc EXCEPT ![t] = to]
      /\ mpc' = mpc /\ activating' = activating
  BY DEF ToastInv, TypeOK, ToastStep, mainVars, actVars
<1>2. tpc'[t] = to /\ \A u \in Toasts \ {t} : tpc'[u] = tpc[u]
  BY <1>1
<1>3. StartedOnce'
  BY <1>1, <1>2 DEF ToastInv, StartedOnce
<1>4. LockStays'
  BY <1>1, <1>2 DEF ToastInv, LockStays
<1>5. shown[t] => ToastDraws(t)
  BY <1>1 DEF ToastInv, KnowsWhatIsUnder
<1>6. ASSUME NEW u \in Toasts PROVE (shown[u] /\ ToastDraws(u)) <=> (shown[u] /\ ToastDraws(u)')
  BY <1>1, <1>2, <1>5 DEF ToastDraws
<1>7. ASSUME NEW u \in Toasts, shown[u] PROVE ToastDraws(u)' \/ tpc'[u] = "done"
  BY <1>1, <1>2, <1>5, <1>7 DEF ToastDraws, ToastInv, KnowsWhatIsUnder
<1>8. canvas.toasts \subseteq Toasts
  BY DEF ToastInv, TypeOK, Canvases
<1>9. KnowsWhatIsUnder'
  BY <1>6, <1>7, <1>8 DEF ToastInv, KnowsWhatIsUnder
<1> QED
  BY <1>3, <1>4, <1>9 DEF Quiet

LEMMA QuietToast ==
    ASSUME ToastInv, NEW t \in Toasts,
           ToastThread(t) \/ DurationOver(t) \/ DelayCancelled(t) \/ ToastInterrupted(t)
    PROVE  Quiet'
<1> USE DEF ToastPcs
<1>1. Quiet /\ ~toggle[t] /\ tpc[t] \notin {"handoff", "reacquire"}
  BY DEF ToastInv, Quiet, LockStays
<1>2. CASE DelayOver(t)  BY <1>2, QuietStep DEF DelayOver
<1>3. CASE ToastAcquires(t)
  <2>1. ToastStep(t, "acquire", "check") /\ UNCHANGED <<canvas, shown, saved, toggle>>
    BY <1>1, <1>3 DEF ToastAcquires, ToastStep
  <2> QED
    BY <2>1, QuietStep
<1>4. CASE ToastChecks(t)  BY <1>4, QuietStep DEF ToastChecks
<1>5. CASE ToastGivesUpLock(t)
  <2>1. toggle' = toggle
    BY <1>1, <1>5 DEF ToastGivesUpLock, ToastInv, TypeOK
  <2> QED
    BY <1>1, <1>5, <2>1, QuietStep DEF ToastGivesUpLock
<1>6. CASE ToastSeesLockTaken(t)  BY <1>1, <1>6 DEF ToastSeesLockTaken, ToastStep
<1>7. CASE ToastRenders(t)
  <2>1. CASE shown[t]
    <3>1. shown' = shown
      BY <1>7, <2>1 DEF ToastRenders, ToastInv, TypeOK
    <3> QED
      BY <1>7, <2>1, <3>1, QuietStep DEF ToastRenders
  <2>2. CASE ~shown[t]
    <3>1. /\ tpc \in [Toasts -> ToastPcs] /\ shown \in [Toasts -> BOOLEAN] /\ saved \in [Toasts -> Canvases]
          /\ canvas \in Canvases
      BY DEF ToastInv, TypeOK
    <3>2. /\ tpc[t] = "render" /\ tpc'[t] = "expiry" /\ \A u \in Toasts \ {t} : tpc'[u] = tpc[u]
          /\ shown'[t] /\ \A u \in Toasts \ {t} : shown'[u] = shown[u]
          /\ saved'[t] = canvas /\ canvas' = [canvas EXCEPT !.toasts = @ \cup {t}]
          /\ mpc' = mpc /\ toggle' = toggle /\ activating' = activating
      BY <1>7, <2>2, <3>1 DEF ToastRenders, ToastStep, mainVars, actVars
    <3>3. \A u \in Toasts \ {t} : ~ToastDraws(u) /\ ~ToastDraws(u)'
      BY <3>2 DEF ToastInv, HolderInv, ToastDraws
    <3>4. canvas.toasts = {}
      BY <2>2, <3>1, <3>3 DEF ToastInv, KnowsWhatIsUnder, Canvases
    <3>5. canvas'.toasts = {t} /\ canvas'.screen = canvas.screen
          /\ canvas = [screen |-> canvas.screen, toasts |-> {}]
      BY <3>1, <3>2, <3>4 DEF Canvases
    <3>6. KnowsWhatIsUnder'
      BY <3>2, <3>3, <3>5 DEF ToastInv, KnowsWhatIsUnder, ToastDraws
    <3>7. StartedOnce' /\ LockStays'
      BY <3>2 DEF ToastInv, StartedOnce, LockStays
    <3> QED
      BY <3>6, <3>7 DEF Quiet
  <2> QED
    BY <2>1, <2>2
<1>8. CASE ToastTestsDuration(t)  BY <1>8, QuietStep DEF ToastTestsDuration
<1>9. CASE ToastRestores(t)
  <2>1. tpc \in [Toasts -> ToastPcs] /\ canvas \in Canvases
    BY DEF ToastInv, TypeOK
  <2>2. /\ tpc[t] = "restore" /\ tpc'[t] = "done" /\ \A u \in Toasts \ {t} : tpc'[u] = tpc[u]
        /\ canvas' = IF shown[t] THEN saved[t] ELSE canvas
        /\ mpc' = mpc /\ UNCHANGED <<toggle, shown, saved, activating>>
    BY <1>9, <2>1 DEF ToastRestores, ToastStep, mainVars, actVars
  <2>3. \A u \in Toasts \ {t} : ~ToastDraws(u) /\ ~ToastDraws(u)'
    BY <2>2 DEF ToastInv, HolderInv, ToastDraws
  <2>4. canvas'.toasts = {}
    BY <2>1, <2>2, <2>3 DEF ToastInv, KnowsWhatIsUnder, ToastDraws, Canvases
  <2>5. ~ToastDraws(t)'
    BY <2>2 DEF ToastDraws
  <2>6. KnowsWhatIsUnder'
    BY <2>2, <2>3, <2>4, <2>5 DEF ToastInv, KnowsWhatIsUnder, ToastDraws
  <2>7. StartedOnce' /\ LockStays'
    BY <2>2 DEF ToastInv, StartedOnce, LockStays
  <2> QED
    BY <2>6, <2>7 DEF Quiet
<1>10. CASE DurationOver(t)
  BY <1>1, <1>10, QuietFrame DEF DurationOver, mainVars, actVars, Quiet, LockStays
<1>11. CASE DelayCancelled(t)  BY <1>11, QuietStep DEF DelayCancelled
<1>12. CASE ToastInterrupted(t)  BY <1>12, QuietStep DEF ToastInterrupted
<1> QED
  BY <1>2, <1>3, <1>4, <1>5, <1>6, <1>7, <1>8, <1>9, <1>10, <1>11, <1>12 DEF ToastThread

LEMMA QuietActivator ==
    ASSUME ToastInv, NEW a \in Activators,
           ActivateToast(a) \/ \E t \in Toasts : ConstructToast(a, t)
    PROVE  Quiet'
<1>1. /\ Quiet /\ mpc \in {"draw", "drawing", "wait"} /\ activating \in [Activators -> Toasts \cup {Nothing}]
      /\ tpc \in [Toasts -> ToastPcs] /\ Nothing \notin Toasts
  BY RendererLockAssumption DEF ToastInv, Quiet, LockStays, TypeOK
<1>2. CASE StopScreensaver(a) \/ StopOldToast(a) \/ SetToast(a)
  BY <1>1, <1>2, QuietFrame DEF StopScreensaver, StopOldToast, SetToast, ActivatorStep
<1>3. CASE StartToast(a)
  <2>1. /\ UNCHANGED <<canvas, shown, saved, toggle, mpc>>
        /\ tpc' = [tpc EXCEPT ![activating[a]] = "delay"]
        /\ activating' = [activating EXCEPT ![a] = Nothing]
    BY <1>3 DEF StartToast, mainVars
  <2>2. \A u \in Toasts : tpc'[u] = tpc[u] \/ (u = activating[a] /\ tpc[u] = "new" /\ tpc'[u] = "delay")
    BY <1>1, <2>1 DEF ToastInv, StartedOnce
  <2>3. \A b \in Activators : activating'[b] \in Toasts => b # a /\ activating'[b] = activating[b]
    BY <1>1, <2>1
  <2>4. StartedOnce'
    BY <2>2, <2>3 DEF ToastInv, StartedOnce
  <2>5. LockStays'
    BY <2>1, <2>2 DEF ToastInv, LockStays
  <2>6. \A u \in Toasts : /\ ToastDraws(u)' <=> ToastDraws(u)
                          /\ tpc[u] = "done" => tpc'[u] = "done"
    BY <2>2 DEF ToastDraws
  <2>7. canvas.toasts \subseteq Toasts
    BY DEF ToastInv, TypeOK, Canvases
  <2>8. KnowsWhatIsUnder'
    BY <2>1, <2>6, <2>7 DEF ToastInv, KnowsWhatIsUnder
  <2> QED
    BY <2>4, <2>5, <2>8 DEF Quiet
<1>4. CASE \E t \in Toasts : ConstructToast(a, t)
  <2> PICK t \in Toasts : ConstructToast(a, t)
    BY <1>4
  <2>1. /\ UNCHANGED <<canvas, shown, saved, toggle, mpc, tpc>> /\ tpc[t] = "new"
        /\ activating' = [activating EXCEPT ![a] = t] /\ \A b \in Activators : activating[b] # t
    BY DEF ConstructToast, ActivatorStep
  <2>2. StartedOnce'
    BY <1>1, <2>1 DEF ToastInv, StartedOnce
  <2> QED
    BY <2>1, <2>2 DEF ToastInv, Quiet, LockStays, KnowsWhatIsUnder, ToastDraws
<1> QED
  BY <1>2, <1>3, <1>4 DEF ActivateToast

LEMMA ToastNext == ASSUME ToastInv, ~SaverAllowed, [Next]_vars PROVE ToastInv'
<1>1. TypeOK' /\ HolderInv'
  BY TypeNext, HolderNext DEF ToastInv
<1> SUFFICES Quiet'
  BY <1>1 DEF ToastInv, Quiet
<1>2. CASE MainThread \/ SaverDue \/ Pressed \/ SaverSeesInput
  BY <1>2, QuietMain
<1>3. CASE \E t \in Toasts : ToastThread(t) \/ DurationOver(t)
                               \/ DelayCancelled(t) \/ ToastInterrupted(t)
  BY <1>3, QuietToast
<1>4. CASE \E a \in Activators :
               ActivateToast(a) \/ \E t \in Toasts : ConstructToast(a, t)
  BY <1>4, QuietActivator
<1>5. CASE UNCHANGED vars
  BY <1>5, QuietFrame DEF vars, mainVars, toastVars, actVars, ToastInv, Quiet, LockStays
<1> QED
  BY <1>2, <1>3, <1>4, <1>5 DEF Next, User

LEMMA ToastInit == ASSUME Init PROVE ToastInv
<1>1. StartedOnce
  BY RendererLockAssumption DEF Init, StartedOnce
<1>2. LockStays
  BY DEF Init, LockStays
<1>3. canvas.toasts = {} /\ \A t \in Toasts : ~shown[t]
  BY DEF Init
<1>4. KnowsWhatIsUnder
  BY <1>3 DEF KnowsWhatIsUnder
<1> QED
  BY <1>1, <1>2, <1>4, TypeInit, HolderInit DEF ToastInv

(* A thread that ends gave back what it found: only its last step may       *)
(* change the canvas, and the invariant says to what.                      *)
LEMMA GivesScreenBack ==
    ASSUME ToastInv, [Next]_vars, NEW t \in Toasts, tpc[t] = "restore", tpc'[t] = "done"
    PROVE  canvas'.screen = canvas.screen
<1>0. tpc \in [Toasts -> ToastPcs]
  BY DEF ToastInv, TypeOK
<1>1. CASE MainThread \/ SaverDue \/ Pressed \/ SaverSeesInput \/ UNCHANGED vars
  <2>1. tpc' = tpc
    BY <1>1 DEF MainThread, SaverDue, Pressed, SaverSeesInput, BeginDraw, EndDraw, OverrideSeen,
                SaverTogglesToast, SaverCopiesScreen, SaverAcquires, SaverStopped, SaverRestores,
                MainStep, toastVars, vars
  <2> QED
    BY <2>1
<1>2. CASE \E a \in Activators : ActivateToast(a) \/ \E u \in Toasts : ConstructToast(a, u)
  BY <1>2 DEF ActivateToast, StopScreensaver, StopOldToast, SetToast, StartToast, ConstructToast, ActivatorStep
<1>3. CASE \E u \in Toasts : ToastThread(u) \/ DurationOver(u) \/ DelayCancelled(u) \/ ToastInterrupted(u)
  <2> PICK u \in Toasts : ToastThread(u) \/ DurationOver(u) \/ DelayCancelled(u) \/ ToastInterrupted(u)
    BY <1>3
  <2>1. CASE ToastRestores(u)
    <3>1. u = t
      BY <1>0, <2>1 DEF ToastRestores, ToastStep
    <3> QED
      BY <2>1, <3>1 DEF ToastRestores, ToastInv, KnowsWhatIsUnder, ToastDraws
  <2>2. CASE ToastRenders(u)
    <3>1. u = t
      BY <1>0, <2>2 DEF ToastRenders, ToastStep
    <3> QED
      BY <2>2, <3>1 DEF ToastRenders, ToastStep
  <2>3. CASE \/ DelayOver(u) \/ ToastAcquires(u) \/ ToastChecks(u) \/ ToastGivesUpLock(u)
             \/ ToastSeesLockTaken(u) \/ ToastTestsDuration(u) \/ DurationOver(u)
             \/ DelayCancelled(u) \/ ToastInterrupted(u)
    BY <2>3 DEF DelayOver, ToastAcquires, ToastChecks, ToastGivesUpLock, ToastSeesLockTaken,
                ToastTestsDuration, DurationOver, DelayCancelled, ToastInterrupted
  <2> QED
    BY <2>1, <2>2, <2>3 DEF ToastThread
<1> QED
  BY <1>1, <1>2, <1>3 DEF Next, User

(* Without the screensaver no toast outlives its thread on the canvas: the  *)
(* finally clause of BaseToastOverlayManagerThread.run puts back a screen   *)
(* that has no toast on it, whoever stopped it and whatever was drawn.      *)
THEOREM NoToastOutlivesItsThread ==
    ASSUME ~SaverAllowed
    PROVE  Spec => []NoGhostToast
<1>1. ToastInv /\ [Next]_vars => ToastInv'
  BY ToastNext
<1>2. ToastInv => NoGhostToast
  BY DEF ToastInv, KnowsWhatIsUnder, NoGhostToast, Alive, ToastDraws, TypeOK, Canvases
<1>3. Init => ToastInv
  BY ToastInit
<1> QED
  BY <1>1, <1>2, <1>3, PTL DEF Spec

(* Without the screensaver what a toast puts back is the screen it was      *)
(* shown over last, for it keeps the lock from then on and nobody else may  *)
(* draw (with it, the lock changes hands under a toast that is shown).     *)
THEOREM ScreenIsRestored ==
    ASSUME ~SaverAllowed
    PROVE  Spec => RestoresScreen
<1>1. ToastInv /\ [Next]_vars => ToastInv'
  BY ToastNext
<1>2. ToastInv /\ [Next]_vars =>
        [\A t \in Toasts : tpc[t] = "restore" /\ tpc'[t] = "done" => canvas'.screen = canvas.screen]_vars
  BY GivesScreenBack
<1>3. Init => ToastInv
  BY ToastInit
<1> QED
  BY <1>1, <1>2, <1>3, PTL DEF Spec, RestoresScreen
=============================================================================
