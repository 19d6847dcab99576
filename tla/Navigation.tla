----------------------------- MODULE Navigation -----------------------------
(***************************************************************************)
(* What the Controller's main loop promises about navigation, with every   *)
(* iteration of the loop taken in one step: which view runs next and which *)
(* views "back" will lead through.  Controller.tla models the loop         *)
(* statement by statement and is checked to implement this module.         *)
(*                                                                         *)
(* A member of Views is a Destination as Destination.__eq__ sees it: a     *)
(* view class together with its arguments.  The main menu is never part of *)
(* hist, because going "back" from the bottom of the stack leads there     *)
(* anyway.                                                                 *)
(***************************************************************************)
EXTENDS Naturals, Sequences

CONSTANTS
    Views,          \* every destination but the main menu
    MainMenu,       \* the main menu
    StartupViews    \* the views that may come before the main menu

ViewsAssumption == MainMenu \notin Views /\ StartupViews \subseteq Views

VARIABLES
    cur,        \* the view that runs
    hist        \* the views of this visit, oldest first; the last one is cur

vars == <<cur, hist>>

Occurs(h, v) == \E i \in DOMAIN h : h[i] = v

(* The place list.index finds: the first occurrence of v in h. *)
FirstIndex(h, v) ==
    CHOOSE i \in DOMAIN h : h[i] = v /\ \A j \in 1..(i - 1) : h[j] # v

(* Mutant: a destination that was visited before is entered once more. *)
NeverUnwound(h, v) == h

(* A destination that was visited before cuts the history back to it. *)
Unwound(h, v) ==
    IF Occurs(h, v) THEN SubSeq(h, 1, FirstIndex(h, v) - 1) ELSE h

WithoutLast(h) == SubSeq(h, 1, Len(h) - 1)      \* <<>> of <<>>

Enter(h, v) ==
    IF v = MainMenu
    THEN cur' = MainMenu /\ hist' = <<>>
    ELSE cur' = v /\ hist' = Append(Unwound(h, v), v)

Init == cur \in {MainMenu} \cup StartupViews /\ hist = <<>>

(* A view forwards to v; a skipped view leaves no trace of itself, and a    *)
(* destination that clears the history leaves nothing below it.            *)
Visit(v, skip, clear) ==
    Enter(IF clear THEN <<>> ELSE IF skip THEN WithoutLast(hist) ELSE hist, v)

(* "Back" leads to the view below the current one, or to the main menu.  A  *)
(* skipped view is passed over, so that its predecessor is left as well.    *)
GoBack(skip) ==
    LET h == IF skip THEN WithoutLast(hist) ELSE hist
    IN  IF Len(h) < 2
        THEN Enter(h, MainMenu)
        ELSE Enter(WithoutLast(WithoutLast(h)), h[Len(h) - 1])

(* The inactivity wipe forgets the history and leaves the view on screen.   *)
Forget == hist' = <<>> /\ UNCHANGED cur

Next ==
    \/ \E v \in Views \cup {MainMenu}, skip, clear \in BOOLEAN : Visit(v, skip, clear)
    \/ \E skip \in BOOLEAN : GoBack(skip)
    \/ Forget

Spec == Init /\ [][Next]_vars

-----------------------------------------------------------------------------
TypeOK == cur \in Views \cup {MainMenu} /\ hist \in Seq(Views)

(* The view on screen is the one the history ends with (unless the history  *)
(* was forgotten while it was on screen).                                   *)
EndsWithCurrent == hist # <<>> => hist[Len(hist)] = cur

(* No destination is in the history twice: "back" never runs into the      *)
(* workflow that was just completed, and the history cannot grow forever.   *)
NoRepeats == \A i, j \in DOMAIN hist : hist[i] = hist[j] => i = j
=============================================================================
