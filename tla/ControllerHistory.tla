-------------------------- MODULE ControllerHistory --------------------------
(***************************************************************************)
(* The Controller with a history variable: the stack, main menu entries    *)
(* left out, as it was when a view was last running.  With it the loop of  *)
(* Controller.tla, a dozen statements per iteration and a wipe in between, *)
(* implements Navigation.tla, where an iteration is one step.              *)
(***************************************************************************)
EXTENDS Controller

VARIABLE past

HomeOn(s) == \E i \in DOMAIN s : s[i].view = Home

\* The main menu is on the stack once at most: see NoRepeats.
Visited(s) ==
    LET home == CHOOSE i \in DOMAIN s : s[i].view = Home
    IN  IF HomeOn(s) THEN [i \in 1..(Len(s) - 1) |-> s[IF i < home THEN i ELSE i + 1].view]
        ELSE [i \in 1..Len(s) |-> s[i].view]

HInit == Init /\ past = <<>>

HNext ==
    /\ Next
    /\ past' = IF mpc' \in Running THEN Visited(stack')
               ELSE IF wpc = "clear_stack" /\ wpc' # wpc THEN <<>> ELSE past

HSpec == HInit /\ [][HNext]_<<vars, past>>

Nav == INSTANCE Navigation WITH MainMenu <- Home, hist <- past

(* The loop and the wipe implement the abstract navigation.                 *)
ImplementsNavigation == Nav!Spec
=============================================================================
