--------------------------- MODULE ControllerProofs ---------------------------
(***************************************************************************)
(* The invariants of Controller for any set of views, any history and any  *)
(* number of auto-wipes, each of them between any two statements.          *)
(***************************************************************************)
EXTENDS ControllerHistory, SequenceTheorems, TLAPS

Entries == [view : Views \cup {Home, None}, ran : BOOLEAN]
Distinct(s) == \A i, j \in DOMAIN s : s[i].view = s[j].view => i = j

(* The loop is about to dispatch the main menu, which empties the stack.    *)
ToHome == mpc = "dispatch" /\ next.view \in {Home, None}

(* "Back" has been resolved; a Destination without a view is only on the    *)
(* stack on the way to the main menu.                                      *)
Resolved ==
    /\ mpc \in {"clear", "index", "truncate", "append", "dispatch"} => next.view # Back
    /\ \A i \in DOMAIN stack : stack[i].view = None => ToHome /\ next.view = None

(* What the statements from list.index to append know of next_destination.  *)
(* The wipe may put the main menu on the stack meanwhile, and nothing else. *)
Unwinding ==
    /\ mpc = "truncate" /\ next.view # Home =>
           \A j \in DOMAIN stack : stack[j].view = next.view => j = unwind
    /\ mpc = "append" /\ next.view # Home =>
           \A j \in DOMAIN stack : stack[j].view # next.view

(* The main menu is not on the stack when the wipe comes to append it.      *)
Unrepeated ==
    ~ToHome => /\ Distinct(stack)
               /\ wpc = "append_home" => \A i \in DOMAIN stack : stack[i].view # Home

StackInv == TypeOK /\ Resolved /\ Unwinding /\ Unrepeated

(* Until the first wipe: what is on top of the stack, and what the pops of  *)
(* the loop's tail will find.                                              *)
OnTop(v) ==
    IF stack = <<>> THEN v \in {Home} \cup StartupViews ELSE stack[Len(stack)].view = v

Undisturbed ==
    wipes = 0 =>
        /\ wpc = "idle" /\ mpc # "crashed"
        /\ \A i \in DOMAIN stack : stack[i].ran
        /\ mpc \in Running => OnTop(cur)
        /\ mpc = "returned" /\ next.skip => stack # <<>>
        /\ mpc \in {"pop1", "pop2"} => stack # <<>>
        /\ mpc = "dispatch" /\ ~ToHome => OnTop(next.view)

(* At any time: what is on top of the stack when it is not empty is what     *)
(* the loop put there for the view it runs, or what a wipe appended.        *)
Topped(v) == stack = <<>> \/ stack[Len(stack)] \in {Entry(v), UnrunEntry(Home)}
OwnTop ==
    /\ mpc \in Running => Topped(cur)
    /\ mpc = "dispatch" /\ ~ToHome => Topped(next.view)

LoopInv == StackInv /\ Undisturbed /\ OwnTop

-----------------------------------------------------------------------------
(* Stacks. *)

(* What is left of a stack when its end is cut off.                         *)
LEMMA PrefixIsStack ==
    ASSUME NEW s \in Seq(Entries), NEW n \in 0..Len(s)
    PROVE  /\ SubSeq(s, 1, n) \in Seq(Entries)
           /\ Len(SubSeq(s, 1, n)) = n /\ DOMAIN SubSeq(s, 1, n) = 1..n
           /\ \A i \in 1..n : SubSeq(s, 1, n)[i] = s[i]
<1>1. Len(s) \in Nat /\ DOMAIN s = 1..Len(s)
  BY LenProperties
<1>2. CASE n = 0
  BY <1>1, <1>2, SubSeqProperties
<1>3. CASE n \in 1..Len(s)
  BY <1>1, <1>3, SubSeqProperties
<1> QED
  BY <1>1, <1>2, <1>3

LEMMA WithoutLastIsStack ==
    ASSUME NEW s \in Seq(Entries)
    PROVE  /\ WithoutLast(s) \in Seq(Entries)
           /\ DOMAIN WithoutLast(s) \subseteq DOMAIN s
           /\ \A i \in DOMAIN WithoutLast(s) : WithoutLast(s)[i] = s[i]
<1>1. Len(s) \in Nat /\ DOMAIN s = 1..Len(s)
  BY LenProperties
<1>2. CASE Len(s) = 0
  <2>1. SubSeq(s, 1, Len(s) - 1) = << >>
    BY <1>2, SubSeqEmpty
  <2> QED
    BY <2>1 DEF WithoutLast
<1>3. CASE Len(s) # 0
  <2>1. Len(s) - 1 \in 0..Len(s)
    BY <1>1, <1>3
  <2> QED
    BY <1>1, <2>1, PrefixIsStack DEF WithoutLast
<1> QED
  BY <1>2, <1>3

LEMMA TruncatedIsStack ==
    ASSUME NEW s \in Seq(Entries), NEW i \in Nat
    PROVE  /\ Truncated(s, i) \in Seq(Entries)
           /\ DOMAIN Truncated(s, i) \subseteq DOMAIN s
           /\ i \in DOMAIN s => i \notin DOMAIN Truncated(s, i)
           /\ \A j \in DOMAIN Truncated(s, i) : Truncated(s, i)[j] = s[j]
<1>1. Len(s) \in Nat /\ DOMAIN s = 1..Len(s)
  BY LenProperties
<1>2. CASE i = 0 \/ i > Len(s)
  BY <1>1, <1>2 DEF Truncated
<1>3. CASE ~(i = 0 \/ i > Len(s))
  <2>1. i - 1 \in 0..Len(s)
    BY <1>1, <1>3
  <2> QED
    BY <1>1, <1>3, <2>1, PrefixIsStack DEF Truncated
<1> QED
  BY <1>2, <1>3

LEMMA AppendIsStack ==
    ASSUME NEW s \in Seq(Entries), NEW e \in Entries
    PROVE  /\ Append(s, e) \in Seq(Entries) /\ Append(s, e) # << >>
           /\ Len(Append(s, e)) = Len(s) + 1
           /\ DOMAIN Append(s, e) = DOMAIN s \cup {Len(s) + 1}
           /\ Len(s) + 1 \notin DOMAIN s
           /\ \A i \in DOMAIN s : Append(s, e)[i] = s[i]
           /\ Append(s, e)[Len(s) + 1] = e
<1>1. Len(s) \in Nat /\ DOMAIN s = 1..Len(s)
  BY LenProperties
<1>2. /\ Append(s, e) \in Seq(Entries)
      /\ Len(Append(s, e)) = Len(s) + 1
      /\ \A i \in 1..Len(s) : Append(s, e)[i] = s[i]
      /\ Append(s, e)[Len(s) + 1] = e
  BY <1>1, AppendProperties
<1>3. DOMAIN Append(s, e) = 1..(Len(s) + 1)
  BY <1>2, LenProperties
<1>4. Append(s, e) # << >>
  BY <1>1, <1>2
<1> QED
  BY <1>1, <1>2, <1>3, <1>4

-----------------------------------------------------------------------------
(* The type invariant. *)
LEMMA DestinationIsTyped ==
    ASSUME NEW v \in Views \cup {Home, Back, None}, NEW skip \in BOOLEAN, NEW clear \in BOOLEAN
    PROVE  Destination(v, skip, clear) \in Destinations
  BY DEF Destination, Destinations

LEMMA InitIsTyped == Init => TypeOK
<1> SUFFICES ASSUME Init PROVE TypeOK
  OBVIOUS
<1>1. cur \in Views \cup {Home}
  BY ControllerAssumption DEF Init
<1>2. next \in Destinations
  BY <1>1, DestinationIsTyped DEF Init
<1>3. mpc \in MainPcs /\ wpc \in WipePcs
  BY DEF Init, MainPcs, WipePcs
<1>4. stack \in Seq(Entries)
  <2>1. stack = << >>
    BY DEF Init
  <2> QED
    BY <2>1
<1>5. clearH \in BOOLEAN /\ override \in BOOLEAN /\ autoWiped \in BOOLEAN
  BY DEF Init
<1>6. attr \in [Tracked -> {"absent", "held"}]
  BY DEF Init
<1>7. unwind \in Nat /\ wipes \in 0..MaxWipes
  BY ControllerAssumption DEF Init
<1> QED
  BY <1>1, <1>2, <1>3, <1>4, <1>5, <1>6, <1>7 DEF TypeOK, Entries

LEMMA ResetIsTyped ==
    ASSUME TypeOK, NEW fields
    PROVE  Reset(fields) \in [Tracked -> {"absent", "held"}]
  BY DEF TypeOK, Reset

(* The top of a stack that is not empty is an entry of it.                  *)
LEMMA TopIsEntry ==
    ASSUME NEW s \in Seq(Entries), s # << >>
    PROVE  Len(s) \in DOMAIN s /\ s[Len(s)] \in Entries
<1>1. Len(s) \in Nat /\ DOMAIN s = 1..Len(s)
  BY LenProperties
<1>2. Len(s) # 0
  BY EmptySeq
<1> QED
  BY <1>1, <1>2, ElementOfSeq

(* list.index finds the only place of the destination.                      *)
LEMMA OnlyOccurrence ==
    ASSUME TypeOK, Distinct(stack), Occurrences # {},
           NEW found, found = CHOOSE i \in Occurrences : \A j \in Occurrences : i <= j
    PROVE  found \in Occurrences /\ found \in Nat /\ \A j \in Occurrences : j = found
<1>1. DOMAIN stack = 1..Len(stack) /\ Len(stack) \in Nat
  BY LenProperties DEF TypeOK
<1>2. \A i, j \in Occurrences : i = j
  BY DEF Occurrences, Distinct
<1>3. \A i \in Occurrences : i \in Nat
  BY <1>1 DEF Occurrences
<1>4. \E i \in Occurrences : \A j \in Occurrences : i <= j
  <2>1. PICK i \in Occurrences : TRUE
    OBVIOUS
  <2>2. \A j \in Occurrences : i <= j
    BY <1>2, <1>3
  <2> QED
    BY <2>1, <2>2
<1> HIDE DEF Occurrences
<1>5. found \in Occurrences
  BY <1>4
<1> QED
  BY <1>2, <1>3, <1>5

LEMMA LoopIsTyped ==
    ASSUME StackInv, LoopStep
    PROVE  TypeOK'
<1> USE DEF stackVars, wipeVars, Entries, StackInv
<1>1. CASE Dispatch
  <2>1. cur' \in Views \cup {Home}
    <3>1. next.view \in Views \cup {Home, Back, None}
      BY DEF TypeOK, Destinations
    <3>2. next.view # Back
      BY <1>1 DEF Dispatch, Resolved
    <3> QED
      BY <1>1, <3>1, <3>2 DEF Dispatch
  <2>2. attr' \in [Tracked -> {"absent", "held"}]
    BY <1>1, ResetIsTyped DEF Dispatch
  <2>3. mpc' \in MainPcs
    BY <1>1 DEF Dispatch, MainPcs
  <2>4. stack' \in Seq(Entries)
    <3>1. stack' = stack \/ stack' = << >>
      BY <1>1 DEF Dispatch
    <3>2. << >> \in Seq(Entries)
      OBVIOUS
    <3> QED
      BY <3>1, <3>2 DEF TypeOK
  <2> QED
    BY <1>1, <2>1, <2>2, <2>3, <2>4 DEF Dispatch, TypeOK
<1>2. CASE EnterMainMenu
  <2>1. attr' \in [Tracked -> {"absent", "held"}]
    BY <1>2, ResetIsTyped DEF EnterMainMenu
  <2> QED
    BY <1>2, <2>1 DEF EnterMainMenu, TypeOK, MainPcs
<1>3. CASE AfterRun
  <2>1. stack' \in Seq(Entries)
    BY <1>3, WithoutLastIsStack DEF AfterRun, TypeOK
  <2>2. clearH' \in BOOLEAN
    BY <1>3 DEF AfterRun, TypeOK, Destinations
  <2>3. mpc' \in MainPcs
    BY <1>3 DEF AfterRun, MainPcs
  <2> QED
    BY <1>3, <2>1, <2>2, <2>3 DEF AfterRun, TypeOK
<1>4. CASE TestStack("back1", "pop1") \/ TestStack("back2", "pop2")
  <2>1. next' \in Destinations
    BY <1>4, DestinationIsTyped DEF TestStack, TypeOK
  <2>2. mpc' \in MainPcs
    BY <1>4 DEF TestStack, MainPcs
  <2> QED
    BY <1>4, <2>1, <2>2 DEF TestStack, TypeOK
<1>5. CASE PopCurrent
  <2>1. stack' \in Seq(Entries)
    BY <1>5, WithoutLastIsStack DEF PopCurrent, TypeOK
  <2> QED
    BY <1>5, <2>1 DEF PopCurrent, TypeOK, MainPcs
<1>6. CASE PopPrevious
  <2>1. stack' \in Seq(Entries)
    BY <1>6, WithoutLastIsStack DEF PopPrevious, TypeOK
  <2>2. next' \in Destinations
    <3>1. CASE stack = << >>
      BY <1>6, <3>1 DEF PopPrevious, TypeOK
    <3>2. CASE stack # << >>
      <4>1. stack[Len(stack)].view \in Views \cup {Home, Back, None}
        BY <3>2, TopIsEntry DEF TypeOK
      <4> QED
        BY <1>6, <3>2, <4>1, DestinationIsTyped DEF PopPrevious
    <3> QED
      BY <3>1, <3>2
  <2> QED
    BY <1>6, <2>1, <2>2 DEF PopPrevious, TypeOK, MainPcs
<1>7. CASE ApplyClearHistory
  BY <1>7 DEF ApplyClearHistory, TypeOK, MainPcs
<1>8. CASE FindDestination
  <2>1. Distinct(stack)
    BY <1>8 DEF FindDestination, Unrepeated, ToHome
  <2>2. unwind' \in Nat
    <3>1. CASE Occurrences = {}
      BY <1>8, <3>1 DEF FindDestination
    <3>2. CASE Occurrences # {}
      <4> HIDE DEF Entries
      <4> QED
        BY <1>8, <2>1, <3>2, OnlyOccurrence DEF FindDestination
    <3> QED
      BY <3>1, <3>2
  <2> QED
    BY <1>8, <2>2 DEF FindDestination, TypeOK, MainPcs
<1>9. CASE UnwindStack
  <2>1. stack' \in Seq(Entries)
    BY <1>9, TruncatedIsStack DEF UnwindStack, TypeOK
  <2> QED
    BY <1>9, <2>1 DEF UnwindStack, TypeOK, MainPcs
<1>10. CASE AppendDestination
  <2>1. Entry(next.view) \in Entries
    BY <1>10 DEF AppendDestination, Entry, TypeOK, Destinations, Resolved
  <2>2. stack' \in Seq(Entries)
    BY <1>10, <2>1, AppendIsStack DEF AppendDestination, TypeOK
  <2> QED
    BY <1>10, <2>2 DEF AppendDestination, TypeOK, MainPcs
<1> QED
  BY <1>1, <1>2, <1>3, <1>4, <1>5, <1>6, <1>7, <1>8, <1>9, <1>10 DEF LoopStep

LEMMA ViewIsTyped ==
    ASSUME TypeOK, ViewStep \/ KeyPressed \/ \E f \in Tracked : StoreAttribute(f)
    PROVE  TypeOK'
<1> USE DEF stackVars, wipeVars
<1>1. CASE WaitForInput \/ OverrideSeen \/ KeyPressed \/ ViewExits
  <2>1. mpc' \in MainPcs /\ override' \in BOOLEAN
    BY <1>1 DEF WaitForInput, OverrideSeen, KeyPressed, ViewExits, MainPcs, TypeOK
  <2>2. UNCHANGED <<cur, next, clearH, unwind, stack, attr, autoWiped, wpc, wipes>>
    BY <1>1 DEF WaitForInput, OverrideSeen, KeyPressed, ViewExits
  <2> QED
    BY <2>1, <2>2 DEF TypeOK
<1>2. CASE ScreensaverCheckFails \/ ViewRaises \/ \E d \in Destinations : ViewReturns(d)
  <2>1. Raised \in Destinations
    BY ControllerAssumption, DestinationIsTyped DEF Raised
  <2>2. next' \in Destinations /\ mpc' \in MainPcs
    BY <1>2, <2>1 DEF ScreensaverCheckFails, ViewRaises, ViewReturns, MainPcs
  <2>3. UNCHANGED <<cur, clearH, unwind, stack, attr, override, autoWiped, wpc, wipes>>
    BY <1>2 DEF ScreensaverCheckFails, ViewRaises, ViewReturns
  <2> QED
    BY <2>2, <2>3 DEF TypeOK
<1>3. ASSUME NEW f \in Tracked, StoreAttribute(f)
      PROVE  TypeOK'
  <2>1. attr' \in [Tracked -> {"absent", "held"}]
    BY <1>3 DEF StoreAttribute, TypeOK
  <2>2. UNCHANGED <<mpc, cur, next, clearH, unwind, stack, override, autoWiped, wpc, wipes>>
    BY <1>3 DEF StoreAttribute
  <2> QED
    BY <2>1, <2>2 DEF TypeOK
<1> QED
  BY <1>1, <1>2, <1>3 DEF ViewStep

LEMMA WipeIsTyped ==
    ASSUME TypeOK, WipeThread
    PROVE  TypeOK'
<1>1. wpc' \in WipePcs /\ UNCHANGED <<mpc, cur, next, clearH, unwind>>
  BY DEF WipeThread, WipeTimeout, WipeAttributes, WipeClearStack, WipeAppendHome,
         WipeSetFlag, WipeNotify, WipeStep, WipePcs
<1>2. stack' \in Seq(Entries)
  <2>1. << >> \in Seq(Entries)
    OBVIOUS
  <2>2. UnrunEntry(Home) \in Entries
    BY DEF UnrunEntry, Entries
  <2>3. stack' \in {stack, << >>, Append(stack, UnrunEntry(Home))}
    BY DEF WipeThread, WipeTimeout, WipeAttributes, WipeClearStack, WipeAppendHome,
           WipeSetFlag, WipeNotify
  <2>4. stack \in Seq(Entries)
    BY DEF TypeOK, Entries
  <2> QED
    BY <2>1, <2>2, <2>3, <2>4, AppendIsStack
<1>3. attr' \in [Tracked -> {"absent", "held"}]
  BY ResetIsTyped DEF WipeThread, WipeTimeout, WipeAttributes, WipeClearStack,
         WipeAppendHome, WipeSetFlag, WipeNotify, TypeOK
<1>4. override' \in BOOLEAN /\ autoWiped' \in BOOLEAN
  BY DEF WipeThread, WipeTimeout, WipeAttributes, WipeClearStack, WipeAppendHome,
         WipeSetFlag, WipeNotify, TypeOK
<1>5. wipes' \in 0..MaxWipes
  BY ControllerAssumption DEF WipeThread, WipeTimeout, WipeAttributes, WipeClearStack,
         WipeAppendHome, WipeSetFlag, WipeNotify, TypeOK
<1> QED
  BY <1>1, <1>2, <1>3, <1>4, <1>5 DEF TypeOK, Entries

-----------------------------------------------------------------------------
(* The back stack holds no destination twice. *)

LEMMA EmptyHasNoEntry == DOMAIN << >> = {}
  OBVIOUS

(* A step that leaves the stack alone and stays off the tail of the loop.   *)
LEMMA SameStack ==
    ASSUME StackInv, stack' = stack,
           wpc' = "append_home" => wpc = "append_home",
           \/ UNCHANGED <<mpc, next, unwind>>
           \/ {mpc, mpc'} \subseteq Running \cup {"returned", "exited"}
    PROVE  Resolved' /\ Unwinding' /\ Unrepeated'
<1>1. CASE UNCHANGED <<mpc, next, unwind>>
  BY <1>1 DEF StackInv, Resolved, Unwinding, Unrepeated, ToHome, Distinct
<1>2. CASE {mpc, mpc'} \subseteq Running \cup {"returned", "exited"}
  <2>1. ~ToHome
    BY <1>2 DEF ToHome, Running
  <2>2. mpc' \notin {"clear", "index", "truncate", "append", "dispatch"}
    BY <1>2 DEF Running
  <2> QED
    BY <2>1, <2>2 DEF StackInv, Resolved, Unwinding, Unrepeated, Distinct
<1> QED
  BY <1>1, <1>2

(* Cutting the end off a stack repeats nothing.                            *)
LEMMA CutStack ==
    ASSUME StackInv, ~ToHome, DOMAIN stack' \subseteq DOMAIN stack,
           \A i \in DOMAIN stack' : stack'[i] = stack[i],
           wpc' = wpc
    PROVE  /\ Unrepeated'
           /\ \A i \in DOMAIN stack' : stack'[i].view # None
  BY DEF StackInv, Resolved, Unrepeated, Distinct

LEMMA ViewRepeatsNothing ==
    ASSUME StackInv, ViewStep \/ KeyPressed \/ \E f \in Tracked : StoreAttribute(f)
    PROVE  Resolved' /\ Unwinding' /\ Unrepeated'
<1>1. stack' = stack /\ wpc' = wpc
  BY DEF ViewStep, WaitForInput, OverrideSeen, ScreensaverCheckFails, ViewReturns,
         ViewRaises, ViewExits, KeyPressed, StoreAttribute, stackVars, wipeVars
<1>2. {mpc, mpc'} \subseteq Running \cup {"returned", "exited"}
  BY DEF ViewStep, WaitForInput, OverrideSeen, ScreensaverCheckFails, ViewReturns,
         ViewRaises, ViewExits, KeyPressed, StoreAttribute, Running
<1> QED
  BY <1>1, <1>2, SameStack

LEMMA WipeRepeatsNothing ==
    ASSUME StackInv, WipeThread
    PROVE  Resolved' /\ Unwinding' /\ Unrepeated'
<1>1. UNCHANGED <<mpc, next, unwind>>
  BY DEF WipeThread, WipeTimeout, WipeAttributes, WipeClearStack, WipeAppendHome,
         WipeSetFlag, WipeNotify, WipeStep
<1>2. CASE WipeTimeout \/ WipeAttributes \/ WipeSetFlag \/ WipeNotify
  <2>1. stack' = stack /\ wpc' # "append_home"
    BY <1>2 DEF WipeTimeout, WipeAttributes, WipeSetFlag, WipeNotify, WipeStep
  <2> QED
    BY <1>1, <2>1, SameStack
<1>3. CASE WipeClearStack
  <2>1. DOMAIN stack' = {}
    BY <1>3, EmptyHasNoEntry DEF WipeClearStack
  <2> QED
    BY <1>1, <2>1 DEF StackInv, Resolved, Unwinding, Unrepeated, Distinct
<1>4. CASE WipeAppendHome
  <2> DEFINE last == Len(stack) + 1
  <2>1. stack \in Seq(Entries) /\ UnrunEntry(Home) \in Entries
    BY DEF StackInv, TypeOK, Entries, UnrunEntry
  <2>2. /\ DOMAIN stack' = DOMAIN stack \cup {last} /\ last \notin DOMAIN stack
        /\ \A i \in DOMAIN stack : stack'[i] = stack[i]
        /\ stack'[last].view = Home
    BY <1>4, <2>1, AppendIsStack DEF WipeAppendHome, UnrunEntry
  <2>3. ToHome' = ToHome /\ wpc = "append_home" /\ wpc' # "append_home"
    BY <1>1, <1>4 DEF WipeAppendHome, WipeStep, ToHome
  <2> HIDE DEF last
  <2>4. Resolved'
    BY <1>1, <2>2, <2>3, ControllerAssumption DEF StackInv, Resolved, Home, None
  <2>5. Unwinding'
    BY <1>1, <2>2 DEF StackInv, Unwinding
  <2>6. Unrepeated'
    BY <2>2, <2>3 DEF StackInv, Unrepeated, Distinct
  <2> QED
    BY <2>4, <2>5, <2>6
<1> QED
  BY <1>2, <1>3, <1>4 DEF WipeThread

LEMMA LoopRepeatsNothing ==
    ASSUME StackInv, LoopStep
    PROVE  Resolved' /\ Unwinding' /\ Unrepeated'
<1> USE DEF stackVars, wipeVars
<1>1. CASE Dispatch
  <2>1. wpc' = wpc /\ mpc' \in {"menu", "view"}
    BY <1>1 DEF Dispatch
  <2>2. CASE ToHome
    <3>1. DOMAIN stack' = {}
      BY <1>1, <2>2, EmptyHasNoEntry DEF Dispatch, ToHome
    <3> QED
      BY <2>1, <3>1 DEF Resolved, Unwinding, Unrepeated, Distinct
  <2>3. CASE ~ToHome
    <3>1. stack' = stack
      BY <1>1, <2>3 DEF Dispatch, ToHome
    <3> QED
      BY <2>1, <2>3, <3>1 DEF StackInv, Resolved, Unwinding, Unrepeated, Distinct
  <2> QED
    BY <2>2, <2>3
<1>2. CASE EnterMainMenu
  <2>1. {mpc, mpc'} \subseteq Running /\ UNCHANGED <<stack, wpc>>
    BY <1>2 DEF EnterMainMenu, Running
  <2> QED
    BY <2>1, SameStack
<1>3. CASE AfterRun
  <2>1. ~ToHome /\ wpc' = wpc /\ next' = next
    BY <1>3 DEF AfterRun, ToHome
  <2>2. stack' \in {stack, WithoutLast(stack)} /\ stack \in Seq(Entries)
    BY <1>3 DEF AfterRun, StackInv, TypeOK, Entries
  <2>3. DOMAIN stack' \subseteq DOMAIN stack /\ \A i \in DOMAIN stack' : stack'[i] = stack[i]
    BY <2>2, WithoutLastIsStack
  <2>4. mpc' \in {"crashed", "back1", "clear"} /\ (mpc' = "clear" => next.view # Back)
    BY <1>3 DEF AfterRun
  <2> QED
    BY <2>1, <2>3, <2>4, CutStack DEF Resolved, Unwinding
<1>4. CASE TestStack("back1", "pop1") \/ TestStack("back2", "pop2")
  <2>1. ~ToHome /\ wpc' = wpc /\ stack' = stack
    BY <1>4 DEF TestStack, ToHome
  <2>2. mpc' \in {"pop1", "pop2", "clear"} /\ (mpc' = "clear" => next'.view = None)
    BY <1>4 DEF TestStack, Destination
  <2>3. None # Back
    BY DEF None, Back
  <2> QED
    BY <2>1, <2>2, <2>3, CutStack DEF Resolved, Unwinding
<1>5. CASE PopCurrent \/ PopPrevious
  <2>1. ~ToHome /\ wpc' = wpc
    BY <1>5 DEF PopCurrent, PopPrevious, ToHome
  <2>2. stack' \in {stack, WithoutLast(stack)} /\ stack \in Seq(Entries)
    BY <1>5 DEF PopCurrent, PopPrevious, StackInv, TypeOK, Entries
  <2>3. DOMAIN stack' \subseteq DOMAIN stack /\ \A i \in DOMAIN stack' : stack'[i] = stack[i]
    BY <2>2, WithoutLastIsStack
  <2>4. mpc' \in {"crashed", "back2", "clear"}
    BY <1>5 DEF PopCurrent, PopPrevious
  <2>5. mpc' = "clear" => next'.view # Back
    <3>1. SUFFICES ASSUME mpc' = "clear" PROVE next'.view # Back
      OBVIOUS
    <3>2. stack # << >> /\ next'.view = stack[Len(stack)].view
      BY <1>5, <3>1 DEF PopCurrent, PopPrevious, Destination
    <3>3. stack[Len(stack)].view \in Views \cup {Home, None}
      BY <2>2, <3>2, TopIsEntry DEF Entries
    <3> QED
      BY <3>2, <3>3, ControllerAssumption DEF Home, None, Back
  <2> QED
    BY <2>1, <2>3, <2>4, <2>5, CutStack DEF Resolved, Unwinding
<1>6. CASE ApplyClearHistory
  <2>1. ~ToHome /\ wpc' = wpc /\ next' = next /\ mpc' = "index" /\ mpc = "clear"
    BY <1>6 DEF ApplyClearHistory, ToHome
  <2>2. DOMAIN stack' \subseteq DOMAIN stack /\ \A i \in DOMAIN stack' : stack'[i] = stack[i]
    BY <1>6, EmptyHasNoEntry DEF ApplyClearHistory
  <2> QED
    BY <2>1, <2>2, CutStack DEF StackInv, Resolved, Unwinding
<1>7. CASE FindDestination
  <2>1. ~ToHome /\ UNCHANGED <<wpc, next, stack>> /\ mpc' = "truncate" /\ mpc = "index"
    BY <1>7 DEF FindDestination, ToHome
  <2>2. \A j \in DOMAIN stack : stack[j].view = next.view => j = unwind'
    <3>1. CASE Occurrences = {}
      BY <3>1 DEF Occurrences
    <3>2. CASE Occurrences # {}
      <4>1. \A j \in Occurrences : j = unwind'
        BY <1>7, <2>1, <3>2, OnlyOccurrence DEF FindDestination, StackInv, Unrepeated
      <4> QED
        BY <4>1 DEF Occurrences
    <3> QED
      BY <3>1, <3>2
  <2> QED
    BY <2>1, <2>2, CutStack DEF StackInv, Resolved, Unwinding
<1>8. CASE UnwindStack
  <2>1. ~ToHome /\ UNCHANGED <<wpc, next>> /\ mpc' = "append" /\ mpc = "truncate"
    BY <1>8 DEF UnwindStack, ToHome
  <2>2. stack \in Seq(Entries) /\ unwind \in Nat
    BY DEF StackInv, TypeOK, Entries
  <2>3. /\ DOMAIN stack' \subseteq DOMAIN stack /\ \A i \in DOMAIN stack' : stack'[i] = stack[i]
        /\ unwind \in DOMAIN stack => unwind \notin DOMAIN stack'
    BY <1>8, <2>2, TruncatedIsStack DEF UnwindStack
  <2>4. next.view # Home => \A j \in DOMAIN stack' : stack'[j].view # next.view
    BY <2>1, <2>3 DEF StackInv, Unwinding
  <2> QED
    BY <2>1, <2>3, <2>4, CutStack DEF StackInv, Resolved, Unwinding
<1>9. CASE AppendDestination
  <2> DEFINE last == Len(stack) + 1
  <2>1. ~ToHome /\ UNCHANGED <<wpc, next>> /\ mpc' = "dispatch" /\ mpc = "append"
    BY <1>9 DEF AppendDestination, ToHome
  <2>2. stack \in Seq(Entries) /\ Entry(next.view) \in Entries
    BY <2>1 DEF StackInv, TypeOK, Entries, Entry, Resolved, Destinations
  <2>3. /\ DOMAIN stack' = DOMAIN stack \cup {last} /\ last \notin DOMAIN stack
        /\ \A i \in DOMAIN stack : stack'[i] = stack[i]
        /\ stack'[last].view = next.view
    BY <1>9, <2>2, AppendIsStack DEF AppendDestination, Entry
  <2> HIDE DEF last
  <2>4. ToHome' <=> next.view \in {Home, None}
    BY <2>1 DEF ToHome
  <2>5. Resolved'
    BY <2>1, <2>3, <2>4 DEF StackInv, Resolved
  <2>6. Unrepeated'
    <3>1. SUFFICES ASSUME next.view \notin {Home, None} PROVE Unrepeated'
      BY <2>4 DEF Unrepeated
    <3>2. \A j \in DOMAIN stack : stack[j].view # next.view
      BY <2>1, <3>1 DEF StackInv, Unwinding
    <3>3. Distinct(stack) /\ (wpc = "append_home" => \A i \in DOMAIN stack : stack[i].view # Home)
      BY <2>1 DEF StackInv, Unrepeated
    <3>4. Distinct(stack')
      BY <2>3, <3>2, <3>3 DEF Distinct
    <3>5. wpc' = "append_home" => \A i \in DOMAIN stack' : stack'[i].view # Home
      BY <2>1, <2>3, <3>1, <3>3
    <3> QED
      BY <3>4, <3>5 DEF Unrepeated, Distinct
  <2> QED
    BY <2>1, <2>5, <2>6 DEF Unwinding
<1> QED
  BY <1>1, <1>2, <1>3, <1>4, <1>5, <1>6, <1>7, <1>8, <1>9 DEF LoopStep

LEMMA StepKeepsStackInv ==
    ASSUME StackInv, [Next]_vars
    PROVE  StackInv'
<1>1. CASE LoopStep
  BY <1>1, LoopIsTyped, LoopRepeatsNothing DEF StackInv
<1>2. CASE ViewStep \/ KeyPressed \/ \E f \in Tracked : StoreAttribute(f)
  BY <1>2, ViewIsTyped, ViewRepeatsNothing DEF StackInv
<1>3. CASE WipeThread
  BY <1>3, WipeIsTyped, WipeRepeatsNothing DEF StackInv
<1>4. CASE UNCHANGED vars
  <2>1. TypeOK'
    BY <1>4 DEF vars, StackInv, TypeOK
  <2>2. UNCHANGED <<mpc, next, unwind, stack, wpc>>
    BY <1>4 DEF vars
  <2> QED
    BY <2>1, <2>2, SameStack DEF StackInv
<1> QED
  BY <1>1, <1>2, <1>3, <1>4 DEF Next

-----------------------------------------------------------------------------
(* Until the first wipe, what the loop pops is there. *)

LEMMA ViewDisturbsNothing ==
    ASSUME LoopInv, ViewStep \/ KeyPressed \/ \E f \in Tracked : StoreAttribute(f)
    PROVE  Undisturbed'
<1>1. SUFFICES ASSUME wipes' = 0 PROVE Undisturbed'
  BY DEF Undisturbed
<1>2. UNCHANGED <<cur, stack, wpc, wipes>> /\ mpc \in Running
  BY DEF ViewStep, WaitForInput, OverrideSeen, ScreensaverCheckFails, ViewReturns, ViewRaises,
         ViewExits, KeyPressed, StoreAttribute, stackVars, wipeVars, Running
<1>3. wpc = "idle" /\ (\A i \in DOMAIN stack : stack[i].ran) /\ OnTop(cur)
  BY <1>1, <1>2 DEF LoopInv, Undisturbed
<1>4. CASE WaitForInput \/ OverrideSeen \/ KeyPressed \/ ViewExits
           \/ \E f \in Tracked : StoreAttribute(f)
  <2>1. mpc' \in {"view", "wait", "exited"}
    BY <1>4 DEF WaitForInput, OverrideSeen, KeyPressed, ViewExits, StoreAttribute
  <2> QED
    BY <1>2, <1>3, <2>1 DEF Undisturbed, OnTop, Running, ToHome
<1>5. CASE ScreensaverCheckFails \/ ViewRaises \/ \E d \in Destinations : ViewReturns(d)
  <2>1. mpc' = "returned"
    BY <1>5 DEF ScreensaverCheckFails, ViewRaises, ViewReturns
  <2>2. next'.skip => stack # << >>
    <3>1. CASE ScreensaverCheckFails \/ ViewRaises
      BY <3>1 DEF ScreensaverCheckFails, ViewRaises, Raised, Destination
    <3>2. ASSUME NEW d \in Destinations, ViewReturns(d)
          PROVE  next'.skip => stack # << >>
      BY <1>3, <3>2 DEF ViewReturns, Returnable, OnTop
    <3> QED
      BY <1>5, <3>1, <3>2
  <2> QED
    BY <1>2, <1>3, <2>1, <2>2 DEF Undisturbed, Running, ToHome
<1> QED
  BY <1>4, <1>5 DEF ViewStep

LEMMA WipeDisturbsNothingEarlier ==
    ASSUME LoopInv, WipeThread
    PROVE  Undisturbed'
<1>1. CASE WipeTimeout
  BY <1>1 DEF WipeTimeout, LoopInv, StackInv, TypeOK, Undisturbed
<1>2. CASE ~WipeTimeout
  <2>1. wpc # "idle" /\ wipes' = wipes
    BY <1>2 DEF WipeThread, WipeAttributes, WipeClearStack, WipeAppendHome, WipeSetFlag,
                WipeNotify, WipeStep
  <2> QED
    BY <2>1 DEF LoopInv, Undisturbed
<1> QED
  BY <1>1, <1>2

LEMMA LoopDisturbsNothing ==
    ASSUME LoopInv, LoopStep
    PROVE  Undisturbed'
<1> USE DEF stackVars, wipeVars
<1>1. SUFFICES ASSUME wipes' = 0 PROVE Undisturbed'
  BY DEF Undisturbed
<1>2. UNCHANGED <<wpc, wipes>>
  BY DEF LoopStep, Dispatch, EnterMainMenu, AfterRun, TestStack, PopCurrent, PopPrevious,
         ApplyClearHistory, FindDestination, UnwindStack, AppendDestination
<1>3. /\ wpc = "idle" /\ \A i \in DOMAIN stack : stack[i].ran
      /\ mpc \in Running => OnTop(cur)
      /\ mpc = "returned" /\ next.skip => stack # << >>
      /\ mpc \in {"pop1", "pop2"} => stack # << >>
      /\ mpc = "dispatch" /\ ~ToHome => OnTop(next.view)
  BY <1>1, <1>2 DEF LoopInv, Undisturbed
<1>4. stack \in Seq(Entries)
  BY DEF LoopInv, StackInv, TypeOK, Entries
<1>5. CASE Dispatch
  <2>1. mpc' \in {"menu", "view"} /\ next' = next
    BY <1>5 DEF Dispatch
  <2>2. CASE ToHome
    <3>1. stack' = << >> /\ cur' = Home
      BY <1>5, <2>2 DEF Dispatch, ToHome
    <3> QED
      BY <1>2, <1>3, <2>1, <3>1, EmptyHasNoEntry DEF Undisturbed, OnTop, ToHome
  <2>3. CASE ~ToHome
    <3>1. stack' = stack /\ cur' = next.view /\ OnTop(next.view)
      BY <1>3, <1>5, <2>3 DEF Dispatch, ToHome
    <3> QED
      BY <1>2, <1>3, <2>1, <3>1 DEF Undisturbed, OnTop, ToHome
  <2> QED
    BY <2>2, <2>3
<1>6. CASE EnterMainMenu
  <2>1. UNCHANGED <<cur, stack>> /\ mpc = "menu" /\ mpc' = "view"
    BY <1>6 DEF EnterMainMenu
  <2> QED
    BY <1>2, <1>3, <2>1 DEF Undisturbed, OnTop, Running, ToHome
<1>7. CASE AfterRun
  <2>1. mpc' \in {"back1", "clear"}
    BY <1>3, <1>7 DEF AfterRun
  <2>2. stack' \in {stack, WithoutLast(stack)}
    BY <1>7 DEF AfterRun
  <2>3. \A i \in DOMAIN stack' : stack'[i].ran
    BY <1>3, <1>4, <2>2, WithoutLastIsStack
  <2> QED
    BY <1>2, <1>3, <2>1, <2>3 DEF Undisturbed, Running, ToHome
<1>8. CASE TestStack("back1", "pop1") \/ TestStack("back2", "pop2")
  <2>1. stack' = stack /\ mpc' \in {"clear", "pop1", "pop2"}
    BY <1>8 DEF TestStack
  <2>2. mpc' # "clear" => stack # << >>
    BY <1>8 DEF TestStack
  <2> QED
    BY <1>2, <1>3, <2>1, <2>2 DEF Undisturbed, Running, ToHome
<1>9. CASE PopCurrent \/ PopPrevious
  <2>1. stack' = WithoutLast(stack) /\ mpc' \in {"back2", "clear"}
    BY <1>3, <1>9 DEF PopCurrent, PopPrevious
  <2>2. \A i \in DOMAIN stack' : stack'[i].ran
    BY <1>3, <1>4, <2>1, WithoutLastIsStack
  <2> QED
    BY <1>2, <1>3, <2>1, <2>2 DEF Undisturbed, Running, ToHome
<1>10. CASE ApplyClearHistory \/ FindDestination \/ UnwindStack
  <2>1. mpc' \in {"index", "truncate", "append"}
    BY <1>10 DEF ApplyClearHistory, FindDestination, UnwindStack
  <2>2. stack' \in {stack, << >>, Truncated(stack, unwind)}
    BY <1>10 DEF ApplyClearHistory, FindDestination, UnwindStack
  <2>3. unwind \in Nat
    BY DEF LoopInv, StackInv, TypeOK
  <2>4. \A i \in DOMAIN stack' : stack'[i].ran
    <3>1. CASE stack' = stack
      BY <1>3, <3>1
    <3>2. CASE stack' = << >>
      BY <3>2, EmptyHasNoEntry
    <3>3. CASE stack' = Truncated(stack, unwind)
      <4>1. /\ DOMAIN stack' \subseteq DOMAIN stack
            /\ \A i \in DOMAIN stack' : stack'[i] = stack[i]
        BY <1>4, <2>3, <3>3, TruncatedIsStack
      <4> QED
        BY <1>3, <4>1
    <3> QED
      BY <2>2, <3>1, <3>2, <3>3
  <2> QED
    BY <1>2, <1>3, <2>1, <2>4 DEF Undisturbed, Running, ToHome
<1>11. CASE AppendDestination
  <2>1. mpc = "append" /\ mpc' = "dispatch" /\ next' = next
        /\ stack' = Append(stack, Entry(next.view))
    BY <1>11 DEF AppendDestination
  <2>2. Entry(next.view) \in Entries
    BY <2>1 DEF LoopInv, StackInv, TypeOK, Entries, Entry, Resolved, Destinations, ToHome
  <2>3. stack' # << >> /\ stack'[Len(stack')] = Entry(next.view)
        /\ \A i \in DOMAIN stack' : stack'[i].ran
    BY <1>3, <1>4, <2>1, <2>2, AppendIsStack DEF Entry
  <2>4. stack'[Len(stack')].view = next.view
    BY <2>3 DEF Entry
  <2> QED
    BY <1>2, <1>3, <2>1, <2>3, <2>4 DEF Undisturbed, OnTop, Running
<1> QED
  BY <1>5, <1>6, <1>7, <1>8, <1>9, <1>10, <1>11 DEF LoopStep

-----------------------------------------------------------------------------
(* Whenever a wipe falls, nothing but its own entry comes on top.           *)

LEMMA ViewKeepsTop ==
    ASSUME LoopInv, ViewStep \/ KeyPressed \/ \E f \in Tracked : StoreAttribute(f)
    PROVE  OwnTop'
<1>1. UNCHANGED <<cur, stack>> /\ mpc \in Running /\ mpc' # "dispatch"
  BY DEF ViewStep, WaitForInput, OverrideSeen, ScreensaverCheckFails, ViewReturns, ViewRaises,
         ViewExits, KeyPressed, StoreAttribute, stackVars, Running
<1> QED
  BY <1>1 DEF LoopInv, OwnTop, Topped

LEMMA WipeKeepsTop ==
    ASSUME LoopInv, WipeThread
    PROVE  OwnTop'
<1>1. UNCHANGED <<mpc, cur, next>>
  BY DEF WipeThread, WipeTimeout, WipeAttributes, WipeClearStack, WipeAppendHome,
         WipeSetFlag, WipeNotify, WipeStep
<1>2. stack' \in {stack, << >>, Append(stack, UnrunEntry(Home))}
  BY DEF WipeThread, WipeTimeout, WipeAttributes, WipeClearStack, WipeAppendHome,
         WipeSetFlag, WipeNotify
<1>3. stack \in Seq(Entries) /\ UnrunEntry(Home) \in Entries
  BY DEF LoopInv, StackInv, TypeOK, Entries, UnrunEntry
<1>4. stack' = Append(stack, UnrunEntry(Home)) => stack'[Len(stack')] = UnrunEntry(Home)
  BY <1>3, AppendIsStack
<1> QED
  BY <1>1, <1>2, <1>4 DEF LoopInv, OwnTop, Topped, ToHome

LEMMA LoopKeepsTop ==
    ASSUME LoopInv, LoopStep
    PROVE  OwnTop'
<1> USE DEF stackVars, wipeVars
<1>1. CASE Dispatch
  <2>1. mpc' \in {"menu", "view"}
    BY <1>1 DEF Dispatch
  <2>2. CASE ToHome
    <3>1. stack' = << >>
      BY <1>1, <2>2 DEF Dispatch, ToHome
    <3> QED
      BY <2>1, <3>1 DEF OwnTop, Topped
  <2>3. CASE ~ToHome
    <3>1. stack' = stack /\ cur' = next.view /\ Topped(next.view)
      BY <1>1, <2>3 DEF Dispatch, ToHome, LoopInv, OwnTop
    <3> QED
      BY <2>1, <3>1 DEF OwnTop, Topped
  <2> QED
    BY <2>2, <2>3
<1>2. CASE EnterMainMenu
  <2>1. UNCHANGED <<cur, stack>> /\ mpc = "menu" /\ mpc' = "view"
    BY <1>2 DEF EnterMainMenu
  <2> QED
    BY <2>1 DEF LoopInv, OwnTop, Topped, Running
<1>3. CASE AppendDestination
  <2>1. mpc = "append" /\ mpc' = "dispatch" /\ next' = next
        /\ stack' = Append(stack, Entry(next.view))
    BY <1>3 DEF AppendDestination
  <2>2. Entry(next.view) \in Entries /\ stack \in Seq(Entries)
    BY <2>1 DEF LoopInv, StackInv, TypeOK, Entries, Entry, Resolved, Destinations, ToHome
  <2>3. stack'[Len(stack')] = Entry(next.view)
    BY <2>1, <2>2, AppendIsStack
  <2> QED
    BY <2>1, <2>3 DEF OwnTop, Topped, Running
<1>4. CASE \/ AfterRun \/ TestStack("back1", "pop1") \/ TestStack("back2", "pop2")
           \/ PopCurrent \/ PopPrevious \/ ApplyClearHistory \/ FindDestination \/ UnwindStack
  <2>1. mpc' \notin Running \cup {"dispatch"}
    BY <1>4 DEF AfterRun, TestStack, PopCurrent, PopPrevious, ApplyClearHistory, FindDestination,
                UnwindStack, Running
  <2> QED
    BY <2>1 DEF OwnTop
<1> QED
  BY <1>1, <1>2, <1>3, <1>4 DEF LoopStep

LEMMA InitHasLoopInv == Init => LoopInv
<1> SUFFICES ASSUME Init PROVE LoopInv
  OBVIOUS
<1>1. DOMAIN stack = {} /\ stack = << >> /\ mpc = "dispatch"
  BY EmptyHasNoEntry DEF Init
<1>2. next.view = cur /\ cur \in {Home} \cup StartupViews /\ wpc = "idle"
  BY DEF Init, Destination
<1>3. next.view # Back
  BY <1>2, ControllerAssumption DEF Home, Back
<1>4. Resolved /\ Unwinding /\ Unrepeated
  BY <1>1, <1>2, <1>3 DEF Resolved, Unwinding, Unrepeated, Distinct
<1>5. Undisturbed
  BY <1>1, <1>2 DEF Undisturbed, OnTop, Running
<1>6. OwnTop
  BY <1>1 DEF OwnTop, Topped
<1> QED
  BY <1>4, <1>5, <1>6, InitIsTyped DEF LoopInv, StackInv

LEMMA StepKeepsLoopInv ==
    ASSUME LoopInv, [Next]_vars
    PROVE  LoopInv'
<1>1. StackInv'
  BY StepKeepsStackInv DEF LoopInv
<1>2. Undisturbed'
  <2>1. CASE UNCHANGED vars
    BY <2>1 DEF vars, LoopInv, Undisturbed, OnTop, ToHome
  <2> QED
    BY <2>1, LoopDisturbsNothing, ViewDisturbsNothing, WipeDisturbsNothingEarlier DEF Next
<1>3. OwnTop'
  <2>1. CASE UNCHANGED vars
    BY <2>1 DEF vars, LoopInv, OwnTop, Topped, ToHome
  <2> QED
    BY <2>1, LoopKeepsTop, ViewKeepsTop, WipeKeepsTop DEF Next
<1> QED
  BY <1>1, <1>2, <1>3 DEF LoopInv

LEMMA LoopAlways == Spec => []LoopInv
  BY InitHasLoopInv, StepKeepsLoopInv, PTL DEF Spec

-----------------------------------------------------------------------------
(* The state of Controller.start and of handle_wipe_timeout is well typed;   *)
(* in particular the loop never dispatches "back" as if it were a view.     *)
THEOREM ControllerIsTyped == Spec => []TypeOK
<1>1. LoopInv => TypeOK
  BY DEF LoopInv, StackInv
<1> QED
  BY <1>1, LoopAlways, PTL

(* While a view runs, no destination is on back_stack twice: list.index and  *)
(* the truncation after it keep this, although a wipe may replace the       *)
(* stack between any two of their statements.                              *)
THEOREM StackHasNoRepeats == Spec => []NoRepeats
<1>1. LoopInv => NoRepeats
  BY DEF LoopInv, StackInv, Unrepeated, ToHome, Distinct, NoRepeats, Running
<1> QED
  BY <1>1, LoopAlways, PTL

(* Whenever an auto-wipe falls, the screensaver check finds the view on      *)
(* screen on top of back_stack, an empty stack, or the one Destination that *)
(* the wipe appended; until the first one, always the view on screen.       *)
THEOREM TopOfStackIsCurrent == Spec => []TopIsCurrentView
<1>1. LoopInv => TopIsCurrentView
  <2>1. SUFFICES ASSUME LoopInv, mpc = "wait"
                 PROVE  \/ stack # << >> /\ ActiveView = cur
                        \/ stack = << >> /\ cur \in {Home} \cup StartupViews
                        \/ wipes > 0 /\ (stack = << >> \/ stack[Len(stack)] = UnrunEntry(Home))
    BY DEF TopIsCurrentView
  <2>2. CASE wipes = 0
    <3>1. OnTop(cur) /\ \A i \in DOMAIN stack : stack[i].ran
      BY <2>1, <2>2 DEF LoopInv, Undisturbed, Running
    <3>2. stack # << >> => Len(stack) \in DOMAIN stack
      BY <2>1, TopIsEntry DEF LoopInv, StackInv, TypeOK, Entries
    <3> QED
      BY <3>1, <3>2 DEF OnTop, ActiveView
  <2>3. CASE wipes # 0
    <3>1. wipes > 0
      BY <2>1, <2>3, ControllerAssumption DEF LoopInv, StackInv, TypeOK
    <3>2. Topped(cur)
      BY <2>1 DEF LoopInv, OwnTop, Running
    <3> QED
      BY <3>1, <3>2 DEF Topped, ActiveView, Entry
  <2> QED
    BY <2>2, <2>3
<1> QED
  BY <1>1, LoopAlways, PTL

(* Until the first auto-wipe no pop of back_stack at the tail of the loop    *)
(* finds it empty.                                                         *)
THEOREM LoopSurvivesUntilWipe == Spec => []SurvivesUntilWipe
<1>1. LoopInv => SurvivesUntilWipe
  BY DEF LoopInv, Undisturbed, SurvivesUntilWipe, LoopSurvives
<1> QED
  BY <1>1, LoopAlways, PTL

-----------------------------------------------------------------------------
(* The visited views of a stack. *)

AnyView == Views \cup {Home, None}
NoneTwice(h) == \A i, j \in DOMAIN h : h[i] = h[j] => i = j

\* The place of the main menu on a stack, or one past its end.
HomeAt(s, k) == k \in 1..(Len(s) + 1) /\ \A i \in DOMAIN s : s[i].view = Home <=> i = k

Left(s, k) == IF k <= Len(s) THEN Len(s) - 1 ELSE Len(s)
At(k, i) == IF i < k THEN i ELSE i + 1

LEMMA PrefixIsFunction ==
    ASSUME NEW S, NEW s \in Seq(S), NEW n \in 0..Len(s)
    PROVE  SubSeq(s, 1, n) = [i \in 1..n |-> s[i]]
<1>1. Len(s) \in Nat /\ DOMAIN s = 1..Len(s)
  BY LenProperties
<1>2. SubSeq(s, 1, n) = [i \in 1..(1 + n - 1) |-> s[i + 1 - 1]]
  BY <1>1
<1> QED
  BY <1>1, <1>2

LEMMA AtIs ==
    ASSUME NEW k \in Nat, NEW i \in Nat
    PROVE  /\ i < k => At(k, i) = i
           /\ k <= i => At(k, i) = i + 1
BY DEF At

LEMMA LeftIs ==
    ASSUME NEW s, NEW k
    PROVE  /\ k <= Len(s) => Left(s, k) = Len(s) - 1
           /\ ~(k <= Len(s)) => Left(s, k) = Len(s)
BY DEF Left

LEMMA DomainOfStack ==
    ASSUME NEW s \in Seq(Entries)
    PROVE  Len(s) \in Nat /\ DOMAIN s = 1..Len(s) /\ \A i \in 1..Len(s) : s[i].view \in AnyView
<1>1. Len(s) \in Nat /\ DOMAIN s = 1..Len(s)
  BY LenProperties
<1>2. \A i \in 1..Len(s) : s[i] \in Entries
  BY <1>1, ElementOfSeq
<1>3. \A e \in Entries : e.view \in AnyView
  BY DEF Entries, AnyView
<1> QED
  BY <1>1, <1>2, <1>3

LEMMA HomeIsSomewhere ==
    ASSUME NEW s \in Seq(Entries), Distinct(s)
    PROVE  \E k : HomeAt(s, k)
<1>1. Len(s) \in Nat /\ DOMAIN s = 1..Len(s)
  BY DomainOfStack
<1>2. CASE \A i \in DOMAIN s : s[i].view # Home
  <2>1. HomeAt(s, Len(s) + 1)
    BY <1>1, <1>2 DEF HomeAt
  <2> QED
    BY <2>1
<1>3. ASSUME NEW k \in DOMAIN s, s[k].view = Home
      PROVE  HomeAt(s, k)
  BY <1>1, <1>3 DEF HomeAt, Distinct
<1> QED
  BY <1>2, <1>3

LEMMA VisitedIs ==
    ASSUME NEW s \in Seq(Entries), NEW k, HomeAt(s, k)
    PROVE  Visited(s) = [i \in 1..Left(s, k) |-> s[At(k, i)].view]
<1>1. Len(s) \in Nat /\ DOMAIN s = 1..Len(s) /\ k \in 1..(Len(s) + 1)
  BY DomainOfStack DEF HomeAt
<1>2. CASE k = Len(s) + 1
  <2>1. ~HomeOn(s)
    BY <1>1, <1>2 DEF HomeOn, HomeAt
  <2>2. Visited(s) = [i \in 1..Len(s) |-> s[i].view]
    BY <2>1 DEF Visited
  <2>3. Left(s, k) = Len(s)
    <3>1. ~(k <= Len(s))
      BY <1>1, <1>2
    <3> QED
      BY <3>1, LeftIs
  <2>4. \A i \in 1..Len(s) : At(k, i) = i
    <3>1. k \in Nat /\ \A i \in 1..Len(s) : i \in Nat /\ i < k
      BY <1>1, <1>2
    <3> QED
      BY <3>1, AtIs
  <2> QED
    BY <2>2, <2>3, <2>4
<1>3. CASE k \in 1..Len(s)
  <2> DEFINE home == CHOOSE i \in DOMAIN s : s[i].view = Home
  <2>1. home = k /\ HomeOn(s)
    BY <1>1, <1>3 DEF HomeAt, HomeOn
  <2>2. Visited(s) = [i \in 1..(Len(s) - 1) |-> s[IF i < home THEN i ELSE i + 1].view]
    BY <2>1 DEF Visited
  <2> HIDE DEF home
  <2>3. Left(s, k) = Len(s) - 1
    BY <1>1, <1>3 DEF Left
  <2> QED
    BY <2>1, <2>2, <2>3 DEF At
<1> QED
  BY <1>1, <1>2, <1>3

LEMMA AtProperties ==
    ASSUME NEW s \in Seq(Entries), NEW k, HomeAt(s, k)
    PROVE  /\ k \in Nat /\ Left(s, k) \in Nat
           /\ \A i \in 1..Left(s, k) : At(k, i) \in 1..Len(s)
           /\ \A i, j \in 1..Left(s, k) : At(k, i) = At(k, j) => i = j
<1>1. Len(s) \in Nat /\ k \in 1..(Len(s) + 1)
  BY DomainOfStack DEF HomeAt
<1> QED
  BY <1>1 DEF At, Left

LEMMA VisitedIsSeq ==
    ASSUME NEW s \in Seq(Entries), NEW k, HomeAt(s, k)
    PROVE  /\ Visited(s) \in Seq(AnyView) /\ Len(Visited(s)) = Left(s, k)
           /\ DOMAIN Visited(s) = 1..Left(s, k)
           /\ \A i \in 1..Left(s, k) : Visited(s)[i] = s[At(k, i)].view
<1>1. Visited(s) = [i \in 1..Left(s, k) |-> s[At(k, i)].view]
  BY VisitedIs
<1>2. Left(s, k) \in Nat /\ \A i \in 1..Left(s, k) : s[At(k, i)].view \in AnyView
  BY AtProperties, DomainOfStack
<1> QED
  BY <1>1, <1>2

LEMMA VisitedNoneTwice ==
    ASSUME NEW s \in Seq(Entries), Distinct(s)
    PROVE  NoneTwice(Visited(s))
<1>1. PICK k : HomeAt(s, k)
  BY HomeIsSomewhere
<1>2. ASSUME NEW i \in 1..Left(s, k), NEW j \in 1..Left(s, k), s[At(k, i)].view = s[At(k, j)].view
      PROVE  i = j
  <2>1. At(k, i) \in DOMAIN s /\ At(k, j) \in DOMAIN s
    BY <1>1, AtProperties, DomainOfStack
  <2>2. At(k, i) = At(k, j)
    BY <1>2, <2>1 DEF Distinct
  <2> QED
    BY <1>1, <2>2, AtProperties
<1> QED
  BY <1>1, <1>2, VisitedIsSeq DEF NoneTwice

(* What is left of the visited views when the stack is cut.                 *)
LEMMA CutVisited ==
    ASSUME NEW s \in Seq(Entries), NEW k, HomeAt(s, k), NEW n \in 0..Len(s)
    PROVE  Visited(SubSeq(s, 1, n)) = [i \in 1..(IF k <= n THEN n - 1 ELSE n) |-> Visited(s)[i]]
<1> DEFINE t == SubSeq(s, 1, n)
           l == IF k <= n THEN k ELSE n + 1
           m == IF k <= n THEN n - 1 ELSE n
<1>1. Len(s) \in Nat /\ DOMAIN s = 1..Len(s) /\ k \in 1..(Len(s) + 1)
  BY DomainOfStack DEF HomeAt
<1>2. t = [i \in 1..n |-> s[i]]
  BY PrefixIsFunction
<1>3. t \in Seq(Entries) /\ Len(t) = n /\ DOMAIN t = 1..n /\ \A i \in 1..n : t[i] = s[i]
  <2>1. \A i \in 1..n : s[i] \in Entries
    BY <1>1, ElementOfSeq
  <2> QED
    BY <1>1, <1>2, <2>1
<1> HIDE DEF t
<1>4. HomeAt(t, l)
  BY <1>1, <1>3 DEF HomeAt
<1>5. Left(t, l) = m
  BY <1>1, <1>3 DEF Left
<1>6. Visited(t) = [i \in 1..m |-> t[At(l, i)].view]
  BY <1>3, <1>4, <1>5, VisitedIs
<1>7. ASSUME NEW i \in 1..m PROVE t[At(l, i)].view = Visited(s)[i]
  <2>1. At(l, i) = At(k, i) /\ At(k, i) \in 1..n /\ i \in 1..Left(s, k)
    BY <1>1 DEF At, Left
  <2> QED
    BY <1>3, <2>1, VisitedIsSeq
<1> HIDE DEF l, m
<1>8. Visited(t) = [i \in 1..m |-> Visited(s)[i]]
  BY <1>6, <1>7
<1> QED
  BY <1>8 DEF t, m

LEMMA WithoutLastVisited ==
    ASSUME NEW s \in Seq(Entries), s # << >>, NEW k, HomeAt(s, k)
    PROVE  /\ s[Len(s)].view = Home => Visited(WithoutLast(s)) = Visited(s)
           /\ s[Len(s)].view # Home =>
                 /\ Visited(WithoutLast(s)) = Nav!WithoutLast(Visited(s))
                 /\ Visited(s) # << >> /\ Visited(s)[Len(Visited(s))] = s[Len(s)].view
<1>1. /\ Len(s) \in Nat /\ Len(s) >= 1 /\ DOMAIN s = 1..Len(s) /\ k \in 1..(Len(s) + 1)
      /\ Len(s) \in DOMAIN s
  <2>1. Len(s) \in Nat /\ Len(s) # 0 /\ DOMAIN s = 1..Len(s) /\ k \in 1..(Len(s) + 1)
    BY DomainOfStack, EmptySeq DEF HomeAt
  <2> QED
    BY <2>1
<1>2. WithoutLast(s) = SubSeq(s, 1, Len(s) - 1) /\ Len(s) - 1 \in 0..Len(s)
  BY <1>1 DEF WithoutLast
<1>3. /\ Visited(s) \in Seq(AnyView) /\ Len(Visited(s)) = Left(s, k)
      /\ DOMAIN Visited(s) = 1..Left(s, k)
      /\ \A i \in 1..Left(s, k) : Visited(s)[i] = s[At(k, i)].view
  BY VisitedIsSeq
<1>4. CASE s[Len(s)].view = Home
  <2>1. k = Len(s)
    BY <1>1, <1>4 DEF HomeAt
  <2>2. Visited(WithoutLast(s)) = [i \in 1..(Len(s) - 1) |-> Visited(s)[i]]
    BY <1>1, <1>2, <2>1, CutVisited
  <2>3. Left(s, k) = Len(s) - 1
    BY <1>1, <2>1 DEF Left
  <2> QED
    BY <1>3, <1>4, <2>2, <2>3
<1>5. CASE s[Len(s)].view # Home
  <2> DEFINE n == Left(s, k)
  <2>1. k # Len(s)
    BY <1>1, <1>5 DEF HomeAt
  <2>2. /\ n \in Nat /\ n >= 1 /\ At(k, n) = Len(s)
        /\ (IF k <= Len(s) - 1 THEN Len(s) - 1 - 1 ELSE Len(s) - 1) = n - 1
    <3>1. ASSUME NEW len \in Nat, len >= 1, NEW m, k \in 1..(len + 1), k # len,
                 m = IF k <= len THEN len - 1 ELSE len
          PROVE  /\ m \in Nat /\ m >= 1 /\ (m < k => m = len) /\ (k <= m => m + 1 = len)
                 /\ (IF k <= len - 1 THEN len - 1 - 1 ELSE len - 1) = m - 1
      BY <3>1
    <3>2. /\ n \in Nat /\ n >= 1 /\ (n < k => n = Len(s)) /\ (k <= n => n + 1 = Len(s))
          /\ (IF k <= Len(s) - 1 THEN Len(s) - 1 - 1 ELSE Len(s) - 1) = n - 1
      BY <1>1, <2>1, <3>1 DEF Left
    <3>3. At(k, n) = Len(s)
      <4>1. k \in Nat /\ (n < k \/ k <= n)
        BY <1>1, <3>2
      <4> HIDE DEF n
      <4> QED
        BY <3>2, <4>1, AtIs
    <3> QED
      BY <3>2, <3>3
  <2>3. Visited(WithoutLast(s)) = [i \in 1..(n - 1) |-> Visited(s)[i]]
    BY <1>2, <2>2, CutVisited
  <2>4. Visited(s)[n] = s[Len(s)].view /\ Visited(s) # << >>
    BY <1>3, <2>2
  <2>5. Nav!WithoutLast(Visited(s)) = [i \in 1..(n - 1) |-> Visited(s)[i]]
    <3>1. n - 1 \in 0..Len(Visited(s))
      BY <1>3, <2>2
    <3> QED
      BY <1>3, <3>1, PrefixIsFunction DEF Nav!WithoutLast
  <2> QED
    BY <1>3, <1>5, <2>3, <2>4, <2>5
<1> QED
  BY <1>4, <1>5

LEMMA UnwoundWithout ==
    ASSUME NEW h, NEW v, \A i \in DOMAIN h : h[i] # v
    PROVE  Nav!Unwound(h, v) = h
BY DEF Nav!Unwound, Nav!Occurs

LEMMA UnwoundAt ==
    ASSUME NEW h \in Seq(AnyView), NoneTwice(h), NEW k \in DOMAIN h
    PROVE  Nav!Unwound(h, h[k]) = [i \in 1..(k - 1) |-> h[i]]
<1>1. Len(h) \in Nat /\ DOMAIN h = 1..Len(h)
  BY LenProperties
<1>2. Nav!FirstIndex(h, h[k]) = k
  BY <1>1 DEF Nav!FirstIndex, NoneTwice
<1>3. Nav!Occurs(h, h[k])
  BY DEF Nav!Occurs
<1>4. Nav!Unwound(h, h[k]) = SubSeq(h, 1, k - 1) /\ k - 1 \in 0..Len(h)
  BY <1>1, <1>2, <1>3 DEF Nav!Unwound
<1> QED
  BY <1>4, PrefixIsFunction

(* The loop cuts its stack where Navigation cuts the history.               *)
LEMMA TruncatedVisited ==
    ASSUME NEW s \in Seq(Entries), Distinct(s), NEW v, v # Home, NEW j \in Nat,
           \A i \in DOMAIN s : s[i].view = v => i = j,
           j # 0 => j \in DOMAIN s /\ s[j].view = v
    PROVE  Visited(Truncated(s, j)) = Nav!Unwound(Visited(s), v)
<1>1. PICK k : HomeAt(s, k)
  BY HomeIsSomewhere
<1>2. Len(s) \in Nat /\ DOMAIN s = 1..Len(s) /\ k \in 1..(Len(s) + 1)
  BY <1>1, DomainOfStack DEF HomeAt
<1>3. /\ Visited(s) \in Seq(AnyView) /\ Len(Visited(s)) = Left(s, k)
      /\ DOMAIN Visited(s) = 1..Left(s, k)
      /\ \A i \in 1..Left(s, k) : Visited(s)[i] = s[At(k, i)].view /\ At(k, i) \in DOMAIN s
  BY <1>1, <1>2, VisitedIsSeq, AtProperties
<1>4. CASE j = 0
  <2>1. Truncated(s, j) = s
    BY <1>4 DEF Truncated
  <2>2. \A i \in DOMAIN Visited(s) : Visited(s)[i] # v
    BY <1>2, <1>3, <1>4
  <2> QED
    BY <2>1, <2>2, UnwoundWithout
<1>5. CASE j # 0
  <2> DEFINE p == IF j < k THEN j ELSE j - 1
  <2>1. j \in 1..Len(s) /\ s[j].view = v /\ j # k
    BY <1>1, <1>2, <1>5 DEF HomeAt
  <2>2. /\ p \in 1..Left(s, k) /\ At(k, p) = j /\ j - 1 \in 0..Len(s)
        /\ (IF k <= j - 1 THEN j - 1 - 1 ELSE j - 1) = p - 1
    BY <1>2, <2>1 DEF Left, At
  <2>3. Truncated(s, j) = SubSeq(s, 1, j - 1)
    BY <1>2, <2>1 DEF Truncated
  <2>4. Visited(Truncated(s, j)) = [i \in 1..(p - 1) |-> Visited(s)[i]]
    BY <1>1, <2>2, <2>3, CutVisited
  <2> HIDE DEF p
  <2>5. Visited(s)[p] = v /\ p \in DOMAIN Visited(s)
    BY <1>3, <2>1, <2>2
  <2>6. NoneTwice(Visited(s))
    BY VisitedNoneTwice
  <2> QED
    BY <1>3, <2>4, <2>5, <2>6, UnwoundAt
<1> QED
  BY <1>4, <1>5

LEMMA AppendVisited ==
    ASSUME NEW s \in Seq(Entries), Distinct(s), NEW e \in Entries
    PROVE  /\ e.view # Home => Visited(Append(s, e)) = Append(Visited(s), e.view)
           /\ e.view = Home /\ (\A i \in DOMAIN s : s[i].view # Home) => Visited(Append(s, e)) = Visited(s)
<1> DEFINE t == Append(s, e)
<1>1. PICK k : HomeAt(s, k)
  BY HomeIsSomewhere
<1>2. Len(s) \in Nat /\ DOMAIN s = 1..Len(s) /\ k \in 1..(Len(s) + 1)
  BY <1>1, DomainOfStack DEF HomeAt
<1>3. /\ t \in Seq(Entries) /\ Len(t) = Len(s) + 1 /\ DOMAIN t = 1..(Len(s) + 1)
      /\ \A i \in 1..Len(s) : t[i] = s[i]
      /\ t[Len(s) + 1] = e
  BY <1>2
<1>4. /\ Visited(s) \in Seq(AnyView) /\ Len(Visited(s)) = Left(s, k)
      /\ DOMAIN Visited(s) = 1..Left(s, k)
      /\ \A i \in 1..Left(s, k) : Visited(s)[i] = s[At(k, i)].view /\ At(k, i) \in 1..Len(s)
  BY <1>1, VisitedIsSeq, AtProperties
<1> HIDE DEF t
<1>5. CASE e.view # Home
  <2> DEFINE l == IF k = Len(s) + 1 THEN k + 1 ELSE k
  <2>1. HomeAt(t, l)
    BY <1>1, <1>2, <1>3, <1>5 DEF HomeAt
  <2>2. /\ Left(t, l) = Left(s, k) + 1 /\ Left(s, k) \in Nat
        /\ At(l, Left(s, k) + 1) = Len(s) + 1
        /\ \A i \in 1..Left(s, k) : At(l, i) = At(k, i)
    BY <1>2, <1>3 DEF Left, At
  <2>3. Visited(t) = [i \in 1..(Left(s, k) + 1) |-> t[At(l, i)].view]
    BY <1>3, <2>1, <2>2, VisitedIs
  <2> HIDE DEF l
  <2> DEFINE n == Left(s, k)
  <2>4. \A i \in 1..n : t[At(l, i)].view = Visited(s)[i]
    BY <1>3, <1>4, <2>2
  <2>5. t[At(l, n + 1)].view = e.view
    BY <1>3, <2>2
  <2>6. Append(Visited(s), e.view) = [i \in 1..(n + 1) |-> IF i = n + 1 THEN e.view ELSE Visited(s)[i]]
    BY <1>4, <2>2
  <2>7. \A i \in 1..(n + 1) : i = n + 1 \/ i \in 1..n
    BY <2>2
  <2> HIDE DEF n
  <2>8. Visited(t) = [i \in 1..(n + 1) |-> IF i = n + 1 THEN e.view ELSE Visited(s)[i]]
    BY <2>3, <2>4, <2>5, <2>7 DEF n
  <2> QED
    BY <1>5, <2>6, <2>8 DEF t
<1>6. CASE e.view = Home /\ \A i \in DOMAIN s : s[i].view # Home
  <2>1. k = Len(s) + 1
    BY <1>1, <1>2, <1>6 DEF HomeAt
  <2>2. HomeAt(t, k)
    BY <1>2, <1>3, <1>6, <2>1 DEF HomeAt
  <2>3. Left(t, k) = Left(s, k) /\ Left(s, k) = Len(s)
    <3>1. ~(k <= Len(s)) /\ k <= Len(t) /\ Len(t) - 1 = Len(s)
      BY <1>2, <1>3, <2>1
    <3> QED
      BY <3>1, LeftIs
  <2>5. \A i \in 1..Len(s) : At(k, i) = i
    <3>1. k \in Nat /\ \A i \in 1..Len(s) : i \in Nat /\ i < k
      BY <1>2, <2>1
    <3> QED
      BY <3>1, AtIs
  <2>4. Visited(t) = [i \in 1..Len(s) |-> t[At(k, i)].view] /\ Visited(s) = [i \in 1..Len(s) |-> s[At(k, i)].view]
    BY <1>1, <1>3, <2>2, <2>3, VisitedIs
  <2> QED
    BY <1>3, <1>6, <2>4, <2>5 DEF t
<1> QED
  BY <1>5, <1>6

-----------------------------------------------------------------------------
(* The loop implements Navigation. *)

Bases == {past, Nav!WithoutLast(past)}

(* What is left of the history below next_destination, by Visit or GoBack.  *)
Entering(h) ==
    \/ \E b \in Bases \cup {<< >>} : h = Nav!Unwound(b, next.view)
    \/ \E b \in Bases : /\ Len(b) >= 2 /\ next.view = b[Len(b) - 1]
                        /\ h = Nav!Unwound(Nav!WithoutLast(Nav!WithoutLast(b)), next.view)

Forwards == next.view \notin {Home, None}

(* What each statement of the loop has made of the stack, compared with the  *)
(* history that Navigation is still to step from.                          *)
HistInv ==
    /\ past \in Seq(AnyView)
    /\ mpc \in Running \cup {"returned"} => past = Visited(stack)
    /\ mpc \in {"back1", "pop1"} => Visited(stack) \in Bases
    /\ mpc \in {"back2", "pop2"} =>
           \E b \in Bases : Visited(stack) = b \/ (Visited(stack) = Nav!WithoutLast(b) /\ b # << >>)
    /\ mpc \in {"clear", "index", "truncate"} /\ Forwards =>
           Entering(Nav!Unwound(Visited(stack), next.view))
    /\ mpc = "truncate" /\ unwind # 0 => unwind \in DOMAIN stack /\ stack[unwind].view = next.view
    /\ mpc = "append" /\ Forwards => Entering(Visited(stack))
    /\ mpc = "dispatch" /\ Forwards =>
           \/ next.view = cur /\ Visited(stack) = past
           \/ \E h : Entering(h) /\ Visited(stack) = Append(h, next.view)

(* A step of the loop's tail, where no view runs and no wipe comes between.  *)
LEMMA TailStep ==
    ASSUME HNext, LoopStep, mpc' \notin Running
    PROVE  past' = past /\ wpc' = wpc
<1>1. wpc' = wpc
  BY DEF LoopStep, Dispatch, EnterMainMenu, AfterRun, TestStack, PopCurrent, PopPrevious,
         ApplyClearHistory, FindDestination, UnwindStack, AppendDestination, wipeVars
<1> QED
  BY <1>1 DEF HNext

LEMMA VisitedEmpty == Visited(<< >>) = << >>
<1>1. << >> \in Seq(Entries) /\ HomeAt(<< >>, 1) /\ Left(<< >>, 1) = 0
  BY DEF HomeAt, Left
<1>2. Visited(<< >>) \in Seq(AnyView) /\ Len(Visited(<< >>)) = 0
  BY <1>1, VisitedIsSeq
<1> QED
  BY <1>2, EmptySeq

LEMMA InitHist == ASSUME HInit PROVE HistInv /\ Nav!Init
<1>1. stack = << >> /\ past = << >> /\ mpc = "dispatch" /\ next.view = cur /\ cur \in {Home} \cup StartupViews
  BY DEF HInit, Init, Destination
<1> QED
  BY <1>1, VisitedEmpty DEF HistInv, Nav!Init, Running

(* Before a step of the loop: the stack as Visited needs it.                *)
LEMMA StackAtHand ==
    ASSUME LoopInv, ~ToHome
    PROVE  stack \in Seq(Entries) /\ Distinct(stack) /\ \E k : HomeAt(stack, k)
<1>1. stack \in Seq(Entries) /\ Distinct(stack)
  BY DEF LoopInv, StackInv, TypeOK, Entries, Unrepeated
<1> QED
  BY <1>1, HomeIsSomewhere

LEMMA WithoutLastIsHistory ==
    ASSUME NEW h \in Seq(AnyView)
    PROVE  /\ Nav!WithoutLast(h) \in Seq(AnyView) /\ Nav!WithoutLast(<< >>) = << >>
           /\ h # << >> => /\ Len(h) \in Nat /\ Len(Nav!WithoutLast(h)) = Len(h) - 1
                          /\ \A i \in 1..(Len(h) - 1) : Nav!WithoutLast(h)[i] = h[i]
<1>1. Nav!WithoutLast(<< >>) = << >>
  BY SubSeqEmpty, EmptySeq DEF Nav!WithoutLast
<1>2. CASE h # << >>
  <2>1. Len(h) \in Nat /\ Len(h) - 1 \in 0..Len(h)
    BY <1>2, EmptySeq
  <2>2. Nav!WithoutLast(h) = [i \in 1..(Len(h) - 1) |-> h[i]]
    BY <2>1, PrefixIsFunction DEF Nav!WithoutLast
  <2>3. \A i \in 1..(Len(h) - 1) : h[i] \in AnyView
    BY <2>1, ElementOfSeq
  <2> QED
    BY <1>1, <2>1, <2>2, <2>3
<1> QED
  BY <1>1, <1>2

LEMMA AfterRunHist == ASSUME LoopInv, HistInv, HNext, AfterRun PROVE HistInv'
<1>1. /\ mpc = "returned" /\ UNCHANGED <<cur, next>> /\ past = Visited(stack) /\ past \in Seq(AnyView)
      /\ mpc' \in {"crashed", "back1", "clear"} /\ past' = past
  BY TailStep DEF AfterRun, HistInv, LoopStep, Running
<1>2. CASE mpc' = "crashed"
  BY <1>1, <1>2 DEF HistInv, Running
<1>3. CASE mpc' # "crashed"
  <2>1. Visited(stack') \in Bases
    <3>1. CASE stack' = stack
      BY <1>1, <3>1 DEF Bases
    <3>2. CASE stack' = WithoutLast(stack) /\ stack # << >>
      BY <1>1, <3>2, StackAtHand, WithoutLastVisited DEF Bases, ToHome
    <3> QED
      BY <1>1, <1>3, <3>1, <3>2 DEF AfterRun
  <2>2. Entering(Nav!Unwound(Visited(stack'), next.view))
    BY <2>1 DEF Entering
  <2> QED
    BY <1>1, <1>3, <2>1, <2>2 DEF HistInv, Bases, Entering, Running
<1> QED
  BY <1>2, <1>3

LEMMA BackHist ==
    ASSUME LoopInv, HistInv, HNext,
           TestStack("back1", "pop1") \/ TestStack("back2", "pop2") \/ PopCurrent
    PROVE  HistInv'
<1>1. past \in Seq(AnyView) /\ past' = past /\ mpc' \notin Running /\ ~ToHome
  <2>1. mpc' \notin Running /\ ~ToHome
    BY DEF TestStack, PopCurrent, Running, ToHome
  <2> QED
    BY <2>1, TailStep DEF HistInv, LoopStep
<1>2. CASE TestStack("back1", "pop1") \/ TestStack("back2", "pop2")
  <2>1. /\ stack' = stack
        /\ \/ mpc' = "clear" /\ next'.view = None
           \/ mpc = "back1" /\ mpc' = "pop1"
           \/ mpc = "back2" /\ mpc' = "pop2"
    BY <1>2 DEF TestStack, Destination
  <2> QED
    BY <1>1, <2>1 DEF HistInv, Bases, Running, Forwards
<1>3. CASE PopCurrent
  <2>1. CASE mpc' = "crashed"
    BY <1>1, <2>1 DEF HistInv, Running
  <2>2. CASE mpc' # "crashed"
    <3>1. mpc = "pop1" /\ mpc' = "back2" /\ stack # << >> /\ stack' = WithoutLast(stack)
      BY <1>3, <2>2 DEF PopCurrent
    <3>2. Visited(stack) \in Bases
      BY <3>1 DEF HistInv
    <3>3. \/ Visited(stack') = Visited(stack)
          \/ Visited(stack') = Nav!WithoutLast(Visited(stack)) /\ Visited(stack) # << >>
      BY <1>1, <3>1, StackAtHand, WithoutLastVisited
    <3> QED
      BY <1>1, <3>1, <3>2, <3>3 DEF HistInv, Bases, Running
  <2> QED
    BY <2>1, <2>2
<1> QED
  BY <1>2, <1>3

(* "Back" as Navigation has it: to the view below, or, when the wipe's main  *)
(* menu was popped first, to the view that was on screen.                   *)
LEMMA PopPreviousHist == ASSUME LoopInv, HistInv, HNext, PopPrevious PROVE HistInv'
<1>1. past \in Seq(AnyView) /\ past' = past /\ mpc = "pop2" /\ ~ToHome /\ mpc' \in {"crashed", "clear"}
  <2>1. mpc = "pop2" /\ ~ToHome /\ mpc' \in {"crashed", "clear"}
    BY DEF PopPrevious, ToHome
  <2> QED
    BY <2>1, TailStep DEF HistInv, LoopStep, Running
<1>2. CASE mpc' = "crashed"
  BY <1>1, <1>2 DEF HistInv, Running
<1>3. CASE mpc' = "clear" /\ ~Forwards'
  BY <1>1, <1>3 DEF HistInv, Running
<1>4. CASE mpc' = "clear" /\ Forwards'
  <2> DEFINE v == stack[Len(stack)].view
             w == Visited(stack)
  <2>1. stack # << >> /\ stack' = WithoutLast(stack) /\ next'.view = v
    BY <1>4 DEF PopPrevious, Destination
  <2>2. v # Home
    BY <1>4, <2>1 DEF Forwards
  <2>3. stack \in Seq(Entries) /\ Distinct(stack) /\ \E k : HomeAt(stack, k)
    BY <1>1, StackAtHand
  <2>4. Visited(stack') = Nav!WithoutLast(w) /\ w # << >> /\ w[Len(w)] = v
    BY <2>1, <2>2, <2>3, WithoutLastVisited
  <2>5. w \in Seq(AnyView) /\ NoneTwice(w)
    BY <2>3, VisitedIsSeq, VisitedNoneTwice
  <2> HIDE DEF v, w
  <2>6. Len(w) \in Nat /\ Len(w) >= 1 /\ Len(w) \in DOMAIN w /\ DOMAIN w = 1..Len(w)
    BY <2>4, <2>5, EmptySeq, LenProperties
  <2>7. Nav!WithoutLast(w) = [i \in 1..(Len(w) - 1) |-> w[i]]
    BY <2>5, <2>6, PrefixIsFunction DEF Nav!WithoutLast
  <2>8. Nav!Unwound(w, v) = Nav!WithoutLast(w)
    BY <2>4, <2>5, <2>6, <2>7, UnwoundAt
  <2>9. Nav!Unwound(Nav!WithoutLast(w), v) = Nav!WithoutLast(w)
    <3>1. \A i \in 1..(Len(w) - 1) : w[i] # v
      BY <2>4, <2>6, <2>5 DEF NoneTwice
    <3>2. \A i \in DOMAIN Nav!WithoutLast(w) : Nav!WithoutLast(w)[i] # v
      BY <2>7, <3>1
    <3> QED
      BY <3>2, UnwoundWithout
  <2>10. PICK b \in Bases : w = b \/ (w = Nav!WithoutLast(b) /\ b # << >>)
    BY <1>1 DEF HistInv, w
  <2>11. \A h : h = Nav!Unwound(Nav!WithoutLast(w), v) => Entering(h)'
    <3>1. CASE w = b
      <4>1. Nav!Unwound(Nav!WithoutLast(w), v) = Nav!Unwound(b, next'.view)
        BY <2>1, <2>8, <2>9, <3>1
      <4>2. b \in (Bases \cup {<< >>})'
        BY <1>1 DEF Bases
      <4> QED
        BY <4>1, <4>2 DEF Entering
    <3>2. CASE w = Nav!WithoutLast(b) /\ b # << >>
      <4>1. b \in Seq(AnyView)
        BY <1>1, WithoutLastIsHistory DEF Bases
      <4>2. Len(b) >= 2 /\ v = b[Len(b) - 1]
        <5>1. /\ Len(b) \in Nat /\ Len(w) = Len(b) - 1
              /\ \A i \in 1..(Len(b) - 1) : w[i] = b[i]
          BY <3>2, <4>1, WithoutLastIsHistory
        <5>2. Len(b) >= 2 /\ Len(b) - 1 \in 1..(Len(b) - 1)
          BY <2>6, <5>1
        <5> QED
          BY <2>4, <5>1, <5>2
      <4>3. Nav!Unwound(Nav!WithoutLast(w), v)
              = Nav!Unwound(Nav!WithoutLast(Nav!WithoutLast(b)), next'.view)
        BY <2>1, <3>2
      <4>4. b \in Bases'
        BY <1>1 DEF Bases
      <4> QED
        BY <2>1, <4>2, <4>3, <4>4 DEF Entering
    <3> QED
      BY <2>10, <3>1, <3>2
  <2>12. Nav!Unwound(Visited(stack'), next'.view) = Nav!Unwound(Nav!WithoutLast(w), v)
    BY <2>1, <2>4
  <2>13. Entering(Nav!Unwound(Visited(stack), next.view))'
    BY <2>11, <2>12
  <2> QED
    BY <1>1, <1>4, <2>13 DEF HistInv, Running
<1> QED
  BY <1>1, <1>2, <1>3, <1>4

(* Clearing the history, unwinding it and entering the destination.          *)
LEMMA ClearHist == ASSUME LoopInv, HistInv, HNext, ApplyClearHistory \/ FindDestination PROVE HistInv'
<1>1. /\ past \in Seq(AnyView) /\ past' = past /\ mpc \in {"clear", "index"} /\ ~ToHome
      /\ mpc' \in {"index", "truncate"} /\ next' = next
  <2>1. mpc' \notin Running /\ ~ToHome
    BY DEF ApplyClearHistory, FindDestination, Running, ToHome
  <2> QED
    BY <2>1, TailStep DEF ApplyClearHistory, FindDestination, HistInv, LoopStep
<1>2. ASSUME Forwards PROVE Entering(Nav!Unwound(Visited(stack'), next.view))
  <2>1. CASE stack' = stack
    BY <1>1, <1>2, <2>1 DEF HistInv
  <2>2. CASE stack' = << >>
    BY <2>2, VisitedEmpty DEF Entering
  <2> QED
    BY <2>1, <2>2 DEF ApplyClearHistory, FindDestination
<1>3. mpc' = "truncate" /\ unwind' # 0 => unwind' \in DOMAIN stack' /\ stack'[unwind'].view = next.view
  <2> SUFFICES ASSUME FindDestination, Occurrences # {}
               PROVE  unwind' \in DOMAIN stack' /\ stack'[unwind'].view = next.view
    BY DEF ApplyClearHistory, FindDestination
  <2>1. TypeOK /\ Distinct(stack)
    BY <1>1, StackAtHand DEF LoopInv, StackInv
  <2>2. unwind' \in Occurrences
    BY <2>1, OnlyOccurrence DEF FindDestination
  <2> QED
    BY <2>2 DEF Occurrences, FindDestination
<1> QED
  BY <1>1, <1>2, <1>3 DEF HistInv, Bases, Entering, Forwards, Running

LEMMA UnwindHist == ASSUME LoopInv, HistInv, HNext, UnwindStack PROVE HistInv'
<1>1. /\ past \in Seq(AnyView) /\ past' = past /\ mpc = "truncate" /\ ~ToHome
      /\ mpc' = "append" /\ next' = next /\ stack' = Truncated(stack, unwind)
  <2>1. mpc' \notin Running /\ ~ToHome
    BY DEF UnwindStack, Running, ToHome
  <2> QED
    BY <2>1, TailStep DEF UnwindStack, HistInv, LoopStep
<1>2. ASSUME Forwards PROVE Visited(stack') = Nav!Unwound(Visited(stack), next.view)
  <2>1. /\ stack \in Seq(Entries) /\ Distinct(stack) /\ unwind \in Nat /\ next.view # Home
        /\ \A i \in DOMAIN stack : stack[i].view = next.view => i = unwind
        /\ unwind # 0 => unwind \in DOMAIN stack /\ stack[unwind].view = next.view
    BY <1>1, <1>2, StackAtHand DEF LoopInv, StackInv, TypeOK, Unwinding, HistInv, Forwards
  <2> QED
    BY <1>1, <2>1, TruncatedVisited
<1>3. Forwards => Entering(Visited(stack'))
  BY <1>1, <1>2 DEF HistInv
<1> QED
  BY <1>1, <1>3 DEF HistInv, Bases, Entering, Forwards, Running

LEMMA AppendHist == ASSUME LoopInv, HistInv, HNext, AppendDestination PROVE HistInv'
<1>1. /\ past \in Seq(AnyView) /\ past' = past /\ mpc = "append" /\ ~ToHome
      /\ mpc' = "dispatch" /\ next' = next /\ stack' = Append(stack, Entry(next.view))
  <2>1. mpc' \notin Running /\ ~ToHome
    BY DEF AppendDestination, Running, ToHome
  <2> QED
    BY <2>1, TailStep DEF AppendDestination, HistInv, LoopStep
<1>2. ASSUME Forwards PROVE Visited(stack') = Append(Visited(stack), next.view) /\ Entering(Visited(stack))
  <2>1. Entry(next.view) \in Entries /\ Entry(next.view).view = next.view
    BY <1>1 DEF LoopInv, StackInv, TypeOK, Entries, Entry, Resolved, Destinations
  <2> QED
    BY <1>1, <1>2, <2>1, StackAtHand, AppendVisited DEF HistInv, Forwards
<1>3. Forwards' => \E h : Entering(h)' /\ Visited(stack') = Append(h, next'.view)
  <2>1. ASSUME Forwards PROVE \A h : Entering(h) => Entering(h)'
    BY <1>1 DEF Entering, Bases
  <2> QED
    BY <1>1, <1>2, <2>1 DEF Forwards
<1> QED
  BY <1>1, <1>3 DEF HistInv, Running

(* The view that is dispatched is the one that Navigation steps to.          *)
LEMMA DispatchHist ==
    ASSUME LoopInv, HistInv, HNext, Dispatch
    PROVE  HistInv' /\ [Nav!Next]_(Nav!vars)
<1>1. mpc = "dispatch" /\ mpc' \in {"menu", "view"} /\ past' = Visited(stack')
  BY DEF Dispatch, HNext, Running
<1>2. CASE ~Forwards
  <2>1. cur' = Home /\ stack' = << >>
    BY <1>2 DEF Dispatch, Forwards
  <2>2. past' = << >>
    BY <1>1, <2>1, VisitedEmpty
  <2>3. HistInv'
    BY <1>1, <2>2 DEF HistInv
  <2>4. Nav!Visit(Home, FALSE, FALSE)
    BY <2>1, <2>2 DEF Nav!Visit, Nav!Enter
  <2> QED
    BY <2>3, <2>4 DEF Nav!Next
<1>3. CASE Forwards
  <2>1. cur' = next.view /\ stack' = stack /\ next.view \in Views
    <3>1. next.view # Back /\ next.view \in Views \cup {Home, Back, None}
      BY <1>1 DEF LoopInv, StackInv, TypeOK, Destinations, Resolved
    <3> QED
      BY <1>3, <3>1 DEF Dispatch, Forwards
  <2>2. HistInv'
    <3>1. past' \in Seq(AnyView)
      BY <1>1, <1>3, <2>1, StackAtHand, VisitedIsSeq DEF ToHome, Forwards
    <3> QED
      BY <1>1, <3>1 DEF HistInv
  <2>3. CASE next.view = cur /\ Visited(stack) = past
    BY <1>1, <2>1, <2>2, <2>3 DEF Nav!vars
  <2>4. ASSUME NEW h, Entering(h), Visited(stack) = Append(h, next.view)
        PROVE  Nav!Next
    <3>1. cur' = next.view /\ past' = Append(h, next.view) /\ next.view # Home
      BY <1>1, <1>3, <2>1, <2>4 DEF Forwards
    <3>2. CASE \E b \in Bases \cup {<< >>} : h = Nav!Unwound(b, next.view)
      <4>1. PICK skip \in BOOLEAN, clear \in BOOLEAN :
              h = Nav!Unwound(IF clear THEN << >> ELSE IF skip THEN Nav!WithoutLast(past) ELSE past, next.view)
        BY <3>2 DEF Bases
      <4>2. Nav!Visit(next.view, skip, clear)
        BY <3>1, <4>1 DEF Nav!Visit, Nav!Enter
      <4> QED
        BY <2>1, <4>2 DEF Nav!Next
    <3>3. CASE \E b \in Bases : /\ Len(b) >= 2 /\ next.view = b[Len(b) - 1]
                               /\ h = Nav!Unwound(Nav!WithoutLast(Nav!WithoutLast(b)), next.view)
      <4>1. PICK skip \in BOOLEAN :
              LET b == IF skip THEN Nav!WithoutLast(past) ELSE past
              IN  /\ Len(b) >= 2 /\ next.view = b[Len(b) - 1]
                  /\ h = Nav!Unwound(Nav!WithoutLast(Nav!WithoutLast(b)), next.view)
        BY <3>3 DEF Bases
      <4>2. \E b \in Bases : Len(b) \in Nat /\ b = IF skip THEN Nav!WithoutLast(past) ELSE past
        BY WithoutLastIsHistory, LenProperties DEF HistInv, Bases
      <4>3. Nav!GoBack(skip)
        BY <3>1, <4>1, <4>2 DEF Nav!GoBack, Nav!Enter
      <4> QED
        BY <4>3 DEF Nav!Next
    <3> QED
      BY <2>4, <3>2, <3>3 DEF Entering
  <2> QED
    BY <1>1, <1>3, <2>2, <2>3, <2>4 DEF HistInv
<1> QED
  BY <1>2, <1>3

(* What the view on screen does, and the main menu on the way to it.         *)
LEMMA ViewHist ==
    ASSUME LoopInv, HistInv, HNext,
           EnterMainMenu \/ ViewStep \/ KeyPressed \/ \E f \in Tracked : StoreAttribute(f)
    PROVE  HistInv' /\ UNCHANGED Nav!vars
<1>1. /\ mpc \in Running /\ mpc' \in Running \cup {"returned", "exited"}
      /\ UNCHANGED <<cur, stack, wpc>>
  BY DEF EnterMainMenu, ViewStep, WaitForInput, OverrideSeen, ScreensaverCheckFails,
         ViewReturns, ViewRaises, ViewExits, KeyPressed, StoreAttribute,
         stackVars, wipeVars, Running
<1>2. past = Visited(stack) /\ past \in Seq(AnyView)
  BY <1>1 DEF HistInv
<1>3. past' = past
  BY <1>1, <1>2 DEF HNext
<1>4. HistInv'
  BY <1>1, <1>2, <1>3 DEF HistInv, Running
<1> QED
  BY <1>1, <1>3, <1>4 DEF Nav!vars

(* A wipe that meets a waiting screen: the history is forgotten when the     *)
(* stack is cleared; the main menu that is put there does not count.        *)
LEMMA WipeHist ==
    ASSUME LoopInv, HistInv, HNext, WipeThread, ~RacyWipe
    PROVE  HistInv' /\ [Nav!Next]_(Nav!vars)
<1>1. mpc = "wait" /\ UNCHANGED <<mpc, cur>>
  BY DEF WipeThread, WipeTimeout, WipeAttributes, WipeClearStack, WipeAppendHome,
         WipeSetFlag, WipeNotify, WipeStep, WipeMayRun
<1>2. past = Visited(stack) /\ past' = Visited(stack') /\ past \in Seq(AnyView)
  BY <1>1 DEF HistInv, HNext, Running
<1>3. HistInv' <=> past' \in Seq(AnyView)
  BY <1>1, <1>2 DEF HistInv, Running
<1>4. CASE WipeClearStack
  <2>1. past' = << >>
    BY <1>2, <1>4, VisitedEmpty DEF WipeClearStack
  <2> QED
    BY <1>1, <1>3, <2>1 DEF Nav!Next, Nav!Forget
<1>5. CASE WipeAppendHome
  <2>1. UnrunEntry(Home) \in Entries /\ UnrunEntry(Home).view = Home
    BY DEF UnrunEntry, Entries
  <2>2. /\ stack \in Seq(Entries) /\ Distinct(stack)
        /\ \A i \in DOMAIN stack : stack[i].view # Home
        /\ stack' = Append(stack, UnrunEntry(Home))
    BY <1>1, <1>5, StackAtHand DEF LoopInv, StackInv, Unrepeated, ToHome, WipeAppendHome, WipeStep
  <2>3. past' = past
    BY <1>2, <2>1, <2>2, AppendVisited
  <2> QED
    BY <1>1, <1>2, <1>3, <2>3 DEF Nav!vars
<1>6. CASE WipeTimeout \/ WipeAttributes \/ WipeSetFlag \/ WipeNotify
  <2>1. stack' = stack
    BY <1>6 DEF WipeTimeout, WipeAttributes, WipeSetFlag, WipeNotify
  <2> QED
    BY <1>1, <1>2, <1>3, <2>1 DEF Nav!vars
<1> QED
  BY <1>4, <1>5, <1>6 DEF WipeThread

(* A statement of the tail leaves the view and the history alone.            *)
LEMMA TailHist ==
    ASSUME LoopInv, HistInv, HNext, LoopStep, ~Dispatch, ~EnterMainMenu
    PROVE  HistInv' /\ UNCHANGED Nav!vars
<1>1. HistInv'
  BY AfterRunHist, BackHist, PopPreviousHist, ClearHist, UnwindHist, AppendHist DEF LoopStep
<1>2. mpc' \notin Running /\ cur' = cur
  BY DEF LoopStep, AfterRun, TestStack, PopCurrent, PopPrevious, ApplyClearHistory,
         FindDestination, UnwindStack, AppendDestination, Running
<1> QED
  BY <1>1, <1>2, TailStep DEF Nav!vars

LEMMA StepImplementsNavigation ==
    ASSUME LoopInv, HistInv, [HNext]_<<vars, past>>, ~RacyWipe
    PROVE  HistInv' /\ [Nav!Next]_(Nav!vars)
<1>1. CASE UNCHANGED <<vars, past>>
  <2>1. UNCHANGED <<mpc, cur, next, unwind, stack, past>>
    BY <1>1 DEF vars
  <2>2. HistInv'
    BY <2>1 DEF HistInv, Entering, Bases, Forwards
  <2> QED
    BY <2>1, <2>2 DEF Nav!vars
<1>2. CASE HNext /\ LoopStep
  BY <1>2, DispatchHist, ViewHist, TailHist DEF Nav!vars
<1>3. CASE HNext /\ (ViewStep \/ KeyPressed \/ \E f \in Tracked : StoreAttribute(f))
  BY <1>3, ViewHist
<1>4. CASE HNext /\ WipeThread
  BY <1>4, WipeHist
<1> QED
  BY <1>1, <1>2, <1>3, <1>4 DEF HNext, Next

(* As long as an auto-wipe only ever meets a screen that waits for a key,    *)
(* the loop of Controller.start, its back stack without the main menu taken *)
(* for the history, is an implementation of the abstract navigation: every  *)
(* iteration enters the view that a forward, a skip, a clear or a "back"    *)
(* leads to, and leaves exactly the history below it.                      *)
THEOREM LoopImplementsNavigation ==
    ASSUME ~RacyWipe
    PROVE  HSpec => ImplementsNavigation
<1>1. HInit => Nav!Init /\ LoopInv /\ HistInv
  BY InitHist, InitHasLoopInv DEF HInit
<1>2. LoopInv /\ [HNext]_<<vars, past>> => LoopInv'
  <2>1. [HNext]_<<vars, past>> => [Next]_vars
    BY DEF HNext
  <2> QED
    BY <2>1, StepKeepsLoopInv
<1>3. LoopInv /\ HistInv /\ [HNext]_<<vars, past>> => HistInv' /\ [Nav!Next]_(Nav!vars)
  BY StepImplementsNavigation
<1> QED
  BY <1>1, <1>2, <1>3, PTL DEF HSpec, ImplementsNavigation, Nav!Spec

=============================================================================
