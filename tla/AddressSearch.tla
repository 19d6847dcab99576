--------------------------- MODULE AddressSearch ---------------------------
(***************************************************************************)
(* Looking for an address: SeedAddressVerificationView, its screen and the *)
(* thread that derives one address after the other.  They share a counter  *)
(* of the addresses tried, which the user may push ahead ("Skip 10"), and  *)
(* the index that was found; only the increments of a counter hold a lock. *)
(*                                                                         *)
(* Indexes count from the start of this batch.  The search of all paths    *)
(* tries Batch addresses and ends; its index runs over all of them.        *)
(***************************************************************************)
EXTENDS Naturals, FiniteSets

CONSTANTS
    Batch,          \* addresses tried before the user is asked
    SkipStep,       \* ten
    NoIndex,        \* None
    MaxSkips,       \* bound: skips in a search
    MaxIndex        \* bound: indexes looked at

VARIABLES
    kind,           \* "batch", "paths" (of all paths), or "endless" (with a descriptor)
    match,          \* where the address is
    counter, verified, isChange,    \* threadsafe_counter, verified_index, ..._is_change
    keepRunning,
    worker, i,      \* the thread: its next step, and its index
    view,           \* the view: its next step
    skips,          \* skips so far
    tried,          \* history: indexes that were compared
    answer          \* what the view leads to, and the index it names

searchVars == <<kind, match, counter, verified, isChange, keepRunning, worker, i, view, skips, tried, answer>>

NoAnswer == [kind |-> "none", index |-> 0, change |-> FALSE]
Answer(k, n) == [NoAnswer EXCEPT !.kind = k, !.index = n]

AllPaths == kind = "paths"
Full == kind # "endless" /\ counter >= Batch

-----------------------------------------------------------------------------
(* The thread *)
WorkerVars == <<kind, keepRunning, view, skips, answer, match>>

Take ==
    /\ worker = "take"
    /\ IF keepRunning /\ (AllPaths => counter < Batch)
       THEN i' = counter /\ worker' = "compare" ELSE worker' = "ended" /\ UNCHANGED i
    /\ UNCHANGED <<counter, verified, isChange, tried, WorkerVars>>

\* Mutant: the address is passed over when a skip came before the comparison.
CompareUnlessSkipped ==
    /\ worker = "compare"
    /\ IF i # counter THEN worker' = "count" /\ UNCHANGED <<verified, tried>>
       ELSE /\ IF i = match.index THEN worker' = "found" /\ verified' = i
                                  ELSE worker' = "count" /\ UNCHANGED verified
            /\ tried' = tried \cup {i}
    /\ UNCHANGED <<counter, isChange, i, WorkerVars>>

\* What cannot be derived ends the thread; a path without an xpub is passed over.
Compare ==
    /\ worker = "compare"
    /\ IF i = match.index THEN /\ worker' = "found" /\ verified' = i
                          ELSE /\ worker' \in {"count", "ended"} /\ UNCHANGED verified
    /\ tried' = tried \cup {i}
    /\ UNCHANGED <<counter, isChange, i, WorkerVars>>

Found ==
    /\ worker = "found"
    /\ isChange' = (IF match.change THEN "yes" ELSE "no") /\ worker' = "ended"
    /\ keepRunning' = FALSE
    /\ UNCHANGED <<counter, verified, i, tried, view, skips, answer, kind, match>>

Count ==
    /\ worker = "count" /\ counter < MaxIndex
    /\ counter' = counter + 1 /\ worker' = "take"
    /\ UNCHANGED <<verified, isChange, i, tried, WorkerVars>>

-----------------------------------------------------------------------------
(* The view *)
ViewVars == <<kind, counter, verified, isChange, worker, i, tried, match>>

\* The screen returns by itself when there is a result or the batch is done.
Screen ==
    /\ view = "screen"
    /\ \/ verified # NoIndex /\ view' = "ask"
       \/ Full /\ view' = "decide"
       \/ ~AllPaths /\ skips < MaxSkips /\ view' = "skip"
       \/ view' = "decide"                        \* "Cancel"
    /\ UNCHANGED <<ViewVars, keepRunning, skips, answer>>

\* A skip shows the screen again, unless the batch is done by it.
Skip ==
    /\ view = "skip"
    /\ IF verified # NoIndex
       THEN view' = "decide" /\ UNCHANGED <<counter, skips>>
       ELSE /\ counter + SkipStep <= MaxIndex
            /\ counter' = counter + SkipStep /\ skips' = skips + 1
            /\ view' = IF kind # "endless" /\ counter + SkipStep >= Batch THEN "decide" ELSE "screen"
    /\ UNCHANGED <<kind, verified, isChange, worker, i, tried, match, keepRunning, answer>>

Decide ==
    /\ view \in {"ask", "decide"}
    /\ IF verified # NoIndex THEN view' = "found" /\ UNCHANGED answer
       ELSE view' = "stop" /\ answer' = IF Full THEN Answer("not found", counter) ELSE Answer("home", 0)
    /\ UNCHANGED <<ViewVars, keepRunning, skips>>

Report ==
    /\ view = "found"
    /\ view' = "stop" /\ answer' = [Answer("verified", verified) EXCEPT !.change = isChange = "yes"]
    /\ UNCHANGED <<ViewVars, keepRunning, skips>>

\* The view is left when the thread has ended.
Stop ==
    /\ \/ view = "stop" /\ view' = "wait" /\ keepRunning' = FALSE
       \/ view = "wait" /\ worker = "ended" /\ view' = "left" /\ UNCHANGED keepRunning
    /\ UNCHANGED <<ViewVars, skips, answer>>

-----------------------------------------------------------------------------
SearchInit ==
    /\ kind \in {"batch", "paths", "endless"}
    /\ match \in [index : 0..MaxIndex, change : BOOLEAN]
    /\ counter = 0 /\ verified = NoIndex /\ isChange = "none" /\ keepRunning = TRUE
    /\ worker = "take" /\ i = 0 /\ view = "screen" /\ skips = 0 /\ tried = {} /\ answer = NoAnswer

SearchNext ==
    Take \/ Compare \/ Found \/ Count \/ Screen \/ Skip \/ Decide \/ Report \/ Stop

SearchSpec == SearchInit /\ [][SearchNext]_searchVars

SearchTypeOK ==
    /\ kind \in {"batch", "paths", "endless"} /\ match.index \in 0..MaxIndex
    /\ counter \in 0..MaxIndex /\ verified \in 0..MaxIndex \cup {NoIndex}
    /\ isChange \in {"no", "yes", "none"} /\ keepRunning \in BOOLEAN /\ i \in 0..MaxIndex
    /\ worker \in {"take", "compare", "found", "count", "ended"}
    /\ view \in {"screen", "ask", "skip", "decide", "found", "stop", "wait", "left"}
    /\ tried \subseteq 0..MaxIndex /\ answer.kind \in {"none", "home", "not found", "verified"}

(* "Not found" names the address the search goes on with: every address    *)
(* before it was compared, but for ten for every skip.                      *)
NoneMissed ==
    answer.kind = "not found" => Cardinality(0..(answer.index - 1) \ tried) <= SkipStep * skips

(* A change address is reported as one.                                     *)
ChangeIsReported == answer.kind = "verified" => answer.change = match.change
=============================================================================
