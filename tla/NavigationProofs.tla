--------------------------- MODULE NavigationProofs ---------------------------
(***************************************************************************)
(* The invariants of Navigation for any set of views, and so for histories *)
(* of any length.  Together they are inductive: a history that is cut back *)
(* at the first occurrence of a view holds that view no more, because the  *)
(* view comes first there, and pushing it then repeats nothing.            *)
(***************************************************************************)
EXTENDS Navigation, SequenceTheorems, TLAPS

Distinct(h) == \A i, j \in DOMAIN h : h[i] = h[j] => i = j

NavInv == TypeOK /\ EndsWithCurrent /\ NoRepeats

(* A prefix of a history is a history, and repeats nothing the history does *)
(* not repeat.                                                             *)
LEMMA PrefixIsHistory ==
    ASSUME NEW h \in Seq(Views), Distinct(h), NEW n \in 0..Len(h)
    PROVE  /\ SubSeq(h, 1, n) \in Seq(Views)
           /\ Len(SubSeq(h, 1, n)) = n
           /\ \A i \in 1..n : SubSeq(h, 1, n)[i] = h[i]
           /\ Distinct(SubSeq(h, 1, n))
<1>1. Len(h) \in Nat /\ DOMAIN h = 1..Len(h)
  BY LenProperties
<1>2. /\ SubSeq(h, 1, n) \in Seq(Views)
      /\ Len(SubSeq(h, 1, n)) = n
      /\ \A i \in 1..n : SubSeq(h, 1, n)[i] = h[i]
  <2>1. CASE n = 0
    BY <1>1, <2>1, SubSeqProperties
  <2>2. CASE n \in 1..Len(h)
    BY <1>1, <2>2, SubSeqProperties
  <2> QED
    BY <1>1, <2>1, <2>2
<1>3. DOMAIN SubSeq(h, 1, n) = 1..n
  BY <1>2, LenProperties
<1> QED
  BY <1>1, <1>2, <1>3 DEF Distinct

LEMMA WithoutLastIsHistory ==
    ASSUME NEW h \in Seq(Views), Distinct(h)
    PROVE  WithoutLast(h) \in Seq(Views) /\ Distinct(WithoutLast(h))
<1>1. Len(h) \in Nat /\ DOMAIN h = 1..Len(h)
  BY LenProperties
<1>2. CASE Len(h) = 0
  <2>1. SubSeq(h, 1, Len(h) - 1) = << >>
    BY <1>2, SubSeqEmpty
  <2> QED
    BY <2>1 DEF WithoutLast, Distinct
<1>3. CASE Len(h) # 0
  <2>1. Len(h) - 1 \in 0..Len(h)
    BY <1>1, <1>3
  <2> QED
    BY <2>1, PrefixIsHistory DEF WithoutLast
<1> QED
  BY <1>2, <1>3

(* In a history without repeats any occurrence of v is the first.           *)
LEMMA FirstIndexIsFirst ==
    ASSUME NEW h \in Seq(Views), Distinct(h), NEW v, Occurs(h, v)
    PROVE  /\ FirstIndex(h, v) \in 1..Len(h)
           /\ \A j \in 1..(FirstIndex(h, v) - 1) : h[j] # v
<1>1. Len(h) \in Nat /\ DOMAIN h = 1..Len(h)
  BY LenProperties
<1>2. PICK i \in DOMAIN h : h[i] = v
  BY DEF Occurs
<1>3. \A j \in 1..(i - 1) : h[j] # v
  BY <1>1, <1>2 DEF Distinct
<1> QED
  BY <1>1, <1>2, <1>3 DEF FirstIndex

(* Cutting a history back at v leaves a history without v.                  *)
LEMMA UnwoundIsHistory ==
    ASSUME NEW h \in Seq(Views), Distinct(h), NEW v
    PROVE  /\ Unwound(h, v) \in Seq(Views)
           /\ Distinct(Unwound(h, v))
           /\ ~Occurs(Unwound(h, v), v)
<1>1. Len(h) \in Nat /\ DOMAIN h = 1..Len(h)
  BY LenProperties
<1>2. CASE ~Occurs(h, v)
  BY <1>2 DEF Unwound
<1>3. CASE Occurs(h, v)
  <2> DEFINE n == FirstIndex(h, v) - 1
  <2>1. n \in 0..Len(h) /\ \A j \in 1..n : h[j] # v
    BY <1>1, <1>3, FirstIndexIsFirst
  <2>2. Unwound(h, v) = SubSeq(h, 1, n)
    BY <1>3 DEF Unwound
  <2> HIDE DEF n
  <2>3. /\ SubSeq(h, 1, n) \in Seq(Views)
        /\ Len(SubSeq(h, 1, n)) = n
        /\ \A i \in 1..n : SubSeq(h, 1, n)[i] = h[i]
        /\ Distinct(SubSeq(h, 1, n))
    BY <2>1, PrefixIsHistory
  <2>4. DOMAIN SubSeq(h, 1, n) = 1..n
    BY <2>3, LenProperties
  <2> QED
    BY <2>1, <2>2, <2>3, <2>4 DEF Occurs
<1> QED
  BY <1>2, <1>3

(* Entering a view from a history without repeats leaves such a history,    *)
(* and it ends with the view.                                              *)
LEMMA EnterKeepsNavInv ==
    ASSUME NEW h \in Seq(Views), Distinct(h), NEW v \in Views \cup {MainMenu}, Enter(h, v)
    PROVE  NavInv'
<1>1. CASE v = MainMenu
  <2>1. cur' = MainMenu /\ hist' = << >>
    BY <1>1 DEF Enter
  <2> QED
    BY <2>1 DEF NavInv, TypeOK, EndsWithCurrent, NoRepeats
<1>2. CASE v # MainMenu
  <2> DEFINE u == Unwound(h, v)
  <2>1. cur' = v /\ hist' = Append(u, v) /\ v \in Views
    BY <1>2 DEF Enter
  <2>2. u \in Seq(Views) /\ Distinct(u) /\ ~Occurs(u, v)
    BY UnwoundIsHistory
  <2> HIDE DEF u
  <2>3. Len(u) \in Nat /\ DOMAIN u = 1..Len(u)
    BY <2>2, LenProperties
  <2>4. /\ hist' \in Seq(Views)
        /\ Len(hist') = Len(u) + 1
        /\ \A i \in 1..Len(u) : hist'[i] = u[i]
        /\ hist'[Len(u) + 1] = v
    BY <2>1, <2>2, AppendProperties
  <2>5. DOMAIN (hist') = 1..(Len(u) + 1)
    BY <2>4, LenProperties
  <2>6. NoRepeats'
    BY <2>2, <2>3, <2>4, <2>5 DEF NoRepeats, Distinct, Occurs
  <2> QED
    BY <2>1, <2>4, <2>6 DEF NavInv, TypeOK, EndsWithCurrent
<1> QED
  BY <1>1, <1>2

LEMMA NavInit == ASSUME ViewsAssumption PROVE Init => NavInv
BY DEF ViewsAssumption, Init, NavInv, TypeOK, EndsWithCurrent, NoRepeats

LEMMA NavNext == NavInv /\ [Next]_vars => NavInv'
<1> SUFFICES ASSUME NavInv, [Next]_vars
             PROVE  NavInv'
  OBVIOUS
<1>1. hist \in Seq(Views) /\ Distinct(hist)
  BY DEF NavInv, TypeOK, NoRepeats, Distinct
<1>2. WithoutLast(hist) \in Seq(Views) /\ Distinct(WithoutLast(hist))
  BY <1>1, WithoutLastIsHistory
<1>3. CASE \E v \in Views \cup {MainMenu}, skip, clear \in BOOLEAN : Visit(v, skip, clear)
  <2> PICK v \in Views \cup {MainMenu}, skip, clear \in BOOLEAN : Visit(v, skip, clear)
    BY <1>3
  <2> DEFINE h == IF clear THEN << >> ELSE IF skip THEN WithoutLast(hist) ELSE hist
  <2>1. Distinct(<< >>) /\ << >> \in Seq(Views)
    BY DEF Distinct
  <2>2. h \in Seq(Views) /\ Distinct(h)
    BY <1>1, <1>2, <2>1
  <2>3. Enter(h, v)
    BY DEF Visit
  <2> HIDE DEF h
  <2> QED
    BY <2>2, <2>3, EnterKeepsNavInv
<1>4. CASE \E skip \in BOOLEAN : GoBack(skip)
  <2> PICK skip \in BOOLEAN : GoBack(skip)
    BY <1>4
  <2> DEFINE h == IF skip THEN WithoutLast(hist) ELSE hist
  <2>1. h \in Seq(Views) /\ Distinct(h)
    BY <1>1, <1>2
  <2>2. IF Len(h) < 2
        THEN Enter(h, MainMenu)
        ELSE Enter(WithoutLast(WithoutLast(h)), h[Len(h) - 1])
    BY DEF GoBack
  <2> HIDE DEF h
  <2>3. CASE Len(h) < 2
    BY <2>1, <2>2, <2>3, EnterKeepsNavInv
  <2>4. CASE ~(Len(h) < 2)
    <3>1. h[Len(h) - 1] \in Views
      BY <2>1, <2>4, LenProperties
    <3>2. /\ WithoutLast(WithoutLast(h)) \in Seq(Views)
          /\ Distinct(WithoutLast(WithoutLast(h)))
      BY <2>1, WithoutLastIsHistory
    <3>3. Enter(WithoutLast(WithoutLast(h)), h[Len(h) - 1])
      BY <2>2, <2>4
    <3> QED
      BY <3>1, <3>2, <3>3, EnterKeepsNavInv
  <2> QED
    BY <2>3, <2>4
<1>5. CASE Forget
  <2>1. hist' = << >> /\ cur' = cur
    BY <1>5 DEF Forget
  <2> QED
    BY <2>1 DEF NavInv, TypeOK, EndsWithCurrent, NoRepeats
<1>6. CASE UNCHANGED vars
  BY <1>6 DEF vars, NavInv, TypeOK, EndsWithCurrent, NoRepeats
<1> QED
  BY <1>3, <1>4, <1>5, <1>6 DEF Next

LEMMA NavAlways == ASSUME ViewsAssumption PROVE Spec => []NavInv
<1>1. Init => NavInv
  BY NavInit
<1>2. NavInv /\ [Next]_vars => NavInv'
  BY NavNext
<1> QED
  BY <1>1, <1>2, PTL DEF Spec

(* The views on screen and in the history are views of the program, and the *)
(* main menu is never in the history.                                      *)
THEOREM HistoryIsTyped == ASSUME ViewsAssumption PROVE Spec => []TypeOK
<1>1. NavInv => TypeOK
  BY DEF NavInv
<1>2. Spec => []NavInv
  BY NavAlways
<1> QED
  BY <1>1, <1>2, PTL

(* No destination is ever in the back stack twice, however long the visit:  *)
(* the loop's unwinding bounds the stack by the number of destinations.     *)
THEOREM HistoryHasNoRepeats == ASSUME ViewsAssumption PROVE Spec => []NoRepeats
<1>1. NavInv => NoRepeats
  BY DEF NavInv
<1>2. Spec => []NavInv
  BY NavAlways
<1> QED
  BY <1>1, <1>2, PTL

(* "Back" starts from the view on screen.                                   *)
THEOREM HistoryEndsWithCurrent == ASSUME ViewsAssumption PROVE Spec => []EndsWithCurrent
<1>1. NavInv => EndsWithCurrent
  BY DEF NavInv
<1>2. Spec => []NavInv
  BY NavAlways
<1> QED
  BY <1>1, <1>2, PTL
-----------------------------------------------------------------------------
(* Where a step lands, for the components whose steps are views of the      *)
(* history and something more.                                             *)

(* A view d is entered on top of the first n views of the history.          *)
Lands(d, n) ==
    /\ n \in 0..Len(hist) /\ cur' = d
    /\ IF d = MainMenu THEN hist' = <<>>
       ELSE /\ hist' \in Seq(Views) /\ Len(hist') = n + 1
            /\ \A i \in 1..n : hist'[i] = hist[i] /\ hist[i] # d
            /\ hist'[n + 1] = d

\* The view "back" leads to.
Below(skip) == LET n == Len(hist) - IF skip THEN 2 ELSE 1 IN IF n < 1 THEN MainMenu ELSE hist[n]

Tidy == hist \in Seq(Views) /\ Distinct(hist) /\ cur \in Views \cup {MainMenu}

LEMMA EnterLands ==
    ASSUME Tidy, NEW m \in 0..Len(hist), NEW h \in Seq(Views),
           Len(h) = m, \A i \in 1..m : h[i] = hist[i],
           NEW d \in Views \cup {MainMenu}, Enter(h, d)
    PROVE  \E n \in 0..m : Lands(d, n) /\ (n = m \/ hist[n + 1] = d)
<1>1. Len(hist) \in Nat /\ DOMAIN h = 1..m /\ DOMAIN hist = 1..Len(hist)
  BY DEF Tidy
<1>2. CASE d = MainMenu
  BY <1>1, <1>2 DEF Enter, Lands
<1>3. CASE d # MainMenu /\ ~Occurs(h, d)
  <2>1. hist' = Append(h, d) /\ cur' = d /\ d \in Views
    BY <1>3 DEF Enter, Unwound
  <2>2. \A i \in 1..m : h[i] # d
    BY <1>1, <1>3 DEF Occurs
  <2>3. Lands(d, m)
    BY <1>1, <1>3, <2>1, <2>2 DEF Lands
  <2> QED
    BY <2>3, <1>1
<1>4. CASE d # MainMenu /\ Occurs(h, d)
  <2>1. PICK i \in 1..m : h[i] = d
    BY <1>1, <1>4 DEF Occurs
  <2>2. \A j \in 1..m : h[j] = d => j = i
    BY <1>1, <2>1 DEF Tidy, Distinct
  <2>3. FirstIndex(h, d) = i
    BY <1>1, <2>1, <2>2 DEF FirstIndex
  <2>4. hist' = Append(SubSeq(h, 1, i - 1), d) /\ cur' = d /\ d \in Views
    BY <1>4, <2>3 DEF Enter, Unwound
  <2>5. i - 1 \in 0..m /\ \A j \in 1..(i - 1) : h[j] # d
    BY <1>1, <2>1, <2>2
  <2>6. /\ SubSeq(h, 1, i - 1) \in Seq(Views)
        /\ Len(SubSeq(h, 1, i - 1)) = i - 1
        /\ \A j \in 1..(i - 1) : SubSeq(h, 1, i - 1)[j] = h[j]
    BY <1>1, <2>5, SubSeqProperties
  <2> DEFINE u == SubSeq(h, 1, i - 1)
  <2> HIDE DEF u
  <2>7. Lands(d, i - 1)
    <3>1. /\ hist' = Append(u, d) /\ u \in Seq(Views) /\ Len(u) = i - 1
          /\ \A j \in 1..(i - 1) : u[j] = hist[j] /\ hist[j] # d
      BY <1>1, <2>4, <2>5, <2>6 DEF u
    <3> QED
      BY <1>1, <1>4, <2>1, <2>4, <3>1 DEF Lands
  <2> QED
    BY <1>1, <2>1, <2>7
<1> QED
  BY <1>2, <1>3, <1>4

LEMMA WithoutLastOf ==
    ASSUME NEW h \in Seq(Views)
    PROVE  LET w == WithoutLast(h)
           IN /\ w \in Seq(Views)
              /\ Len(w) = IF Len(h) = 0 THEN 0 ELSE Len(h) - 1
              /\ \A i \in 1..Len(w) : w[i] = h[i]
<1>1. CASE Len(h) = 0
  <2>1. SubSeq(h, 1, Len(h) - 1) = << >>
    BY <1>1
  <2> QED
    BY <1>1, <2>1 DEF WithoutLast
<1>2. CASE Len(h) # 0
  <2> DEFINE m == Len(h) - 1
  <2>1. m \in 0..Len(h) /\ Len(h) \in Nat
    BY <1>2
  <2>2. /\ SubSeq(h, 1, m) \in Seq(Views) /\ Len(SubSeq(h, 1, m)) = m
        /\ \A i \in 1..m : SubSeq(h, 1, m)[i] = h[i]
    <3>1. \A i \in 1..m : h[i] \in Views
      BY <2>1
    <3> HIDE DEF m
    <3> QED
      BY <2>1, <3>1, SubSeqProperties
  <2> QED
    BY <1>2, <2>2 DEF WithoutLast
<1> QED
  BY <1>1, <1>2

(* Forward: over the whole history or, past a skipped view, over what is    *)
(* below it, or less.                                                      *)
LEMMA GotoLands ==
    ASSUME Tidy, NEW d \in Views \cup {MainMenu}, Visit(d, FALSE, FALSE)
    PROVE  \E n \in 0..Len(hist) : Lands(d, n) /\ (n = Len(hist) \/ hist[n + 1] = d)
<1>1. Len(hist) \in 0..Len(hist) /\ hist \in Seq(Views)
  BY DEF Tidy
<1>2. Enter(hist, d)
  BY DEF Visit
<1> QED
  BY <1>1, <1>2, EnterLands

LEMMA ForwardLands ==
    ASSUME Tidy, NEW d \in Views \cup {MainMenu}, Visit(d, TRUE, FALSE)
    PROVE  \E n \in 0..Len(hist) :
             Lands(d, n) /\ (hist # << >> => n < Len(hist) /\ (n = Len(hist) - 1 \/ hist[n + 1] = d))
<1> DEFINE m == Len(WithoutLast(hist))
<1>1. Len(hist) \in Nat /\ (Len(hist) = 0 => hist = << >>) /\ hist \in Seq(Views)
  BY EmptySeq DEF Tidy
<1>2. /\ WithoutLast(hist) \in Seq(Views) /\ m \in 0..Len(hist)
      /\ \A i \in 1..m : WithoutLast(hist)[i] = hist[i]
      /\ hist # << >> => m = Len(hist) - 1
  BY <1>1, WithoutLastOf
<1>3. Enter(WithoutLast(hist), d)
  BY DEF Visit
<1>4. PICK n \in 0..m : Lands(d, n) /\ (n = m \/ hist[n + 1] = d)
  BY <1>2, <1>3, EnterLands
<1> HIDE DEF m
<1>5. n \in 0..Len(hist) /\ (hist # << >> => n < Len(hist) /\ (n = Len(hist) - 1 \/ hist[n + 1] = d))
  BY <1>1, <1>2, <1>4
<1> QED
  BY <1>4, <1>5

LEMMA ClearLands ==
    ASSUME Tidy, NEW d \in Views \cup {MainMenu}, NEW skip, NEW clear, Visit(d, skip, clear), clear \/ d = MainMenu
    PROVE  Lands(d, 0)
<1>1. Len(hist) \in Nat
  BY DEF Tidy
<1>2. CASE d = MainMenu
  BY <1>1, <1>2 DEF Visit, Enter, Lands
<1>3. CASE d # MainMenu
  <2>1. Enter(<< >>, d)
    BY <1>3 DEF Visit
  <2>2. /\ 0 \in 0..Len(hist) /\ << >> \in Seq(Views) /\ Len(<< >>) = 0
        /\ \A i \in 1..0 : << >>[i] = hist[i]
    BY <1>1
  <2> DEFINE h == << >>
             m == 0
  <2> HIDE DEF h, m
  <2>3. /\ m \in 0..Len(hist) /\ h \in Seq(Views) /\ Len(h) = m
        /\ \A i \in 1..m : h[i] = hist[i]
        /\ Enter(h, d)
    BY <2>1, <2>2 DEF h, m
  <2>4. \E n \in 0..m : Lands(d, n)
    BY <2>3, EnterLands
  <2> QED
    BY <2>4 DEF m
<1> QED
  BY <1>2, <1>3

(* Back: to a view of the history, over what is below it there.             *)
LEMMA BackLands ==
    ASSUME Tidy, NEW skip \in BOOLEAN, GoBack(skip)
    PROVE  /\ Below(skip) \in Views \cup {MainMenu}
           /\ \E n \in 0..Len(hist) :
                /\ Lands(Below(skip), n)
                /\ Below(skip) = MainMenu \/ (n < Len(hist) /\ hist[n + 1] = Below(skip))
<1> DEFINE h == IF skip THEN WithoutLast(hist) ELSE hist
<1>1. Len(hist) \in Nat /\ \A i \in 1..Len(hist) : hist[i] \in Views
  BY DEF Tidy
<1>2. /\ h \in Seq(Views) /\ \A i \in 1..Len(h) : h[i] = hist[i]
      /\ Len(h) = IF skip /\ Len(hist) # 0 THEN Len(hist) - 1 ELSE Len(hist)
  BY <1>1, WithoutLastOf DEF Tidy
<1>3. IF Len(h) < 2 THEN Enter(h, MainMenu)
      ELSE Enter(WithoutLast(WithoutLast(h)), h[Len(h) - 1])
  BY DEF GoBack
<1> HIDE DEF h
<1>4. CASE Len(h) < 2
  <2>1. Below(skip) = MainMenu
    BY <1>1, <1>2, <1>4 DEF Below
  <2>2. Len(h) \in 0..Len(hist) /\ MainMenu \in Views \cup {MainMenu}
    BY <1>1, <1>2
  <2>3. PICK n \in 0..Len(h) : Lands(MainMenu, n)
    BY <1>2, <1>3, <1>4, <2>2, EnterLands
  <2>4. n \in 0..Len(hist)
    BY <1>1, <2>2
  <2>5. \E k \in 0..Len(hist) : Lands(MainMenu, k)
    BY <2>3, <2>4
  <2> QED
    BY <2>1, <2>2, <2>5
<1>5. CASE ~(Len(h) < 2)
  <2> DEFINE m == Len(h) - 2
             w == WithoutLast(WithoutLast(h))
  <2>1. /\ w \in Seq(Views) /\ Len(w) = m
        /\ \A i \in 1..m : w[i] = h[i]
    <3>1. LET v == WithoutLast(h)
          IN v \in Seq(Views) /\ Len(v) = Len(h) - 1 /\ \A i \in 1..(Len(h) - 1) : v[i] = h[i]
      BY <1>2, <1>5, WithoutLastOf
    <3> QED
      BY <1>1, <1>2, <1>5, <3>1, WithoutLastOf
  <2>2. m \in 0..Len(hist) /\ m < Len(hist) /\ \A i \in 1..m : w[i] = hist[i]
    <3>1. m \in 0..Len(hist) /\ m < Len(hist) /\ m \in Nat /\ Len(h) = m + 2
      BY <1>1, <1>2, <1>5
    <3> HIDE DEF w, m
    <3>2. \A i \in 1..m : i \in 1..Len(h)
      BY <3>1
    <3>3. \A i \in 1..m : w[i] = hist[i]
      BY <1>2, <2>1, <3>2
    <3> QED
      BY <3>1, <3>3
  <2>3. Below(skip) = hist[m + 1] /\ h[Len(h) - 1] = hist[m + 1] /\ hist[m + 1] \in Views \cup {MainMenu}
    <3>1. m + 1 \in 1..Len(hist) /\ m + 1 \in 1..Len(h) /\ Len(h) - 1 = m + 1
      BY <1>1, <1>2, <1>5
    <3>2. Below(skip) = hist[m + 1]
      BY <1>1, <1>2, <1>5 DEF Below
    <3> HIDE DEF m
    <3> QED
      BY <1>1, <1>2, <3>1, <3>2
  <2>4. Enter(w, hist[m + 1])
    BY <1>3, <1>5, <2>3
  <2> HIDE DEF w, m
  <2>5. PICK n \in 0..m : Lands(hist[m + 1], n) /\ (n = m \/ hist[n + 1] = hist[m + 1])
    BY <2>1, <2>2, <2>3, <2>4, EnterLands
  <2>6. n \in 0..Len(hist) /\ n < Len(hist) /\ hist[n + 1] = hist[m + 1]
    BY <1>1, <2>2, <2>5
  <2> QED
    BY <2>3, <2>5, <2>6
<1> QED
  BY <1>4, <1>5
===============================================================================
