-------------------------- MODULE PageWidgetsProofs -------------------------
(***************************************************************************)
(* Proofs about the widgets that pages share, for any categories, devices, *)
(* search texts, forms and stored lists.                                   *)
(*                                                                         *)
(* IInv has three parts.  The popup is sound (PopSound).  What is open     *)
(* becomes the current component once the timers have fired (Becomes): it  *)
(* is so now or some timer makes it so, and every timer that makes another *)
(* one current is followed by one that is set later and not shorter.  The  *)
(* last request is for the form that was asked for last.                   *)
(***************************************************************************)
EXTENDS PageWidgets, FiniteSetTheorems, SequenceTheorems, TLAPS

Components == {Nobody, "popup", "combo"}
Devices == UNION {Records[k] : k \in CategoryNames}

\* What the page holds.
Labels == [all : CategoryNames \cup {NoCategory}, names : SUBSET Names(Devices)]
Popups ==
  [of : Forms \cup {Empty}, cat : CategoryNames \cup {NoCategory}, text : Texts,
   boxes : SUBSET Devices, checked : SUBSET Devices, all : BOOLEAN, label : Labels,
   vis : BOOLEAN, disable : BOOLEAN]
Timers == [ms : 1..10, ele : Components]
Widgets ==
  [cur : Components, timers : Seq(Timers), open : BOOLEAN, item : Items, pop : Popups]
FormStates ==
  [open : BOOLEAN, content : Forms \cup {Empty, Error}, asked : Forms \cup {Empty},
   requests : Seq(Forms)]

Shape ==
  /\ site \in {"users", "reports"}
  /\ w \in Widgets /\ form \in FormStates
  /\ hasty \in BOOLEAN /\ late \in BOOLEAN /\ overtaken \in BOOLEAN

\* A popup is of a form and shows boxes of its category: all of them without a
\* search, and then Select All is right.  It is disabled while it is visible.
PopSound(P) ==
  /\ P.disable = P.vis
  /\ P # NoPopup =>
       /\ P.of \in Forms /\ P.cat \in CategoryNames
       /\ P.checked \subseteq P.boxes /\ P.boxes \subseteq Records[P.cat]
       /\ P.text = NoText => P.boxes = Records[P.cat]
       /\ P.text = NoText /\ Records[P.cat] # {} => (P.all <=> P.checked = Records[P.cat])

\* Component e is the current one when all the timers of W have fired: it is now
\* or some timer makes it, and every timer that does not is followed by one
\* that does and fires later.
Becomes(W, e) ==
  /\ W.cur = e \/ \E i \in DOMAIN W.timers : W.timers[i].ele = e
  /\ \A i \in DOMAIN W.timers :
       \/ W.timers[i].ele = e
       \/ \E j \in DOMAIN W.timers :
            j > i /\ W.timers[j].ms >= W.timers[i].ms /\ W.timers[j].ele = e

\* What is open becomes the current component.
CurrentInv ==
  /\ w.pop.vis => form.open
  /\ ~hasty => /\ w.pop.vis => Becomes(w, "popup")
               /\ w.open /\ ~late => Becomes(w, "combo") /\ ~form.open
  /\ w.open => site = "users"

\* The last request is for the form asked for last.
RequestInv ==
  /\ ~overtaken =>
       /\ form.requests # <<>> => form.requests[Len(form.requests)] = form.asked
       /\ form.open /\ form.requests = <<>> => form.content \in {form.asked, Error}
  /\ ~form.open => form.content = Empty \/ late
  /\ site = "reports" => form.open

IInv == Shape /\ PopSound(w.pop) /\ CurrentInv /\ RequestInv

-----------------------------------------------------------------------------
(* Sequences and finite sets.                                              *)

\* What a concatenation holds.
LEMMA ConcatFacts ==
  ASSUME NEW S, NEW a \in Seq(S), NEW b \in Seq(S)
  PROVE  /\ a \o b \in Seq(S) /\ Len(a \o b) = Len(a) + Len(b)
         /\ \A j \in 1..(Len(a) + Len(b)) :
              (a \o b)[j] = IF j <= Len(a) THEN a[j] ELSE b[j - Len(a)]
  OBVIOUS

\* RemoveAt keeps the other elements in their order.
LEMMA RemoveAtFacts ==
  ASSUME NEW S, NEW s \in Seq(S), NEW i \in 1..Len(s)
  PROVE  /\ RemoveAt(s, i) \in Seq(S) /\ Len(RemoveAt(s, i)) = Len(s) - 1
         /\ \A j \in 1..(Len(s) - 1) : RemoveAt(s, i)[j] = IF j < i THEN s[j] ELSE s[j + 1]
<1> DEFINE a == SubSeq(s, 1, i - 1)
           b == SubSeq(s, i + 1, Len(s))
<1>1. Len(s) \in Nat /\ \A j \in 1..Len(s) : s[j] \in S
  OBVIOUS
<1>2. 1 \in Int /\ i - 1 \in Int /\ i + 1 \in Int /\ Len(s) \in Int
  BY <1>1
<1>3. /\ a \in Seq(S)
      /\ Len(a) = IF 1 <= i - 1 THEN (i - 1) - 1 + 1 ELSE 0
      /\ \A j \in 1..((i - 1) - 1 + 1) : a[j] = s[1 + j - 1]
  <2>1. \A j \in 1..(i - 1) : s[j] \in S
    BY <1>1
  <2> QED BY <1>1, <1>2, <2>1, SubSeqProperties
<1>4. /\ b \in Seq(S)
      /\ Len(b) = IF i + 1 <= Len(s) THEN Len(s) - (i + 1) + 1 ELSE 0
      /\ \A j \in 1..(Len(s) - (i + 1) + 1) : b[j] = s[(i + 1) + j - 1]
  <2>1. \A j \in (i + 1)..Len(s) : s[j] \in S
    BY <1>1
  <2> QED BY <1>1, <1>2, <2>1, SubSeqProperties
<1> HIDE DEF a, b
<1>5. Len(a) = i - 1 /\ \A j \in 1..(i - 1) : a[j] = s[j]
  <2>1. Len(a) = i - 1
    BY <1>1, <1>3
  <2>2. ASSUME NEW j \in 1..(i - 1) PROVE a[j] = s[j]
    <3>1. j \in 1..((i - 1) - 1 + 1) /\ 1 + j - 1 = j
      BY <1>1
    <3> QED BY <1>3, <3>1
  <2> QED BY <2>1, <2>2
<1>6. Len(b) = Len(s) - i /\ \A j \in 1..(Len(s) - i) : b[j] = s[i + j]
  <2>1. Len(b) = Len(s) - i
    BY <1>1, <1>4
  <2>2. ASSUME NEW j \in 1..(Len(s) - i) PROVE b[j] = s[i + j]
    <3>1. j \in 1..(Len(s) - (i + 1) + 1) /\ (i + 1) + j - 1 = i + j
      BY <1>1
    <3> QED BY <1>4, <3>1
  <2> QED BY <2>1, <2>2
<1>7. /\ a \o b \in Seq(S) /\ Len(a \o b) = Len(a) + Len(b)
      /\ \A j \in 1..(Len(a) + Len(b)) :
           (a \o b)[j] = IF j <= Len(a) THEN a[j] ELSE b[j - Len(a)]
  <2>1. a \in Seq(S) /\ b \in Seq(S)
    BY <1>3, <1>4
  <2> QED BY ONLY <2>1, ConcatFacts
<1>8. RemoveAt(s, i) = a \o b
  BY DEF RemoveAt, a, b
<1>9. ASSUME NEW j \in 1..(Len(s) - 1)
      PROVE  (a \o b)[j] = IF j < i THEN s[j] ELSE s[j + 1]
  <2>1. j \in 1..(Len(a) + Len(b))
    BY <1>1, <1>5, <1>6
  <2>2. CASE j < i
    <3>1. j \in 1..(i - 1) /\ j <= Len(a)
      BY <1>5, <2>2
    <3> QED BY <1>5, <1>7, <2>1, <2>2, <3>1
  <2>3. CASE ~(j < i)
    <3>1. j - (i - 1) \in 1..(Len(s) - i) /\ i + (j - (i - 1)) = j + 1 /\ ~(j <= i - 1)
      BY <1>1, <2>3
    <3>2. (a \o b)[j] = b[j - (i - 1)]
      BY <1>5, <1>7, <2>1, <3>1
    <3> QED BY <1>6, <2>3, <3>1, <3>2
  <2> QED BY <2>2, <2>3
<1>10. a \o b \in Seq(S) /\ Len(a \o b) = Len(s) - 1
  BY <1>1, <1>5, <1>6, <1>7
<1> QED BY <1>8, <1>9, <1>10, Zenon

\* A part of a finite set that has as many elements is all of it.
LEMMA SameSize ==
  ASSUME NEW S, IsFiniteSet(S), NEW T \in SUBSET S
  PROVE  /\ Cardinality(S) \in Nat /\ Cardinality(T) \in Nat
         /\ Cardinality(T) = Cardinality(S) <=> T = S
<1>1. /\ IsFiniteSet(T) /\ Cardinality(T) <= Cardinality(S)
      /\ Cardinality(S) = Cardinality(T) => S = T
  BY FS_Subset, Zenon
<1> QED BY <1>1, FS_CardinalityType

\* Nothing is counted as none.
LEMMA NoneIsZero ==
  ASSUME NEW S, IsFiniteSet(S)
  PROVE  Cardinality(S) = 0 <=> S = {}
  BY FS_EmptySet

-----------------------------------------------------------------------------
(* What the handlers make of the widgets.                                  *)

\* The empty values are distinct from what they stand beside, and the popup
\* that does not exist is sound.
LEMMA NoPopupFacts ==
  /\ NoCategory \notin CategoryNames /\ Categories[1] \in CategoryNames
  /\ Empty \notin Forms /\ Error \notin Forms /\ NoText \in Texts
  /\ NoPopup \in Popups /\ PopSound(NoPopup) /\ NoPopup.of = Empty /\ NoPopup.vis = FALSE
  /\ NoPopup.text = NoText /\ NoLabel \in Labels
<1>1. NoCategory \notin CategoryNames /\ Categories[1] \in CategoryNames
  BY PopupAssumption DEF CategoryNames, Range
<1>2. Empty \notin Forms /\ Error \notin Forms /\ NoText \in Texts
  BY PopupAssumption
<1>3. NoLabel \in Labels
  BY DEF NoLabel, Labels
<1>4. NoPopup \in Popups
  BY <1>2, <1>3 DEF NoPopup, Popups
<1>5. NoPopup.of = Empty /\ NoPopup.vis = FALSE /\ NoPopup.text = NoText /\ NoPopup.disable = FALSE
  BY DEF NoPopup
<1>6. PopSound(NoPopup)
  BY <1>5 DEF PopSound
<1> QED BY <1>1, <1>2, <1>3, <1>4, <1>5, <1>6

\* Later only adds a timer.
LEMMA LaterFacts ==
  ASSUME NEW W \in Widgets, NEW ms \in 1..10, NEW e \in Components
  PROVE  /\ Later(W, ms, e) \in Widgets
         /\ Later(W, ms, e).cur = W.cur /\ Later(W, ms, e).open = W.open
         /\ Later(W, ms, e).pop = W.pop /\ Later(W, ms, e).item = W.item
         /\ Later(W, ms, e).timers = Append(W.timers, [ms |-> ms, ele |-> e])
<1>1. W.timers \in Seq(Timers) /\ [ms |-> ms, ele |-> e] \in Timers
  BY DEF Widgets, Timers
<1>2. Append(W.timers, [ms |-> ms, ele |-> e]) \in Seq(Timers)
  BY <1>1
<1> QED BY <1>2 DEF Later, Widgets

\* A timer that fires as late as any other one decides which component is the
\* current one.
LEMMA LastDecides ==
  ASSUME NEW W \in Widgets, NEW V \in Widgets, NEW ms \in 1..10, NEW e \in Components,
         V.timers = Append(W.timers, [ms |-> ms, ele |-> e]),
         ms = 10 \/ W.timers = <<>>
  PROVE  Becomes(V, e)
<1> DEFINE T == W.timers
           U == V.timers
           m == Len(T) + 1
<1>1. T \in Seq(Timers) /\ Len(T) \in Nat
  BY DEF Widgets
<1>2. [ms |-> ms, ele |-> e] \in Timers
  BY DEF Timers
<1>3. /\ DOMAIN U = 1..m /\ U[m] = [ms |-> ms, ele |-> e]
      /\ \A i \in 1..Len(T) : U[i] = T[i] /\ T[i] \in Timers
  BY <1>1, <1>2
<1>4. m \in DOMAIN U /\ U[m].ms = ms /\ U[m].ele = e
  BY <1>1, <1>3
<1>5. ASSUME NEW i \in DOMAIN U, i # m PROVE m > i /\ U[m].ms >= U[i].ms
  <2>1. i \in 1..Len(T) /\ m > i
    BY <1>1, <1>3, <1>5
  <2>2. T # <<>> /\ U[i].ms \in 1..10
    BY <1>1, <1>3, <2>1 DEF Timers
  <2> QED BY <1>4, <2>1, <2>2
<1> HIDE DEF T, U, m
<1>6. \A i \in DOMAIN U : U[i].ele = e \/ \E j \in DOMAIN U : j > i /\ U[j].ms >= U[i].ms /\ U[j].ele = e
  BY <1>4, <1>5
<1>7. \E i \in DOMAIN U : U[i].ele = e
  BY <1>4
<1> QED BY <1>6, <1>7 DEF Becomes, U

\* Hiding the popup.
LEMMA HideFacts ==
  ASSUME NEW W \in Widgets, PopSound(W.pop), W.pop # NoPopup
  PROVE  LET V == ReallyHideMe(W)
         IN  /\ V \in Widgets /\ PopSound(V.pop) /\ V.pop.vis = FALSE
             /\ V.pop.of = W.pop.of /\ V.pop.cat = W.pop.cat /\ V.pop.checked = W.pop.checked
             /\ V.pop.label = W.pop.label /\ V.pop.text = W.pop.text
             /\ V.cur = Nobody /\ V.timers = W.timers /\ V.open = W.open /\ V.item = W.item
<1> DEFINE P == W.pop
           Q == [P EXCEPT !.vis = FALSE, !.disable = FALSE]
           V == [W EXCEPT !.pop = Q, !.cur = Nobody]
<1>1. ReallyHideMe(W) = V
  BY DEF ReallyHideMe, Widgets, Popups
<1>2. P \in Popups
  BY DEF Widgets
<1>3. /\ Q \in Popups /\ Q.vis = FALSE /\ Q.disable = FALSE /\ Q.of = P.of /\ Q.cat = P.cat
      /\ Q.text = P.text /\ Q.boxes = P.boxes /\ Q.checked = P.checked /\ Q.all = P.all
      /\ Q.label = P.label
  BY <1>2 DEF Popups
<1> HIDE DEF Q
<1>4. PopSound(Q)
  BY <1>3 DEF PopSound
<1>5. /\ V \in Widgets /\ V.pop = Q /\ V.cur = Nobody /\ V.timers = W.timers
      /\ V.open = W.open /\ V.item = W.item
  BY <1>3 DEF Widgets, Components
<1> HIDE DEF V
<1> QED BY <1>1, <1>3, <1>4, <1>5

\* The devices that generateCheckBox ticks.
Selected(P, searching) ==
  LET rec == Records[P.cat]
      stored == Stored[P.of]
      own == stored.cat = P.cat
      Recognised(S) == {d \in rec : d.name \in S \/ d.id \in S}
      ticked == IF searching THEN Names(P.checked)
                ELSE IF own /\ All \in stored.items THEN stored.items ELSE {}
  IN (IF All \in ticked THEN rec ELSE Recognised(ticked))
       \cup (IF own THEN Recognised(stored.items) ELSE {})

\* They are devices of the category.
LEMMA SelectedInside ==
  ASSUME NEW P, NEW searching \in BOOLEAN
  PROVE  Selected(P, searching) \subseteq Records[P.cat]
  BY DEF Selected

\* A search for everything selects what is ticked.
LEMMA TickedSelected ==
  ASSUME NEW P, NEW d \in P.checked, d \in Records[P.cat]
  PROVE  d \in Selected(P, TRUE)
  BY DEF Selected, Names

\* generateCheckBox makes a sound popup.
LEMMA CheckBoxFacts ==
  ASSUME NEW P \in Popups, NEW found, NEW searching \in BOOLEAN,
         P.of \in Forms, P.cat \in CategoryNames, P.disable = P.vis,
         found \subseteq Records[P.cat], searching => P.checked \subseteq Records[P.cat],
         P.text = NoText => found = Records[P.cat]
  PROVE  LET Q == GenerateCheckBox(P, found, searching)
         IN  /\ Q \in Popups /\ PopSound(Q) /\ Q # NoPopup
             /\ Q.of = P.of /\ Q.cat = P.cat /\ Q.text = P.text /\ Q.label = P.label
             /\ Q.vis = P.vis
             /\ Q.checked = Selected(P, searching) \cap
                  ({d \in Selected(P, searching) : P.text = NoText \/ d \notin Starts[P.text]} \cup found)
<1> DEFINE rec == Records[P.cat]
           sel == Selected(P, searching)
           boxes == {d \in sel : P.text = NoText \/ d \notin Starts[P.text]} \cup found
           before == IF searching THEN Cardinality(P.checked) ELSE 0
           all == /\ boxes # {}
                  /\ before = Cardinality(found) \/ Cardinality(boxes) = Cardinality(sel)
           Q == [P EXCEPT !.boxes = boxes, !.checked = boxes \cap sel, !.all = all]
<1>1. GenerateCheckBox(P, found, searching) = Q
  BY DEF GenerateCheckBox, Selected
<1>2. sel \subseteq rec /\ boxes \subseteq rec /\ boxes \cap sel \subseteq boxes
  BY SelectedInside
<1>3. rec \subseteq Devices /\ IsFiniteSet(rec)
  BY PopupAssumption DEF Devices, CategoryNames
<1> HIDE DEF rec, sel
<1>4. /\ Q \in Popups /\ Q.of = P.of /\ Q.cat = P.cat /\ Q.text = P.text /\ Q.label = P.label
      /\ Q.vis = P.vis /\ Q.disable = P.disable
      /\ Q.boxes = boxes /\ Q.checked = boxes \cap sel /\ Q.all = all
  <2>1. all \in BOOLEAN /\ boxes \in SUBSET Devices /\ boxes \cap sel \in SUBSET Devices
    BY <1>2, <1>3
  <2> HIDE DEF all, boxes
  <2> QED BY <2>1 DEF Popups
<1>5. Q # NoPopup
  BY <1>4, NoPopupFacts
<1>6. ASSUME P.text = NoText, rec # {}
      PROVE  boxes = rec /\ (all <=> boxes \cap sel = rec)
  <2>1. found = rec /\ boxes = rec /\ boxes \cap sel = sel
    BY <1>2, <1>6 DEF rec
  <2>2. /\ Cardinality(sel) \in Nat /\ Cardinality(rec) \in Nat
        /\ Cardinality(sel) = Cardinality(rec) <=> sel = rec
    BY <1>2, <1>3, SameSize
  <2>3. Cardinality(rec) # 0
    BY <1>3, <1>6, NoneIsZero
  <2>4. ASSUME before = Cardinality(rec) PROVE sel = rec
    <3>1. searching /\ Cardinality(P.checked) = Cardinality(rec)
      BY <2>3, <2>4
    <3>2. P.checked \in SUBSET rec
      BY <3>1 DEF rec
    <3>3. P.checked = rec
      BY <1>3, <3>1, <3>2, SameSize
    <3>4. searching = TRUE
      BY <3>1
    <3>5. \A d \in rec : d \in sel
      BY <3>3, <3>4, TickedSelected DEF rec, sel
    <3> QED BY <1>2, <3>5
  <2> HIDE DEF before
  <2>5. all <=> (before = Cardinality(rec) \/ Cardinality(rec) = Cardinality(sel))
    BY <1>6, <2>1
  <2> HIDE DEF all
  <2> QED BY <2>1, <2>2, <2>4, <2>5
<1> HIDE DEF boxes, all, Q
<1>7. boxes = rec \/ P.text # NoText
  <2>1. CASE P.text = NoText
    <3>1. found = rec
      BY <2>1 DEF rec
    <3> QED BY <1>2, <3>1 DEF boxes
  <2> QED BY <2>1
<1>8. PopSound(Q)
  BY <1>2, <1>4, <1>6, <1>7 DEF PopSound, rec
<1> QED BY <1>1, <1>4, <1>5, <1>8 DEF boxes, sel

\* The popup with another label, then hidden.
LEMMA LabelFacts ==
  ASSUME NEW W \in Widgets, PopSound(W.pop), W.pop # NoPopup, NEW l \in Labels
  PROVE  LET V == ReallyHideMe([W EXCEPT !.pop.label = l])
         IN  /\ V \in Widgets /\ PopSound(V.pop) /\ V.pop.vis = FALSE
             /\ V.pop.of = W.pop.of /\ V.pop.cat = W.pop.cat /\ V.pop.checked = W.pop.checked
             /\ V.pop.label = l /\ V.pop.text = W.pop.text
             /\ V.cur = Nobody /\ V.timers = W.timers /\ V.open = W.open /\ V.item = W.item
<1> DEFINE P == W.pop
           Q == [P EXCEPT !.label = l]
           U == [W EXCEPT !.pop = Q]
<1>1. [W EXCEPT !.pop.label = l] = U
  BY DEF Widgets, Popups
<1>2. P \in Popups
  BY DEF Widgets
<1>3. /\ Q \in Popups /\ Q.vis = P.vis /\ Q.disable = P.disable /\ Q.of = P.of /\ Q.cat = P.cat
      /\ Q.text = P.text /\ Q.boxes = P.boxes /\ Q.checked = P.checked /\ Q.all = P.all
      /\ Q.label = l
  BY <1>2 DEF Popups
<1>4. P.of \in Forms
  BY DEF PopSound
<1> HIDE DEF Q
<1>5. PopSound(Q) /\ Q # NoPopup
  BY <1>3, <1>4, NoPopupFacts DEF PopSound
<1>6. /\ U \in Widgets /\ U.pop = Q /\ U.cur = W.cur /\ U.timers = W.timers
      /\ U.open = W.open /\ U.item = W.item
  BY <1>3 DEF Widgets
<1> HIDE DEF U, P
<1>7. U \in Widgets /\ PopSound(U.pop) /\ U.pop # NoPopup
  BY <1>5, <1>6
<1> DEFINE V == ReallyHideMe(U)
<1>8. /\ V \in Widgets /\ PopSound(V.pop) /\ V.pop.vis = FALSE
      /\ V.pop.of = U.pop.of /\ V.pop.cat = U.pop.cat /\ V.pop.checked = U.pop.checked
      /\ V.pop.label = U.pop.label /\ V.pop.text = U.pop.text
      /\ V.cur = Nobody /\ V.timers = U.timers /\ V.open = U.open /\ V.item = U.item
  BY <1>7, HideFacts, Zenon
<1>9. ReallyHideMe([W EXCEPT !.pop.label = l]) = V
  BY <1>1
<1> HIDE DEF V
<1> QED BY <1>3, <1>6, <1>8, <1>9 DEF P

\* popupOk leaves the popup as it is or shows what is ticked and hides it.
LEMMA OkFacts ==
  ASSUME NEW W \in Widgets, PopSound(W.pop), W.pop # NoPopup
  PROVE  LET V == PopupOk(W)
         IN  /\ V \in Widgets /\ PopSound(V.pop) /\ V.pop.text = W.pop.text
             /\ V.pop.of = W.pop.of /\ V.pop.cat = W.pop.cat /\ V.pop.checked = W.pop.checked
             /\ V.timers = W.timers /\ V.open = W.open /\ V.item = W.item
             /\ \/ W.pop.checked = {} /\ V = W
                \/ /\ W.pop.checked # {} /\ V.pop.vis = FALSE /\ V.cur = Nobody
                   /\ V.pop.label = IF W.pop.all THEN [all |-> W.pop.cat, names |-> {}]
                                    ELSE [all |-> NoCategory, names |-> Names(W.pop.checked)]
<1> DEFINE l == IF W.pop.all THEN [all |-> W.pop.cat, names |-> {}]
                ELSE [all |-> NoCategory, names |-> Names(W.pop.checked)]
<1>1. CASE W.pop.checked = {}
  <2>1. PopupOk(W) = W
    BY <1>1 DEF PopupOk
  <2> QED BY <1>1, <2>1
<1>2. CASE W.pop.checked # {}
  <2>1. PopupOk(W) = ReallyHideMe([W EXCEPT !.pop.label = l])
    BY <1>2 DEF PopupOk
  <2>2. W.pop.checked \subseteq Devices /\ W.pop.cat \in CategoryNames
    BY DEF PopSound, Widgets, Popups
  <2>3. l \in Labels
    BY <2>2 DEF Labels, Names
  <2> HIDE DEF l
  <2> DEFINE V == ReallyHideMe([W EXCEPT !.pop.label = l])
  <2>4. /\ V \in Widgets /\ PopSound(V.pop) /\ V.pop.vis = FALSE
        /\ V.pop.of = W.pop.of /\ V.pop.cat = W.pop.cat /\ V.pop.checked = W.pop.checked
        /\ V.pop.label = l /\ V.pop.text = W.pop.text
        /\ V.cur = Nobody /\ V.timers = W.timers /\ V.open = W.open /\ V.item = W.item
    BY <2>3, LabelFacts, Zenon
  <2> HIDE DEF V
  <2> QED BY <1>2, <2>1, <2>4 DEF l, V
<1> QED BY <1>1, <1>2

\* New boxes: the popup becomes the current component.
LEMMA GeneratedFacts ==
  ASSUME NEW W \in Widgets, NEW found, NEW searching \in BOOLEAN,
         W.pop.of \in Forms, W.pop.cat \in CategoryNames, W.pop.disable = W.pop.vis,
         found \subseteq Records[W.pop.cat], searching => W.pop.checked \subseteq Records[W.pop.cat],
         W.pop.text = NoText => found = Records[W.pop.cat]
  PROVE  LET V == Generated(W, found, searching)
         IN  /\ V \in Widgets /\ V.pop = GenerateCheckBox(W.pop, found, searching)
             /\ PopSound(V.pop) /\ V.pop # NoPopup
             /\ V.cur = Nobody /\ V.timers = Append(W.timers, [ms |-> 10, ele |-> "popup"])
             /\ V.open = W.open /\ V.item = W.item
<1> DEFINE Q == GenerateCheckBox(W.pop, found, searching)
           U == [W EXCEPT !.pop = Q, !.cur = Nobody]
<1>1. Generated(W, found, searching) = Later(U, 10, "popup")
  BY DEF Generated, Widgets
<1>2. W.pop \in Popups
  BY DEF Widgets
<1>3. Q \in Popups /\ PopSound(Q) /\ Q # NoPopup
  BY <1>2, CheckBoxFacts
<1> HIDE DEF Q
<1>4. /\ U \in Widgets /\ U.pop = Q /\ U.cur = Nobody /\ U.timers = W.timers
      /\ U.open = W.open /\ U.item = W.item
  BY <1>3 DEF Widgets, Components
<1> HIDE DEF U
<1>5. "popup" \in Components /\ 10 \in 1..10
  BY DEF Components
<1> DEFINE V == Later(U, 10, "popup")
<1>6. /\ V \in Widgets /\ V.cur = U.cur /\ V.open = U.open /\ V.pop = U.pop /\ V.item = U.item
      /\ V.timers = Append(U.timers, [ms |-> 10, ele |-> "popup"])
  BY <1>4, <1>5, LaterFacts, Zenon
<1> HIDE DEF V
<1> QED BY <1>1, <1>3, <1>4, <1>6 DEF Q, V

\* A category is chosen.
LEMMA SetRecordFacts ==
  ASSUME NEW W \in Widgets, W.pop.of \in Forms, W.pop.disable = W.pop.vis, NEW k \in CategoryNames
  PROVE  LET V == SetRecord(W, k)
         IN  /\ V \in Widgets /\ PopSound(V.pop) /\ V.pop # NoPopup
             /\ V.pop.of = W.pop.of /\ V.pop.cat = k /\ V.pop.text = NoText
             /\ V.pop.label = NoLabel /\ V.pop.vis = W.pop.vis
             /\ \E P \in Popups : /\ P.of = W.pop.of /\ P.cat = k /\ P.text = NoText
                                  /\ V.pop.checked = Selected(P, FALSE)
             /\ V.cur = Nobody /\ V.timers = Append(W.timers, [ms |-> 10, ele |-> "popup"])
             /\ V.open = W.open /\ V.item = W.item
<1> DEFINE P == W.pop
           Q == [P EXCEPT !.cat = k, !.text = NoText, !.label = NoLabel]
           U == [W EXCEPT !.pop = Q]
           V == SetRecord(W, k)
<1>1. V = Generated(U, Records[k], FALSE)
  <2>1. [W EXCEPT !.pop.cat = k, !.pop.text = NoText, !.pop.label = NoLabel] = U
    BY DEF Widgets, Popups
  <2> QED BY <2>1 DEF SetRecord
<1>2. P \in Popups
  BY DEF Widgets
<1>3. /\ Q \in Popups /\ Q.vis = P.vis /\ Q.disable = P.disable /\ Q.of = P.of /\ Q.cat = k
      /\ Q.text = NoText /\ Q.label = NoLabel
  BY <1>2, NoPopupFacts DEF Popups
<1> HIDE DEF Q
<1>4. /\ U \in Widgets /\ U.pop = Q /\ U.cur = W.cur /\ U.timers = W.timers
      /\ U.open = W.open /\ U.item = W.item
  BY <1>3 DEF Widgets
<1> HIDE DEF U, V, P
<1>5. /\ V \in Widgets /\ V.pop = GenerateCheckBox(Q, Records[k], FALSE)
      /\ PopSound(V.pop) /\ V.pop # NoPopup
      /\ V.cur = Nobody /\ V.timers = Append(W.timers, [ms |-> 10, ele |-> "popup"])
      /\ V.open = W.open /\ V.item = W.item
  <2>1. U.pop.of \in Forms /\ U.pop.cat = k /\ U.pop.disable = U.pop.vis
    BY <1>3, <1>4 DEF P
  <2> QED BY <1>1, <1>4, <2>1, GeneratedFacts
<1>6. /\ V.pop.of = Q.of /\ V.pop.cat = Q.cat /\ V.pop.text = Q.text /\ V.pop.label = Q.label
      /\ V.pop.vis = Q.vis
      /\ V.pop.checked = Selected(Q, FALSE) \cap
           ({d \in Selected(Q, FALSE) : Q.text = NoText \/ d \notin Starts[Q.text]} \cup Records[k])
  <2>1. /\ Q.of \in Forms /\ Q.disable = Q.vis /\ Q.cat \in CategoryNames
        /\ Records[k] \subseteq Records[Q.cat] /\ (Q.text = NoText => Records[k] = Records[Q.cat])
        /\ FALSE \in BOOLEAN /\ (FALSE => Q.checked \subseteq Records[Q.cat])
    BY <1>3 DEF P
  <2> DEFINE C == GenerateCheckBox(Q, Records[k], FALSE)
             S == Selected(Q, FALSE) \cap
                    ({d \in Selected(Q, FALSE) : Q.text = NoText \/ d \notin Starts[Q.text]} \cup Records[k])
             no == FALSE
             found == Records[k]
  <2>2. /\ no \in BOOLEAN /\ found \subseteq Records[Q.cat] /\ (Q.text = NoText => found = Records[Q.cat])
        /\ no => Q.checked \subseteq Records[Q.cat]
    BY <2>1
  <2> HIDE DEF no, found
  <2>3. /\ GenerateCheckBox(Q, found, no).of = Q.of /\ GenerateCheckBox(Q, found, no).cat = Q.cat
        /\ GenerateCheckBox(Q, found, no).text = Q.text /\ GenerateCheckBox(Q, found, no).label = Q.label
        /\ GenerateCheckBox(Q, found, no).vis = Q.vis
    BY <1>3, <2>1, <2>2, CheckBoxFacts
  <2>4. GenerateCheckBox(Q, found, no).checked = Selected(Q, no) \cap
          ({d \in Selected(Q, no) : Q.text = NoText \/ d \notin Starts[Q.text]} \cup found)
    BY <1>3, <2>1, <2>2, CheckBoxFacts
  <2>5. C.of = Q.of /\ C.cat = Q.cat /\ C.text = Q.text /\ C.label = Q.label /\ C.vis = Q.vis
    BY <2>3 DEF no, found
  <2>6. C.checked = S
    BY <2>4, Zenon DEF no, found
  <2> HIDE DEF C
  <2> QED BY <1>5, <2>5, <2>6 DEF C
<1>7. V.pop.checked = Selected(Q, FALSE)
  BY <1>3, <1>6, SelectedInside
<1> QED BY <1>3, <1>5, <1>6, <1>7 DEF P, V

\* createPopUp: a popup for the form, not visible.
LEMMA CreateFacts ==
  ASSUME NEW W \in Widgets, NEW f \in Forms
  PROVE  LET V == CreatePopUp(W, f)
             k == IF Stored[f].cat = NoCategory THEN Categories[1] ELSE Stored[f].cat
         IN  /\ V \in Widgets /\ PopSound(V.pop) /\ V.pop.vis = FALSE
             /\ V.pop.of = f /\ V.pop.cat = k /\ k \in CategoryNames
             /\ \E P \in Popups : /\ P.of = f /\ P.cat = k /\ P.text = NoText
                                  /\ V.pop.checked = Selected(P, FALSE)
             /\ V.pop.label = IF Stored[f].cat = NoCategory \/ V.pop.checked = {} THEN NoLabel
                              ELSE IF V.pop.checked = Records[k] THEN [all |-> k, names |-> {}]
                              ELSE [all |-> NoCategory, names |-> Names(V.pop.checked)]
             /\ V.open = W.open
<1> DEFINE P == [NoPopup EXCEPT !.of = f]
           k == IF Stored[f].cat = NoCategory THEN Categories[1] ELSE Stored[f].cat
           X == [W EXCEPT !.pop = P]
           U == SetRecord(X, k)
           V == IF Stored[f].cat = NoCategory THEN U ELSE PopupOk(U)
           Z == CreatePopUp(W, f)
<1>1. V = (IF Stored[f].cat = NoCategory THEN U ELSE PopupOk(U)) /\ Z = Later(V, 1, Nobody)
  BY DEF CreatePopUp
<1>2. k \in CategoryNames
  BY NoPopupFacts, PopupAssumption DEF CategoryNames
<1> HIDE DEF k
<1>3. P \in Popups /\ P.of = f /\ P.vis = FALSE /\ P.disable = FALSE
  <2>1. NoPopup \in Popups /\ NoPopup.vis = FALSE /\ NoPopup.disable = FALSE
    BY NoPopupFacts DEF PopSound
  <2> QED BY <2>1 DEF Popups
<1> HIDE DEF P
<1>4. X \in Widgets /\ X.pop = P /\ X.open = W.open
  BY <1>3 DEF Widgets
<1> HIDE DEF X
<1>6. /\ U \in Widgets /\ PopSound(U.pop) /\ U.pop # NoPopup
      /\ U.pop.of = f /\ U.pop.cat = k /\ U.pop.text = NoText
      /\ U.pop.label = NoLabel /\ U.pop.vis = FALSE
      /\ \E R \in Popups : /\ R.of = f /\ R.cat = k /\ R.text = NoText
                           /\ U.pop.checked = Selected(R, FALSE)
      /\ U.open = W.open
  BY <1>2, <1>3, <1>4, SetRecordFacts
<1>7. U.pop.checked # {} => (U.pop.all <=> U.pop.checked = Records[k])
  BY <1>6 DEF PopSound
<1> DEFINE Made ==
      /\ V \in Widgets /\ PopSound(V.pop) /\ V.pop.vis = FALSE
      /\ V.pop.of = f /\ V.pop.cat = k /\ k \in CategoryNames
      /\ \E R \in Popups : /\ R.of = f /\ R.cat = k /\ R.text = NoText
                           /\ V.pop.checked = Selected(R, FALSE)
      /\ V.pop.label = IF Stored[f].cat = NoCategory \/ V.pop.checked = {} THEN NoLabel
                       ELSE IF V.pop.checked = Records[k] THEN [all |-> k, names |-> {}]
                       ELSE [all |-> NoCategory, names |-> Names(V.pop.checked)]
      /\ V.open = W.open
<1> HIDE DEF U, V
<1>8. ASSUME Stored[f].cat = NoCategory PROVE Made
  BY <1>1, <1>2, <1>6, <1>8
<1>9. ASSUME Stored[f].cat # NoCategory PROVE Made
  <2>1. V = PopupOk(U)
    BY <1>1, <1>9
  <2>2. /\ V \in Widgets /\ PopSound(V.pop)
        /\ V.pop.of = U.pop.of /\ V.pop.cat = U.pop.cat /\ V.pop.checked = U.pop.checked
        /\ V.open = U.open
        /\ \/ U.pop.checked = {} /\ V = U
           \/ /\ U.pop.checked # {} /\ V.pop.vis = FALSE
              /\ V.pop.label = IF U.pop.all THEN [all |-> U.pop.cat, names |-> {}]
                               ELSE [all |-> NoCategory, names |-> Names(U.pop.checked)]
    BY <1>6, <2>1, OkFacts
  <2>3. V.pop.label = IF V.pop.checked = {} THEN NoLabel
                      ELSE IF V.pop.checked = Records[k] THEN [all |-> k, names |-> {}]
                      ELSE [all |-> NoCategory, names |-> Names(V.pop.checked)]
    BY <1>6, <1>7, <2>2
  <2> QED BY <1>2, <1>6, <1>9, <2>2, <2>3
<1>10. Made
  BY <1>8, <1>9
<1>11. Z \in Widgets /\ Z.pop = V.pop /\ Z.open = V.open
  <2>1. Nobody \in Components /\ 1 \in 1..10
    BY DEF Components
  <2>2. V \in Widgets /\ Z = Later(V, 1, Nobody)
    BY <1>1, <1>10
  <2>3. Later(V, 1, Nobody) \in Widgets /\ Later(V, 1, Nobody).pop = V.pop
        /\ Later(V, 1, Nobody).open = V.open
    BY <2>1, <2>2, LaterFacts, Zenon
  <2> QED BY <2>2, <2>3
<1> HIDE DEF Z
<1> QED BY <1>10, <1>11 DEF k, Z

\* cancelMe hides the popup.
LEMMA CancelFacts ==
  ASSUME NEW W \in Widgets, PopSound(W.pop), W.pop # NoPopup
  PROVE  LET V == CancelMe(W)
         IN  /\ V \in Widgets /\ PopSound(V.pop) /\ V.pop.vis = FALSE
             /\ V.pop.cat = W.pop.cat /\ V.pop.text = W.pop.text
             /\ V.cur = Nobody /\ V.timers = W.timers /\ V.open = W.open
<1> DEFINE stored == Stored[W.pop.of]
           rec == Records[stored.cat]
           label == IF stored.items = {} THEN NoLabel
                    ELSE IF Cardinality(stored.items) = Cardinality(rec) THEN [all |-> stored.cat, names |-> {}]
                    ELSE [all |-> NoCategory, names |-> Names({d \in rec : {d.name, d.id} \cap stored.items # {}})]
           V == ReallyHideMe([W EXCEPT !.pop.label = label])
<1>1. CancelMe(W) = V
  BY DEF CancelMe
<1>2. W.pop.of \in Forms
  BY DEF PopSound
<1>3. stored.items # {} => stored.cat \in CategoryNames /\ rec \subseteq Devices
  BY <1>2, PopupAssumption DEF CategoryNames, Devices
<1>4. label \in Labels
  <2>1. \A S \in SUBSET Devices : [all |-> NoCategory, names |-> Names(S)] \in Labels
    BY DEF Labels, Names
  <2>2. stored.cat \in CategoryNames => [all |-> stored.cat, names |-> {}] \in Labels
    BY DEF Labels
  <2> HIDE DEF rec, stored
  <2>3. CASE stored.items = {}
    BY <2>3, NoPopupFacts
  <2>4. CASE stored.items # {}
    <3>1. {d \in rec : {d.name, d.id} \cap stored.items # {}} \in SUBSET Devices
      BY <1>3, <2>4
    <3>2. [all |-> NoCategory, names |-> Names({d \in rec : {d.name, d.id} \cap stored.items # {}})] \in Labels
      BY <2>1, <3>1
    <3> QED BY <1>3, <2>2, <2>4, <3>2
  <2> QED BY <2>3, <2>4
<1> HIDE DEF label, rec, stored
<1>5. /\ V \in Widgets /\ PopSound(V.pop) /\ V.pop.vis = FALSE
      /\ V.pop.cat = W.pop.cat /\ V.pop.text = W.pop.text
      /\ V.cur = Nobody /\ V.timers = W.timers /\ V.open = W.open
  BY <1>4, LabelFacts, Zenon
<1> HIDE DEF V
<1> QED BY <1>1, <1>5

\* showMe: the popup becomes visible and then the current component.
LEMMA ShowFacts ==
  ASSUME NEW W \in Widgets, PopSound(W.pop), W.pop # NoPopup, W.pop.vis = FALSE
  PROVE  LET V == ShowMe(W)
         IN  /\ V \in Widgets /\ PopSound(V.pop)
             /\ V.pop.cat = W.pop.cat /\ V.pop.text = W.pop.text
             /\ V.cur = Nobody /\ V.open = W.open
             /\ V.timers = Append(W.timers, [ms |-> 10, ele |-> "popup"])
<1> DEFINE P == W.pop
           Q == [P EXCEPT !.vis = TRUE, !.disable = TRUE]
           U == [W EXCEPT !.pop = Q, !.cur = Nobody]
           V == Later(U, 10, "popup")
<1>1. ShowMe(W) = V
  <2>1. W.pop.disable = FALSE
    BY DEF PopSound
  <2>2. [W EXCEPT !.pop.vis = TRUE, !.pop.disable = TRUE, !.cur = Nobody] = U
    BY DEF Widgets, Popups
  <2> QED BY <2>1, <2>2 DEF ShowMe
<1>2. P \in Popups
  BY DEF Widgets
<1>3. /\ Q \in Popups /\ Q.vis = TRUE /\ Q.disable = TRUE /\ Q.of = P.of /\ Q.cat = P.cat
      /\ Q.text = P.text /\ Q.boxes = P.boxes /\ Q.checked = P.checked /\ Q.all = P.all
  BY <1>2 DEF Popups
<1> HIDE DEF Q
<1>4. PopSound(Q)
  BY <1>3 DEF PopSound
<1>5. /\ U \in Widgets /\ U.pop = Q /\ U.cur = Nobody /\ U.timers = W.timers /\ U.open = W.open
  BY <1>3 DEF Widgets, Components
<1> HIDE DEF U
<1>6. "popup" \in Components /\ 10 \in 1..10
  BY DEF Components
<1>7. /\ V \in Widgets /\ V.cur = U.cur /\ V.open = U.open /\ V.pop = U.pop
      /\ V.timers = Append(U.timers, [ms |-> 10, ele |-> "popup"])
  BY <1>5, <1>6, LaterFacts, Zenon
<1> HIDE DEF V
<1> QED BY <1>1, <1>3, <1>4, <1>5, <1>7

\* A tick on one box or on Select All.
LEMMA TickFacts ==
  ASSUME NEW W \in Widgets, PopSound(W.pop), W.pop # NoPopup,
         NEW c, NEW a \in BOOLEAN, c \subseteq W.pop.boxes,
         W.pop.boxes = Records[W.pop.cat] /\ Records[W.pop.cat] # {} => (a <=> c = Records[W.pop.cat])
  PROVE  LET V == [W EXCEPT !.pop = [W.pop EXCEPT !.checked = c, !.all = a]]
         IN  /\ V \in Widgets /\ PopSound(V.pop) /\ V.pop.vis = W.pop.vis
             /\ V.pop.cat = W.pop.cat /\ V.pop.text = W.pop.text
             /\ V.cur = W.cur /\ V.timers = W.timers /\ V.open = W.open
<1> DEFINE P == W.pop
           Q == [P EXCEPT !.checked = c, !.all = a]
           V == [W EXCEPT !.pop = Q]
<1>1. P \in Popups
  BY DEF Widgets
<1>2. c \in SUBSET Devices
  BY <1>1 DEF Popups
<1>3. /\ Q \in Popups /\ Q.vis = P.vis /\ Q.disable = P.disable /\ Q.of = P.of /\ Q.cat = P.cat
      /\ Q.text = P.text /\ Q.boxes = P.boxes /\ Q.checked = c /\ Q.all = a
  BY <1>1, <1>2 DEF Popups
<1> HIDE DEF Q
<1>4. PopSound(Q)
  BY <1>3 DEF PopSound
<1>5. V \in Widgets /\ V.pop = Q /\ V.cur = W.cur /\ V.timers = W.timers /\ V.open = W.open
  BY <1>3 DEF Widgets
<1> HIDE DEF V
<1> QED BY <1>3, <1>4, <1>5 DEF V, Q

\* searchRecord: new boxes.
LEMMA SearchFacts ==
  ASSUME NEW W \in Widgets, PopSound(W.pop), W.pop # NoPopup, NEW t \in Texts
  PROVE  LET V == SearchRecord(W, t)
         IN  /\ V \in Widgets /\ PopSound(V.pop) /\ V.pop # NoPopup
             /\ V.pop.vis = W.pop.vis /\ V.pop.cat = W.pop.cat /\ V.pop.text = t
             /\ V.pop.checked = Selected(W.pop, TRUE) \cap
                  ({d \in Selected(W.pop, TRUE) : t = NoText \/ d \notin Starts[t]}
                     \cup (Records[W.pop.cat] \cap Finds[t]))
             /\ V.cur = Nobody /\ V.timers = Append(W.timers, [ms |-> 10, ele |-> "popup"])
             /\ V.open = W.open
<1> DEFINE P == W.pop
           Q == [P EXCEPT !.text = t]
           U == [W EXCEPT !.pop = Q]
           V == SearchRecord(W, t)
           found == Records[P.cat] \cap Finds[t]
           C == GenerateCheckBox(Q, found, TRUE)
<1>1. V = Generated(U, found, TRUE)
  <2>1. [W EXCEPT !.pop.text = t] = U
    BY DEF Widgets, Popups
  <2> QED BY <2>1 DEF SearchRecord
<1>2. P \in Popups
  BY DEF Widgets
<1>3. /\ Q \in Popups /\ Q.vis = P.vis /\ Q.disable = P.disable /\ Q.of = P.of /\ Q.cat = P.cat
      /\ Q.text = t /\ Q.checked = P.checked
  BY <1>2 DEF Popups
<1> HIDE DEF Q
<1>4. U \in Widgets /\ U.pop = Q /\ U.timers = W.timers /\ U.open = W.open
  BY <1>3 DEF Widgets
<1>5. /\ Q.of \in Forms /\ Q.cat \in CategoryNames /\ Q.disable = Q.vis
      /\ Q.checked \subseteq Records[Q.cat]
  BY <1>3 DEF PopSound
<1>6. found \subseteq Records[Q.cat] /\ (Q.text = NoText => found = Records[Q.cat])
  BY <1>3, <1>5, PopupAssumption DEF CategoryNames
<1>7. Selected(Q, TRUE) = Selected(P, TRUE)
  BY <1>3 DEF Selected
<1> HIDE DEF U, V, found
<1>8. TRUE \in BOOLEAN /\ (TRUE => Q.checked \subseteq Records[Q.cat])
  BY <1>5
<1>9. /\ C.of = Q.of /\ C.cat = Q.cat /\ C.text = Q.text /\ C.vis = Q.vis
      /\ C.checked = Selected(Q, TRUE) \cap
           ({d \in Selected(Q, TRUE) : Q.text = NoText \/ d \notin Starts[Q.text]} \cup found)
  BY <1>3, <1>5, <1>6, <1>8, CheckBoxFacts
<1>10. /\ V \in Widgets /\ V.pop = GenerateCheckBox(U.pop, found, TRUE)
       /\ PopSound(V.pop) /\ V.pop # NoPopup
       /\ V.cur = Nobody /\ V.timers = Append(U.timers, [ms |-> 10, ele |-> "popup"])
       /\ V.open = U.open
  BY <1>1, <1>4, <1>5, <1>6, <1>8, GeneratedFacts
<1>11. V.pop = C
  BY <1>4, <1>10
<1> HIDE DEF C, P
<1> QED BY <1>3, <1>4, <1>7, <1>9, <1>10, <1>11 DEF found, V, P

\* showComboBody opens and closes the box; only opening sets a timer.
LEMMA ComboFacts ==
  ASSUME NEW W \in Widgets
  PROVE  LET V == ShowComboBody(W)
         IN  /\ V \in Widgets /\ V.pop = W.pop
             /\ \/ W.open /\ ~V.open /\ V.cur = Nobody /\ V.timers = W.timers
                \/ /\ ~W.open /\ V.open /\ V.cur = W.cur
                   /\ V.timers = Append(W.timers, [ms |-> 5, ele |-> "combo"])
<1>1. CASE W.open
  BY <1>1 DEF ShowComboBody, Widgets, Components
<1>2. CASE ~W.open
  <2> DEFINE U == [W EXCEPT !.open = TRUE]
             V == Later(U, 5, "combo")
  <2>1. U \in Widgets /\ U.open = TRUE /\ U.cur = W.cur /\ U.timers = W.timers /\ U.pop = W.pop
    BY DEF Widgets
  <2>2. ShowComboBody(W) = V
    BY <1>2 DEF ShowComboBody
  <2> HIDE DEF U
  <2>3. "combo" \in Components /\ 5 \in 1..10
    BY DEF Components
  <2>4. /\ V \in Widgets /\ V.cur = U.cur /\ V.open = U.open /\ V.pop = U.pop
        /\ V.timers = Append(U.timers, [ms |-> 5, ele |-> "combo"])
    BY <2>1, <2>3, LaterFacts, Zenon
  <2> HIDE DEF V
  <2> QED BY <1>2, <2>1, <2>2, <2>4
<1> QED BY <1>1, <1>2

\* closeElements closes the current component unless the click is within it.
LEMMA CloseFacts ==
  ASSUME NEW W \in Widgets, PopSound(W.pop), NEW at
  PROVE  LET V == CloseElements(W, at)
         IN  /\ V \in Widgets /\ PopSound(V.pop)
             /\ V.pop.cat = W.pop.cat /\ V.pop.text = W.pop.text
             /\ \/ V = W /\ ~(W.cur = "combo" /\ at # "combo")
                         /\ ~(W.cur = "popup" /\ at # "popup" /\ W.pop.vis)
                \/ W.cur = "popup" /\ V.pop.vis = FALSE /\ V.open = W.open /\ V.timers = W.timers
                \/ W.cur = "combo" /\ at # "combo" /\ V.open = FALSE /\ V.pop = W.pop
<1> DEFINE V == CloseElements(W, at)
<1>1. CASE W.cur = "popup"
  <2>1. V = HideMe(W, at)
    BY <1>1 DEF CloseElements
  <2>2. CASE W.pop = NoPopup \/ at = "popup"
    <3>1. V = W
      BY <2>1, <2>2 DEF HideMe
    <3>2. ~(at # "popup" /\ W.pop.vis)
      BY <2>2, NoPopupFacts
    <3> QED BY <1>1, <3>1, <3>2
  <2>3. CASE ~(W.pop = NoPopup \/ at = "popup")
    <3> DEFINE U == ReallyHideMe(W)
    <3>1. V = U
      BY <2>1, <2>3 DEF HideMe
    <3>2. /\ U \in Widgets /\ PopSound(U.pop) /\ U.pop.vis = FALSE
          /\ U.pop.cat = W.pop.cat /\ U.pop.text = W.pop.text
          /\ U.timers = W.timers /\ U.open = W.open
      BY <2>3, HideFacts, Zenon
    <3> HIDE DEF U, V
    <3> QED BY <1>1, <3>1, <3>2 DEF V
  <2> QED BY <2>2, <2>3
<1>2. CASE W.cur = "combo"
  <2>1. V = HideCombo(W, at)
    BY <1>2 DEF CloseElements
  <2>2. CASE at = "combo"
    BY <1>2, <2>1, <2>2 DEF HideCombo
  <2>3. CASE at # "combo"
    <3> DEFINE X == [W EXCEPT !.open = FALSE]
               U == Later(X, 1, Nobody)
    <3>1. V = U
      BY <2>1, <2>3 DEF HideCombo, RealyHideCombo
    <3>2. X \in Widgets /\ X.open = FALSE /\ X.pop = W.pop
      BY DEF Widgets
    <3>3. Nobody \in Components /\ 1 \in 1..10
      BY DEF Components
    <3> HIDE DEF X
    <3>4. U \in Widgets /\ U.pop = X.pop /\ U.open = X.open
      BY <3>2, <3>3, LaterFacts, Zenon
    <3> HIDE DEF U, V
    <3> QED BY <1>2, <2>3, <3>1, <3>2, <3>4 DEF V
  <2> QED BY <2>2, <2>3
<1>3. CASE W.cur \notin {"popup", "combo"}
  <2>1. V = W
    BY <1>3 DEF CloseElements
  <2> QED BY <1>3, <2>1
<1> QED BY <1>1, <1>2, <1>3

-----------------------------------------------------------------------------
(* The steps of the page.                                                  *)

\* Without timers the component is the current one or it is not.
LEMMA BecomesNow ==
  ASSUME NEW W, W.timers = <<>>, NEW e
  PROVE  Becomes(W, e) <=> W.cur = e
  BY DEF Becomes

\* Before a click that is not hasty, what is open is the current component.
LEMMA Quiet ==
  ASSUME IInv, ~hasty, w.timers = <<>>
  PROVE  /\ w.pop.vis => w.cur = "popup"
         /\ w.open /\ ~late => w.cur = "combo" /\ ~form.open
  BY BecomesNow DEF IInv, CurrentInv

\* A click whose handlers make W of the widgets: what is still open after
\* closeElements becomes the current component.
LEMMA ClickStep ==
  ASSUME IInv, NEW W \in Widgets, PopSound(W.pop), NEW at, Click(W, at),
         W.open => site = "users", W.pop.vis => form'.open,
         ~hasty /\ w.timers = <<>> =>
           /\ W.pop.vis => W.cur # "combo" /\ Becomes(W, "popup")
           /\ W.open /\ ~late /\ ~(W.cur = "combo" /\ at # "combo") =>
                Becomes(W, "combo") /\ ~form'.open
  PROVE  w' \in Widgets /\ PopSound(w'.pop) /\ CurrentInv' /\ hasty' \in BOOLEAN
<1> DEFINE V == CloseElements(W, at)
<1>1. /\ w' = V /\ site' = site /\ late' = late
      /\ hasty' = (hasty \/ w.timers # <<>>)
  BY DEF Click
<1>2. /\ V \in Widgets /\ PopSound(V.pop)
      /\ \/ V = W /\ ~(W.cur = "combo" /\ at # "combo")
                  /\ ~(W.cur = "popup" /\ at # "popup" /\ W.pop.vis)
         \/ W.cur = "popup" /\ V.pop.vis = FALSE /\ V.open = W.open /\ V.timers = W.timers
         \/ W.cur = "combo" /\ at # "combo" /\ V.open = FALSE /\ V.pop = W.pop
  BY CloseFacts, Zenon
<1> HIDE DEF V
<1>3. (V.pop.vis => form'.open) /\ (V.open => site = "users")
  BY <1>2 DEF Widgets
<1>4. ASSUME ~hasty, w.timers = <<>>, V.pop.vis PROVE Becomes(V, "popup")
  BY <1>2, <1>4
<1>5. ASSUME ~hasty, w.timers = <<>>, V.open, ~late PROVE Becomes(V, "combo") /\ ~form'.open
  <2>1. CASE V = W /\ ~(W.cur = "combo" /\ at # "combo")
    BY <1>5, <2>1
  <2>2. CASE W.cur = "popup" /\ V.open = W.open /\ V.timers = W.timers
    <3>1. W.open /\ W.cur # "combo"
      BY <1>5, <2>2
    <3>2. Becomes(W, "combo") /\ ~form'.open
      BY <1>5, <3>1
    <3> QED BY <2>2, <3>1, <3>2 DEF Becomes
  <2> QED BY <1>2, <1>5, <2>1, <2>2
<1>6. hasty' \in BOOLEAN
  BY <1>1 DEF IInv, Shape
<1>7. CurrentInv'
  BY <1>1, <1>3, <1>4, <1>5 DEF CurrentInv
<1> QED BY <1>1, <1>2, <1>6, <1>7

\* A step that leaves the form alone.
LEMMA FormAlone ==
  ASSUME IInv, UNCHANGED <<site, form, late, overtaken>>,
         w' \in Widgets, PopSound(w'.pop), CurrentInv', hasty' \in BOOLEAN
  PROVE  IInv'
<1>1. Shape'
  BY DEF IInv, Shape
<1>2. RequestInv'
  BY DEF IInv, RequestInv
<1> QED BY <1>1, <1>2 DEF IInv

\* A click on the combo box or on one of its items.
LEMMA ClickComboKeeps ==
  ASSUME IInv, NEW W \in Widgets, W.pop = w.pop, W.cur = w.cur, W.timers = w.timers,
         W.open = w.open, OnMenu, Click(ShowComboBody(W), "combo"), UNCHANGED form
  PROVE  IInv'
<1> DEFINE V == ShowComboBody(W)
<1>1. /\ V \in Widgets /\ V.pop = W.pop
      /\ \/ W.open /\ ~V.open /\ V.cur = Nobody /\ V.timers = W.timers
         \/ /\ ~W.open /\ V.open /\ V.cur = W.cur
            /\ V.timers = Append(W.timers, [ms |-> 5, ele |-> "combo"])
  BY ComboFacts, Zenon
<1>2. site = "users" /\ ~form.open
  BY DEF OnMenu
<1>3. Click(V, "combo")
  OBVIOUS
<1> HIDE DEF V
<1>4. PopSound(V.pop) /\ ~V.pop.vis
  BY <1>1, <1>2 DEF IInv, CurrentInv
<1>5. ASSUME w.timers = <<>>, V.open PROVE Becomes(V, "combo")
  <2>1. V.timers = Append(W.timers, [ms |-> 5, ele |-> "combo"]) /\ W.timers = <<>>
    BY <1>1, <1>5
  <2>2. 5 \in 1..10 /\ "combo" \in Components
    BY DEF Components
  <2> QED BY <1>1, <2>1, <2>2, LastDecides
<1>6. w' \in Widgets /\ PopSound(w'.pop) /\ CurrentInv' /\ hasty' \in BOOLEAN
  BY <1>1, <1>2, <1>3, <1>4, <1>5, ClickStep
<1> QED BY <1>3, <1>6, FormAlone DEF Click

\* A click on the page.
LEMMA ClickElsewhereKeeps ==
  ASSUME IInv, ClickElsewhere
  PROVE  IInv'
<1>1. w \in Widgets /\ PopSound(w.pop) /\ Click(w, "page") /\ form' = form
  BY DEF IInv, Shape, ClickElsewhere
<1>2. (w.open => site = "users") /\ (w.pop.vis => form.open)
  BY DEF IInv, CurrentInv
<1>3. w' \in Widgets /\ PopSound(w'.pop) /\ CurrentInv' /\ hasty' \in BOOLEAN
  BY <1>1, <1>2, Quiet, BecomesNow, ClickStep
<1> QED BY <1>1, <1>3, FormAlone DEF Click

\* A click on the form, which covers the menu.
LEMMA ClickOnForm ==
  ASSUME IInv, form.open, NEW W \in Widgets, PopSound(W.pop), NEW at, Click(W, at), UNCHANGED form,
         W.open = w.open,
         ~hasty /\ w.timers = <<>> /\ W.pop.vis => W.cur # "combo" /\ Becomes(W, "popup")
  PROVE  IInv'
<1>1. W.open => site = "users"
  BY DEF IInv, CurrentInv
<1>2. w' \in Widgets /\ PopSound(w'.pop) /\ CurrentInv' /\ hasty' \in BOOLEAN
  BY <1>1, Quiet, ClickStep
<1> QED BY <1>2, FormAlone DEF Click

\* A click on the value of the popup shows it.
LEMMA ClickValueKeeps ==
  ASSUME IInv, ClickValue
  PROVE  IInv'
<1> DEFINE V == ShowMe(w)
<1>1. w \in Widgets /\ PopSound(w.pop) /\ w.pop # NoPopup /\ form.open /\ Click(V, "page") /\ form' = form
  BY DEF IInv, Shape, ClickValue
<1>2. CASE w.pop.vis
  <2>1. V = w
    BY <1>1, <1>2 DEF ShowMe, PopSound
  <2> HIDE DEF V
  <2>2. ~hasty /\ w.timers = <<>> => w.cur # "combo" /\ Becomes(w, "popup")
    BY <1>2, Quiet, BecomesNow
  <2> QED BY <1>1, <2>1, <2>2, ClickOnForm
<1>3. CASE ~w.pop.vis
  <2>1. w.pop.vis = FALSE
    BY <1>1, <1>3 DEF Widgets, Popups
  <2>2. /\ V \in Widgets /\ PopSound(V.pop) /\ V.cur = Nobody /\ V.open = w.open
        /\ V.timers = Append(w.timers, [ms |-> 10, ele |-> "popup"])
    BY <1>1, <2>1, ShowFacts, Zenon
  <2> HIDE DEF V
  <2>3. 10 \in 1..10 /\ "popup" \in Components /\ Nobody # "combo"
    BY DEF Components, Nobody
  <2>4. Becomes(V, "popup")
    BY <1>1, <2>2, <2>3, LastDecides
  <2> QED BY <1>1, <2>2, <2>3, <2>4, ClickOnForm
<1> QED BY <1>2, <1>3

\* The popup stays the current component while its boxes are ticked.
LEMMA TickKeeps ==
  ASSUME IInv, OnPopup, NEW c, NEW a \in BOOLEAN, c \subseteq w.pop.boxes,
         w.pop.boxes = Records[w.pop.cat] /\ Records[w.pop.cat] # {} => (a <=> c = Records[w.pop.cat]),
         Click([w EXCEPT !.pop = [w.pop EXCEPT !.checked = c, !.all = a]], "popup"), UNCHANGED form
  PROVE  IInv'
<1> DEFINE V == [w EXCEPT !.pop = [w.pop EXCEPT !.checked = c, !.all = a]]
<1>1. w \in Widgets /\ PopSound(w.pop) /\ form.open /\ w.pop.vis /\ w.pop # NoPopup
  BY NoPopupFacts DEF IInv, Shape, OnPopup
<1>2. /\ V \in Widgets /\ PopSound(V.pop)
      /\ V.cur = w.cur /\ V.timers = w.timers /\ V.open = w.open
  BY <1>1, TickFacts
<1>3. Click(V, "popup")
  OBVIOUS
<1> HIDE DEF V
<1>4. ~hasty /\ w.timers = <<>> => V.cur # "combo" /\ Becomes(V, "popup")
  BY <1>1, <1>2, Quiet, BecomesNow
<1> QED BY <1>1, <1>2, <1>3, <1>4, ClickOnForm

\* A tick on one box.
LEMMA ClickBoxKeeps ==
  ASSUME IInv, NEW d, ClickBox(d)
  PROVE  IInv'
<1> DEFINE P == w.pop
           c == (P.checked \ {d}) \cup ({d} \ P.checked)
           a == Cardinality(c) = Cardinality(Records[P.cat])
<1>1. OnPopup /\ d \in P.boxes /\ Click([w EXCEPT !.pop = SelectCheckPop(@, d)], "popup") /\ form' = form
  BY DEF ClickBox
<1>2. [w EXCEPT !.pop = SelectCheckPop(@, d)] = [w EXCEPT !.pop = [P EXCEPT !.checked = c, !.all = a]]
  BY DEF SelectCheckPop, IInv, Shape, Widgets
<1>3. PopSound(P) /\ P # NoPopup
  BY <1>1, NoPopupFacts DEF IInv, OnPopup
<1>4. c \subseteq P.boxes /\ c \subseteq Records[P.cat]
  BY <1>1, <1>3 DEF PopSound
<1>5. IsFiniteSet(Records[P.cat])
  BY <1>3, PopupAssumption DEF PopSound, CategoryNames
<1> HIDE DEF c
<1>6. a <=> c = Records[P.cat]
  BY <1>4, <1>5, SameSize
<1>7. a \in BOOLEAN
  OBVIOUS
<1> HIDE DEF a
<1> QED BY <1>1, <1>2, <1>4, <1>6, <1>7, TickKeeps

\* A tick on Select All.
LEMMA ClickAllKeeps ==
  ASSUME IInv, ClickAll
  PROVE  IInv'
<1> DEFINE P == w.pop
           c == IF P.all THEN {} ELSE P.boxes
           a == ~P.all
<1>1. OnPopup /\ Click([w EXCEPT !.pop = SelectAllCheckPop(@)], "popup") /\ form' = form
  BY DEF ClickAll
<1>2. P.all \in BOOLEAN
  BY DEF IInv, Shape, Widgets, Popups
<1>3. [w EXCEPT !.pop = SelectAllCheckPop(@)] = [w EXCEPT !.pop = [P EXCEPT !.checked = c, !.all = a]]
  BY DEF SelectAllCheckPop, IInv, Shape, Widgets, Popups
<1>4. /\ c \subseteq P.boxes /\ a \in BOOLEAN
      /\ P.boxes = Records[P.cat] /\ Records[P.cat] # {} => (a <=> c = Records[P.cat])
  BY <1>2
<1> HIDE DEF a, c
<1> QED BY <1>1, <1>3, <1>4, TickKeeps

\* A click on a radio button.
LEMMA ClickRadioKeeps ==
  ASSUME IInv, NEW k \in CategoryNames, ClickRadio(k)
  PROVE  IInv'
<1> DEFINE V == SetRecord(w, k)
<1>1. /\ w \in Widgets /\ PopSound(w.pop) /\ form.open /\ w.pop.vis /\ w.pop # NoPopup
      /\ Click(V, "popup") /\ form' = form
  BY NoPopupFacts DEF IInv, Shape, OnPopup, ClickRadio
<1>2. w.pop.of \in Forms /\ w.pop.disable = w.pop.vis
  BY <1>1 DEF PopSound
<1>3. /\ V \in Widgets /\ PopSound(V.pop) /\ V.cur = Nobody /\ V.open = w.open
      /\ V.timers = Append(w.timers, [ms |-> 10, ele |-> "popup"])
  BY <1>1, <1>2, SetRecordFacts
<1> HIDE DEF V
<1>4. 10 \in 1..10 /\ "popup" \in Components /\ Nobody # "combo"
  BY DEF Components, Nobody
<1>5. Becomes(V, "popup")
  BY <1>1, <1>3, <1>4, LastDecides
<1> QED BY <1>1, <1>3, <1>4, <1>5, ClickOnForm

\* The button that takes the ticks over.
LEMMA ClickOkKeeps ==
  ASSUME IInv, ClickOk
  PROVE  IInv'
<1> DEFINE V == PopupOk(w)
<1>1. /\ w \in Widgets /\ PopSound(w.pop) /\ form.open /\ w.pop.vis /\ w.pop # NoPopup
      /\ Click(V, "popup") /\ form' = form
  BY NoPopupFacts DEF IInv, Shape, OnPopup, ClickOk
<1>2. /\ V \in Widgets /\ PopSound(V.pop) /\ V.open = w.open
      /\ V = w \/ V.pop.vis = FALSE
  BY <1>1, OkFacts
<1> HIDE DEF V
<1>3. ~hasty /\ w.timers = <<>> /\ V.pop.vis => V.cur # "combo" /\ Becomes(V, "popup")
  BY <1>1, <1>2, Quiet, BecomesNow
<1> QED BY <1>1, <1>2, <1>3, ClickOnForm

\* The button that leaves them.
LEMMA ClickCancelKeeps ==
  ASSUME IInv, ClickCancel
  PROVE  IInv'
<1> DEFINE V == CancelMe(w)
<1>1. /\ w \in Widgets /\ PopSound(w.pop) /\ form.open /\ w.pop.vis /\ w.pop # NoPopup
      /\ Click(V, "popup") /\ form' = form
  BY NoPopupFacts DEF IInv, Shape, OnPopup, ClickCancel
<1>2. V \in Widgets /\ PopSound(V.pop) /\ V.open = w.open /\ V.pop.vis = FALSE
  BY <1>1, CancelFacts
<1> HIDE DEF V
<1> QED BY <1>1, <1>2, ClickOnForm

\* A key in the search box.
LEMMA KeySearchKeeps ==
  ASSUME IInv, NEW t \in Texts, KeySearch(t)
  PROVE  IInv'
<1> DEFINE V == SearchRecord(w, t)
<1>1. /\ w \in Widgets /\ PopSound(w.pop) /\ form.open /\ w.pop.vis /\ w.pop # NoPopup
      /\ w' = V /\ UNCHANGED <<site, form, hasty, late, overtaken>>
  BY NoPopupFacts DEF IInv, Shape, OnPopup, KeySearch
<1>2. /\ V \in Widgets /\ PopSound(V.pop) /\ V.open = w.open
      /\ V.timers = Append(w.timers, [ms |-> 10, ele |-> "popup"])
  BY <1>1, SearchFacts
<1> HIDE DEF V
<1>3. 10 \in 1..10 /\ "popup" \in Components
  BY DEF Components
<1>4. Becomes(V, "popup")
  BY <1>1, <1>2, <1>3, LastDecides
<1>5. CurrentInv'
  BY <1>1, <1>2, <1>4 DEF IInv, CurrentInv
<1>6. hasty' \in BOOLEAN
  BY <1>1 DEF IInv, Shape
<1> QED BY <1>1, <1>2, <1>5, <1>6, FormAlone

\* A timer fires: those that fire later still decide.
LEMMA FireFacts ==
  ASSUME NEW W \in Widgets, NEW i \in DOMAIN W.timers,
         \A j \in 1..(i - 1) : W.timers[j].ms > W.timers[i].ms
  PROVE  LET V == [W EXCEPT !.cur = W.timers[i].ele, !.timers = RemoveAt(@, i)]
         IN  /\ V \in Widgets /\ V.pop = W.pop /\ V.open = W.open
             /\ \A e \in Components : Becomes(W, e) => Becomes(V, e)
<1> DEFINE T == W.timers
           U == RemoveAt(T, i)
           V == [W EXCEPT !.cur = W.timers[i].ele, !.timers = RemoveAt(@, i)]
<1>1. T \in Seq(Timers) /\ i \in 1..Len(T) /\ Len(T) \in Nat
  BY DEF Widgets
<1>2. /\ U \in Seq(Timers) /\ Len(U) = Len(T) - 1
      /\ \A j \in 1..(Len(T) - 1) : U[j] = IF j < i THEN T[j] ELSE T[j + 1]
  BY <1>1, RemoveAtFacts
<1>3. \A j \in 1..Len(T) : T[j] \in Timers /\ T[j].ms \in Int
  <2>1. \A j \in 1..Len(T) : T[j] \in Timers
    BY <1>1
  <2>2. \A t \in Timers : t.ms \in Int
    BY DEF Timers
  <2> QED BY <2>1, <2>2
<1>4. T[i].ele \in Components
  BY <1>1, <1>3 DEF Timers
<1> HIDE DEF U
<1>5. V = [W EXCEPT !.cur = T[i].ele, !.timers = U]
  BY DEF U, Widgets
<1> HIDE DEF V
<1>6. V \in Widgets /\ V.pop = W.pop /\ V.open = W.open /\ V.cur = T[i].ele /\ V.timers = U
  BY <1>2, <1>4, <1>5 DEF Widgets
<1>7. ASSUME NEW e \in Components, Becomes(W, e) PROVE Becomes(V, e)
  <2>1. \A j \in 1..Len(T) : \/ T[j].ele = e
                             \/ \E m \in 1..Len(T) : m > j /\ T[m].ms >= T[j].ms /\ T[m].ele = e
    BY <1>1, <1>7 DEF Becomes
  <2>2. DOMAIN U = 1..(Len(T) - 1) /\ DOMAIN T = 1..Len(T)
    BY <1>1, <1>2
  <2>3. ASSUME NEW j \in DOMAIN U, U[j].ele # e
        PROVE  \E m \in DOMAIN U : m > j /\ U[m].ms >= U[j].ms /\ U[m].ele = e
    <3> DEFINE o == IF j < i THEN j ELSE j + 1
    <3>1. o \in 1..Len(T) /\ o # i /\ U[j] = T[o]
      BY <1>1, <1>2, <2>2
    <3>2. PICK m \in 1..Len(T) : m > o /\ T[m].ms >= T[o].ms /\ T[m].ele = e
      BY <2>1, <2>3, <3>1
    <3>3. m # i
      <4>1. SUFFICES ASSUME m = i PROVE FALSE
        OBVIOUS
      <4>2. o \in 1..(i - 1)
        BY <1>1, <3>1, <3>2, <4>1
      <4>3. T[o].ms > T[i].ms /\ T[i].ms >= T[o].ms
        BY <3>2, <4>1, <4>2
      <4> QED BY <1>1, <1>3, <3>1, <4>3
    <3> DEFINE r == IF m < i THEN m ELSE m - 1
    <3>4. r \in 1..(Len(T) - 1) /\ r > j /\ U[r] = T[m]
      <4>1. CASE m < i
        <5>1. r = m /\ r \in 1..(Len(T) - 1) /\ r > j
          BY <1>1, <2>2, <3>1, <3>2, <4>1
        <5> QED BY <1>2, <4>1, <5>1
      <4>2. CASE m > i
        <5>1. r = m - 1 /\ r \in 1..(Len(T) - 1) /\ ~(r < i) /\ r + 1 = m
          BY <1>1, <3>2, <4>2
        <5>2. r > j
          BY <1>1, <2>2, <3>1, <3>2, <4>2
        <5> QED BY <1>2, <5>1, <5>2
      <4> QED BY <1>1, <3>3, <4>1, <4>2
    <3> HIDE DEF r, o
    <3>5. r \in DOMAIN U /\ r > j /\ U[r].ms >= U[j].ms /\ U[r].ele = e
      BY <2>2, <3>1, <3>2, <3>4
    <3> QED BY <3>5
  <2>4. T[i].ele = e \/ \E j \in DOMAIN U : U[j].ele = e
    <3>1. SUFFICES ASSUME T[i].ele # e PROVE \E j \in DOMAIN U : U[j].ele = e
      OBVIOUS
    <3>2. PICK m \in 1..Len(T) : m > i /\ T[m].ele = e
      BY <1>1, <2>1, <3>1
    <3>3. m - 1 \in DOMAIN U /\ U[m - 1] = T[m]
      BY <1>1, <1>2, <2>2, <3>2
    <3> QED BY <3>2, <3>3
  <2> HIDE DEF T
  <2> QED BY <1>6, <2>3, <2>4 DEF Becomes
<1> QED BY <1>6, <1>7 DEF V

\* A timer fires.
LEMMA SetOpenComponentKeeps ==
  ASSUME IInv, NEW i, SetOpenComponent(i)
  PROVE  IInv'
<1> DEFINE V == [w EXCEPT !.cur = w.timers[i].ele, !.timers = RemoveAt(@, i)]
<1>1. /\ w \in Widgets /\ i \in DOMAIN w.timers /\ UNCHANGED <<site, form, hasty, late, overtaken>>
      /\ \A j \in 1..(i - 1) : w.timers[j].ms > w.timers[i].ms
      /\ w' = V
  BY DEF IInv, Shape, SetOpenComponent
<1>2. /\ V \in Widgets /\ V.pop = w.pop /\ V.open = w.open
      /\ \A e \in Components : Becomes(w, e) => Becomes(V, e)
  BY <1>1, FireFacts
<1> HIDE DEF V
<1>3. PopSound(w'.pop) /\ hasty' \in BOOLEAN
  BY <1>1, <1>2 DEF IInv, Shape
<1>4. CurrentInv'
  BY <1>1, <1>2 DEF IInv, CurrentInv, Components
<1> QED BY <1>1, <1>2, <1>3, <1>4, FormAlone

\* The form is opened, under an open combo box or another request.
LEMMA ThickBoxOpenKeeps ==
  ASSUME IInv, NEW f \in Forms, HandleThickBoxOpen(f)
  PROVE  IInv'
<1>1. /\ site = "users" /\ Click(w, "page") /\ w \in Widgets /\ PopSound(w.pop) /\ form \in FormStates
      /\ form' = [form EXCEPT !.open = TRUE, !.asked = f, !.requests = Append(@, f)]
      /\ UNCHANGED <<site, late, overtaken>>
  BY DEF IInv, Shape, HandleThickBoxOpen, Click
<1>2. form.requests \in Seq(Forms)
  BY <1>1 DEF FormStates
<1>3. /\ Append(form.requests, f) \in Seq(Forms) /\ Append(form.requests, f) # <<>>
      /\ Append(form.requests, f)[Len(Append(form.requests, f))] = f
  BY <1>2
<1>4. /\ form' \in FormStates /\ form'.open = TRUE /\ form'.asked = f
      /\ form'.requests = Append(form.requests, f)
  BY <1>1, <1>3 DEF FormStates
<1>5. w.pop.vis => form'.open
  BY <1>4
<1>6. w' \in Widgets /\ PopSound(w'.pop) /\ CurrentInv' /\ hasty' \in BOOLEAN
  BY <1>1, <1>5, Quiet, BecomesNow, ClickStep
<1>7. RequestInv'
  BY <1>1, <1>3, <1>4 DEF RequestInv
<1> QED BY <1>1, <1>4, <1>6, <1>7 DEF IInv, Shape

\* The form is closed, and the popup with it.
LEMMA ThickBoxCloseKeeps ==
  ASSUME IInv, HandleThickBoxClose
  PROVE  IInv'
<1> DEFINE V == [w EXCEPT !.pop = NoPopup]
<1>1. /\ site = "users" /\ Click(V, "page") /\ w \in Widgets /\ form \in FormStates /\ form.open
      /\ form' = [form EXCEPT !.open = FALSE, !.content = Empty]
      /\ UNCHANGED <<site, late, overtaken>>
  BY DEF IInv, Shape, HandleThickBoxClose, Click
<1>2. /\ form' \in FormStates /\ form'.open = FALSE /\ form'.content = Empty
      /\ form'.asked = form.asked /\ form'.requests = form.requests
  BY <1>1 DEF FormStates
<1>3. V \in Widgets /\ PopSound(V.pop) /\ V.pop.vis = FALSE /\ V.open = w.open
  BY <1>1, NoPopupFacts DEF Widgets
<1> HIDE DEF V
<1>4. w' \in Widgets /\ PopSound(w'.pop) /\ CurrentInv' /\ hasty' \in BOOLEAN
  BY <1>1, <1>3, Quiet, ClickStep
<1>5. RequestInv'
  BY <1>1, <1>2 DEF IInv, RequestInv
<1> QED BY <1>1, <1>2, <1>4, <1>5 DEF IInv, Shape

\* An answer comes, in any order, to a form that is open or closed.
LEMMA SubmitPopupFormKeeps ==
  ASSUME IInv, NEW i, NEW ok \in BOOLEAN, SubmitPopupForm(i, ok)
  PROVE  IInv'
<1> DEFINE R == form.requests
           S == RemoveAt(R, i)
           c == IF ok THEN R[i] ELSE Error
<1>1. /\ i \in DOMAIN R /\ form' = [form EXCEPT !.content = c, !.requests = S]
      /\ w' = IF ok THEN CreatePopUp(w, R[i]) ELSE [w EXCEPT !.pop = NoPopup]
      /\ late' = (late \/ ~form.open) /\ overtaken' = (overtaken \/ i # 1)
      /\ site' = site /\ hasty' = hasty
      /\ w \in Widgets /\ form \in FormStates
  BY DEF IInv, Shape, SubmitPopupForm, FormStates
<1>2. R \in Seq(Forms) /\ i \in 1..Len(R) /\ Len(R) \in Nat /\ R[i] \in Forms
  BY <1>1 DEF FormStates
<1>3. /\ S \in Seq(Forms) /\ Len(S) = Len(R) - 1
      /\ \A j \in 1..(Len(R) - 1) : S[j] = IF j < i THEN R[j] ELSE R[j + 1]
  BY <1>2, RemoveAtFacts
<1>4. c \in Forms \cup {Error}
  BY <1>2
<1> HIDE DEF S, c
<1>5. /\ form' \in FormStates /\ form'.content = c /\ form'.requests = S
      /\ form'.open = form.open /\ form'.asked = form.asked
  BY <1>1, <1>3, <1>4 DEF FormStates
<1>6. w' \in Widgets /\ PopSound(w'.pop) /\ w'.pop.vis = FALSE /\ w'.open = w.open
  <2>1. CASE ok
    <3>1. w' = CreatePopUp(w, R[i])
      BY <1>1, <2>1
    <3> DEFINE f == R[i]
               V == CreatePopUp(w, f)
    <3>2. f \in Forms /\ w' = V
      BY <1>2, <3>1
    <3> HIDE DEF f
    <3>3. V \in Widgets /\ PopSound(V.pop) /\ V.pop.vis = FALSE /\ V.open = w.open
      BY <1>1, <3>2, CreateFacts
    <3> QED BY <3>2, <3>3
  <2>2. CASE ~ok
    <3>1. w' = [w EXCEPT !.pop = NoPopup]
      BY <1>1, <2>2
    <3> QED BY <1>1, <3>1, NoPopupFacts DEF Widgets
  <2> QED BY <2>1, <2>2
<1>7. CurrentInv'
  BY <1>1, <1>5, <1>6 DEF IInv, CurrentInv
<1>8. RequestInv'
  <2>1. ASSUME ~overtaken'
        PROVE  /\ S # <<>> => S[Len(S)] = form.asked
               /\ S = <<>> => c \in {form.asked, Error}
    <3>1. i = 1 /\ R # <<>> /\ R[Len(R)] = form.asked
      <4>1. ~overtaken /\ i = 1
        BY <1>1, <2>1
      <4>2. R # <<>>
        BY <1>2
      <4> QED BY <4>1, <4>2 DEF IInv, RequestInv
    <3>2. S # <<>> => S[Len(S)] = R[Len(R)]
      <4>1. SUFFICES ASSUME S # <<>> PROVE S[Len(S)] = R[Len(R)]
        OBVIOUS
      <4>2. Len(S) \in 1..(Len(R) - 1) /\ ~(Len(S) < i) /\ Len(S) + 1 = Len(R)
        BY <1>2, <1>3, <3>1, <4>1
      <4> QED BY <1>3, <4>2
    <3>3. S = <<>> => Len(R) = 1
      BY <1>2, <1>3
    <3> QED BY <3>1, <3>2, <3>3 DEF c
  <2>2. ~form.open => late'
    BY <1>1
  <2>3. site = "reports" => form.open
    BY DEF IInv, RequestInv
  <2> QED BY <1>1, <1>5, <2>1, <2>2, <2>3 DEF RequestInv
<1>9. late' \in BOOLEAN /\ overtaken' \in BOOLEAN
  BY <1>1
<1> QED BY <1>1, <1>5, <1>6, <1>7, <1>8, <1>9 DEF IInv, Shape

\* The invariant holds when the page is loaded.
LEMMA InitIInv ==
  Init => IInv
<1>1. SUFFICES ASSUME Init PROVE IInv
  OBVIOUS
<1>2. PICK i \in Items :
        LET W == [cur |-> Nobody, timers |-> <<>>, open |-> FALSE, item |-> i, pop |-> NoPopup]
            closed == [open |-> FALSE, content |-> Empty, asked |-> Empty, requests |-> <<>>]
        IN \/ site = "users" /\ w = W /\ form = closed
           \/ /\ site = "reports"
              /\ \E f \in Forms :
                   /\ w = CreatePopUp(W, f)
                   /\ form = [closed EXCEPT !.open = TRUE, !.content = f, !.asked = f]
  BY <1>1 DEF Init
<1> DEFINE W == [cur |-> Nobody, timers |-> <<>>, open |-> FALSE, item |-> i, pop |-> NoPopup]
           closed == [open |-> FALSE, content |-> Empty, asked |-> Empty, requests |-> <<>>]
<1>3. W \in Widgets /\ W.pop = NoPopup /\ W.open = FALSE
  BY NoPopupFacts DEF Widgets, Components
<1>4. closed \in FormStates
  BY DEF FormStates
<1>5. hasty = FALSE /\ late = FALSE /\ overtaken = FALSE
  BY <1>1 DEF Init
<1>6. CASE site = "users" /\ w = W /\ form = closed
  <2>1. Shape
    BY <1>3, <1>4, <1>5, <1>6 DEF Shape
  <2>2. PopSound(w.pop) /\ ~w.pop.vis /\ ~w.open
    BY <1>3, <1>6, NoPopupFacts
  <2>3. CurrentInv
    BY <2>2 DEF CurrentInv
  <2>4. RequestInv
    BY <1>6 DEF RequestInv
  <2> QED BY <2>1, <2>2, <2>3, <2>4 DEF IInv
<1>7. ASSUME NEW f \in Forms, site = "reports", w = CreatePopUp(W, f),
             form = [closed EXCEPT !.open = TRUE, !.content = f, !.asked = f]
      PROVE  IInv
  <2>1. w \in Widgets /\ PopSound(w.pop) /\ w.pop.vis = FALSE /\ w.open = W.open
    BY <1>3, <1>7, CreateFacts
  <2>2. form \in FormStates /\ form.open /\ form.content = f /\ form.asked = f /\ form.requests = <<>>
    BY <1>4, <1>7 DEF FormStates
  <2>3. Shape
    BY <1>5, <1>7, <2>1, <2>2 DEF Shape
  <2>4. CurrentInv
    BY <1>3, <2>1, <2>2 DEF CurrentInv
  <2>5. RequestInv
    BY <2>2 DEF RequestInv
  <2> QED BY <2>1, <2>3, <2>4, <2>5 DEF IInv
<1> QED BY <1>2, <1>6, <1>7

\* Every step keeps it.
LEMMA NextIInv ==
  IInv /\ [Next]_vars => IInv'
<1>1. SUFFICES ASSUME IInv, [Next]_vars PROVE IInv'
  OBVIOUS
<1>2. CASE ClickCombo
  <2>1. w \in Widgets
    BY <1>1 DEF IInv, Shape
  <2> QED BY <1>1, <1>2, <2>1, ClickComboKeeps DEF ClickCombo
<1>3. ASSUME NEW i \in Items, ClickItem(i) PROVE IInv'
  <2> DEFINE W == [w EXCEPT !.item = i]
  <2>1. W \in Widgets /\ W.pop = w.pop /\ W.cur = w.cur /\ W.timers = w.timers /\ W.open = w.open
    BY <1>1 DEF IInv, Shape, Widgets
  <2>2. OnMenu /\ Click(ShowComboBody(W), "combo") /\ form' = form
    BY <1>3 DEF ClickItem
  <2> HIDE DEF W
  <2> QED BY <1>1, <2>1, <2>2, ClickComboKeeps
<1>4. CASE ClickElsewhere
  BY <1>1, <1>4, ClickElsewhereKeeps
<1>5. CASE ClickValue
  BY <1>1, <1>5, ClickValueKeeps
<1>6. CASE ClickAll
  BY <1>1, <1>6, ClickAllKeeps
<1>7. CASE ClickOk
  BY <1>1, <1>7, ClickOkKeeps
<1>8. CASE ClickCancel
  BY <1>1, <1>8, ClickCancelKeeps
<1>9. ASSUME NEW d \in w.pop.boxes, ClickBox(d) PROVE IInv'
  BY <1>1, <1>9, ClickBoxKeeps
<1>10. ASSUME NEW k \in CategoryNames, ClickRadio(k) PROVE IInv'
  BY <1>1, <1>10, ClickRadioKeeps
<1>11. ASSUME NEW t \in Texts, KeySearch(t) PROVE IInv'
  BY <1>1, <1>11, KeySearchKeeps
<1>12. ASSUME NEW i \in 1..Len(w.timers), SetOpenComponent(i) PROVE IInv'
  BY <1>1, <1>12, SetOpenComponentKeeps
<1>13. ASSUME NEW f \in Forms, HandleThickBoxOpen(f) PROVE IInv'
  BY <1>1, <1>13, ThickBoxOpenKeeps
<1>14. CASE HandleThickBoxClose
  BY <1>1, <1>14, ThickBoxCloseKeeps
<1>15. ASSUME NEW i \in 1..2, NEW ok \in BOOLEAN, SubmitPopupForm(i, ok) PROVE IInv'
  BY <1>1, <1>15, SubmitPopupFormKeeps
<1>16. CASE UNCHANGED vars
  BY <1>1, <1>16 DEF vars, IInv, Shape, CurrentInv, RequestInv, PopSound, Becomes
<1> QED BY <1>1, <1>2, <1>3, <1>4, <1>5, <1>6, <1>7, <1>8, <1>9, <1>10, <1>11, <1>12, <1>13,
           <1>14, <1>15, <1>16 DEF Next

-----------------------------------------------------------------------------
(* The theorems.                                                           *)

\* The boxes are those of the category that is chosen, only boxes that exist are
\* ticked, the popup is disabled exactly while it is visible, and without a
\* search Select All is ticked exactly when everything is, for any devices,
\* stored lists and search texts.
THEOREM PopupIsSound == Spec => []PopupInv
<1>1. IInv => PopupInv
  <2>1. SUFFICES ASSUME IInv PROVE PopupInv
    OBVIOUS
  <2>2. w \in Widgets /\ form \in FormStates /\ site \in {"users", "reports"} /\ PopSound(w.pop)
    BY <2>1 DEF IInv, Shape
  <2>3. \A i \in DOMAIN w.timers : w.timers[i] \in Timers
    BY <2>2 DEF Widgets
  <2>4. TypeOK
    BY <2>2, <2>3 DEF TypeOK, PopSound, Widgets, FormStates, Timers, Components
  <2>5. SelectAllMeansAll
    BY <2>2 DEF SelectAllMeansAll, PopSound
  <2> QED BY <2>4, <2>5 DEF PopupInv
<1> QED BY <1>1, InitIInv, NextIInv, PTL DEF Spec

\* When the timers have fired, what is open is the current component, so that a
\* click elsewhere closes it, whatever the order in which clicks, timers and
\* answers came, unless a click was hasty or an answer late.
THEOREM OpenBecomesCurrent == Spec => []OpenIsCurrent
<1>1. IInv => OpenIsCurrent
  BY Quiet DEF OpenIsCurrent
<1> QED BY <1>1, InitIInv, NextIInv, PTL DEF Spec

\* When every request is answered, the form on display is the one asked for
\* last or an error, unless answers overtook one another, and a closed form is
\* empty unless an answer came late, for any number of requests.
THEOREM FormShownIsAskedFor == Spec => []FormIsAskedFor
<1>1. IInv => FormIsAskedFor
  BY DEF IInv, RequestInv, FormIsAskedFor, Shape
<1> QED BY <1>1, InitIInv, NextIInv, PTL DEF Spec

-----------------------------------------------------------------------------
(* The ticks.                                                              *)

\* What SearchKeepsTicks, RadioRestoresStored and StartsAsStored say of a step.
KeepsTicks ==
  \A t \in Texts : KeySearch(t) =>
    LET P == w.pop Q == w'.pop IN
    /\ P.checked \ Q.checked \subseteq Starts[t] \ Finds[t]
    /\ \A d \in Q.checked \ P.checked :
         \/ Stored[P.of].cat = P.cat /\ {d.id, d.name, All} \cap Stored[P.of].items # {}
         \/ {d.id, d.name, All} \cap Names(P.checked) # {}
Restores ==
  \A k \in CategoryNames : ClickRadio(k) =>
    LET P == w'.pop
        stored == Stored[P.of]
        kept == {d \in Records[k] : stored.cat = k /\ {d.id, All} \cap stored.items # {}}
    IN /\ P.cat = k /\ P.text = NoText
       /\ P.checked = kept \/ Names(Records[k]) \cap stored.items # {}
MadeAsStored ==
  (form'.requests # form.requests /\ form'.content \in Forms /\ n' = n) =>
    LET P == w'.pop
        stored == Stored[P.of]
        kept == {d \in Records[P.cat] : d.id \in stored.items \/ All \in stored.items}
    IN /\ stored.cat \in {P.cat, NoCategory}
       /\ \/ P.checked = kept /\ P.label \in {[all |-> NoCategory, names |-> Names(kept)],
                                            [all |-> P.cat, names |-> Records[P.cat] \ kept]}
          \/ Names(Records[P.cat]) \cap stored.items # {}

\* A search keeps the ticks.
LEMMA SearchTicks ==
  ASSUME IInv
  PROVE  KeepsTicks
<1>0. SUFFICES ASSUME NEW t \in Texts, KeySearch(t)
               PROVE  LET P == w.pop Q == w'.pop IN
                      /\ P.checked \ Q.checked \subseteq Starts[t] \ Finds[t]
                      /\ \A d \in Q.checked \ P.checked :
                           \/ /\ Stored[P.of].cat = P.cat
                              /\ {d.id, d.name, All} \cap Stored[P.of].items # {}
                           \/ {d.id, d.name, All} \cap Names(P.checked) # {}
  BY DEF KeepsTicks
<1> DEFINE P == w.pop
           V == SearchRecord(w, t)
           Q == V.pop
           sel == Selected(P, TRUE)
<1>1. w \in Widgets /\ PopSound(P) /\ w.pop.vis /\ P # NoPopup /\ w' = V
  BY <1>0, NoPopupFacts DEF IInv, Shape, OnPopup, KeySearch
<1>2. /\ Q.text = t
      /\ Q.checked = sel \cap ({d \in sel : t = NoText \/ d \notin Starts[t]}
                                 \cup (Records[P.cat] \cap Finds[t]))
  BY <1>1, SearchFacts
<1>3. P.checked \subseteq Records[P.cat]
  BY <1>1 DEF PopSound
<1>4. P.checked \subseteq sel
  BY <1>3, TickedSelected
<1>5. \A d \in sel : \/ Stored[P.of].cat = P.cat /\ {d.id, d.name, All} \cap Stored[P.of].items # {}
                     \/ {d.id, d.name, All} \cap Names(P.checked) # {}
  BY DEF Selected
<1> HIDE DEF sel, V, P
<1>6. P.checked \ Q.checked \subseteq Starts[t] \ Finds[t]
  BY <1>2, <1>3, <1>4
<1>7. Q.checked \subseteq sel
  BY <1>2
<1> QED BY <1>1, <1>2, <1>5, <1>6, <1>7 DEF P

\* A radio button goes back to what is stored.
LEMMA RadioTicks ==
  ASSUME IInv
  PROVE  Restores
<1>0. SUFFICES ASSUME NEW k \in CategoryNames, ClickRadio(k)
               PROVE  LET P == w'.pop
                          stored == Stored[P.of]
                          kept == {d \in Records[k] : stored.cat = k /\ {d.id, All} \cap stored.items # {}}
                      IN /\ P.cat = k /\ P.text = NoText
                         /\ P.checked = kept \/ Names(Records[k]) \cap stored.items # {}
  BY DEF Restores
<1> DEFINE V == SetRecord(w, k)
           Q == V.pop
           stored == Stored[Q.of]
           kept == {d \in Records[k] : stored.cat = k /\ {d.id, All} \cap stored.items # {}}
<1>1. w \in Widgets /\ PopSound(w.pop) /\ w.pop # NoPopup /\ w' = CloseElements(V, "popup")
  BY <1>0, NoPopupFacts DEF IInv, Shape, OnPopup, ClickRadio, Click
<1>2. w.pop.of \in Forms /\ w.pop.disable = w.pop.vis
  BY <1>1 DEF PopSound
<1>3. /\ V.cur = Nobody /\ Q.of = w.pop.of /\ Q.cat = k /\ Q.text = NoText
      /\ \E P \in Popups : P.of = w.pop.of /\ P.cat = k /\ Q.checked = Selected(P, FALSE)
  BY <1>0, <1>1, <1>2, SetRecordFacts
<1>4. PICK P \in Popups : P.of = Q.of /\ P.cat = k /\ Q.checked = Selected(P, FALSE)
  BY <1>3
<1> HIDE DEF V
<1>5. w' = V
  BY <1>1, <1>3 DEF CloseElements, Nobody
<1>6. CASE stored.cat # k
  <2>1. Selected(P, FALSE) = {}
    BY <1>4, <1>6 DEF Selected
  <2>2. kept = {}
    BY <1>6
  <2> QED BY <1>3, <1>4, <1>5, <2>1, <2>2
<1>7. CASE stored.cat = k /\ All \in stored.items
  <2>1. Selected(P, FALSE) = Records[k]
    BY <1>4, <1>7 DEF Selected
  <2>2. kept = Records[k]
    BY <1>7
  <2> QED BY <1>3, <1>4, <1>5, <2>1, <2>2
<1>8. CASE stored.cat = k /\ All \notin stored.items
  <2>1. Selected(P, FALSE) = {d \in Records[k] : d.name \in stored.items \/ d.id \in stored.items}
    BY <1>4, <1>8 DEF Selected
  <2>2. kept = Selected(P, FALSE) \/ Names(Records[k]) \cap stored.items # {}
    BY <1>8, <2>1 DEF Names
  <2> QED BY <1>3, <1>4, <1>5, <2>2
<1> QED BY <1>6, <1>7, <1>8

\* What is ticked in a popup that is made.
LEMMA SelectedAtStart ==
  ASSUME NEW f \in Forms, NEW P, P.of = f,
         P.cat = IF Stored[f].cat = NoCategory THEN Categories[1] ELSE Stored[f].cat
  PROVE  \/ Selected(P, FALSE) =
              {d \in Records[P.cat] : d.id \in Stored[f].items \/ All \in Stored[f].items}
         \/ Names(Records[P.cat]) \cap Stored[f].items # {}
<1> DEFINE items == Stored[f].items
           rec == Records[P.cat]
           kept == {d \in rec : d.id \in items \/ All \in items}
<1>1. CASE Stored[f].cat = NoCategory
  <2>1. items = {} /\ P.cat # NoCategory
    BY <1>1, PopupAssumption, NoPopupFacts DEF CategoryNames
  <2>2. Selected(P, FALSE) = {}
    BY <1>1, <2>1 DEF Selected
  <2> QED BY <2>1, <2>2
<1>2. CASE Stored[f].cat # NoCategory /\ All \in items
  <2>1. Selected(P, FALSE) = rec
    BY <1>2 DEF Selected
  <2> QED BY <1>2, <2>1
<1>3. CASE Stored[f].cat # NoCategory /\ All \notin items
  <2>1. Selected(P, FALSE) = {d \in rec : d.name \in items \/ d.id \in items}
    BY <1>3 DEF Selected
  <2> QED BY <1>3, <2>1 DEF Names
<1> QED BY <1>1, <1>2, <1>3

\* A popup is made as it is stored.
LEMMA AnswerMakesAsStored ==
  ASSUME IInv, NEW i, SubmitPopupForm(i, TRUE)
  PROVE  MadeAsStored
<1> DEFINE f == form.requests[i]
           V == CreatePopUp(w, f)
           k == IF Stored[f].cat = NoCategory THEN Categories[1] ELSE Stored[f].cat
           items == Stored[f].items
           kept == {d \in Records[k] : d.id \in items \/ All \in items}
<1>1. w \in Widgets /\ form.requests \in Seq(Forms) /\ i \in DOMAIN form.requests /\ w' = V
  BY DEF IInv, Shape, SubmitPopupForm, FormStates
<1>2. f \in Forms
  BY <1>1
<1> HIDE DEF f
<1>3. /\ V.pop.of = f /\ V.pop.cat = k /\ k \in CategoryNames
      /\ \E P \in Popups : /\ P.of = f /\ P.cat = k /\ P.text = NoText
                           /\ V.pop.checked = Selected(P, FALSE)
      /\ V.pop.label = IF Stored[f].cat = NoCategory \/ V.pop.checked = {} THEN NoLabel
                       ELSE IF V.pop.checked = Records[k] THEN [all |-> k, names |-> {}]
                       ELSE [all |-> NoCategory, names |-> Names(V.pop.checked)]
  BY <1>1, <1>2, CreateFacts
<1>4. V.pop.checked = kept \/ Names(Records[k]) \cap items # {}
  BY <1>2, <1>3, SelectedAtStart
<1>5. Stored[f].cat = NoCategory => kept = {}
  BY <1>2, PopupAssumption, NoPopupFacts DEF CategoryNames
<1>6. ASSUME V.pop.checked = kept
      PROVE  V.pop.label \in {[all |-> NoCategory, names |-> Names(kept)],
                              [all |-> k, names |-> Records[k] \ kept]}
  <2> HIDE DEF V
  <2>1. NoLabel = [all |-> NoCategory, names |-> Names({})]
    BY DEF NoLabel, Names
  <2>2. kept = Records[k] => Records[k] \ kept = {}
    OBVIOUS
  <2> HIDE DEF kept, k
  <2>3. CASE kept = {}
    BY <1>3, <1>6, <2>1, <2>3
  <2>4. CASE kept # {} /\ kept = Records[k]
    BY <1>3, <1>5, <1>6, <2>2, <2>4
  <2>5. CASE kept # {} /\ kept # Records[k]
    BY <1>3, <1>5, <1>6, <2>5
  <2> QED BY <2>3, <2>4, <2>5
<1>7. Stored[f].cat \in {k, NoCategory}
  OBVIOUS
<1> HIDE DEF V, k
<1> QED BY <1>1, <1>3, <1>4, <1>6, <1>7 DEF MadeAsStored

\* Every step that makes a popup makes it as it is stored.
LEMMA StepMakesAsStored ==
  ASSUME IInv, n \in Nat, Next
  PROVE  MadeAsStored
<1>1. ASSUME NEW W, NEW at, Click(W, at) PROVE MadeAsStored
  BY <1>1 DEF Click, Event, MadeAsStored
<1>2. ASSUME NEW i \in 1..2, NEW ok \in BOOLEAN, SubmitPopupForm(i, ok) PROVE MadeAsStored
  <2>1. CASE ok = TRUE
    BY <1>2, <2>1, AnswerMakesAsStored
  <2>2. CASE ok = FALSE
    <3>1. form'.content = Error
      BY <1>2, <2>2 DEF SubmitPopupForm, IInv, Shape, FormStates
    <3> QED BY <3>1, NoPopupFacts DEF MadeAsStored
  <2> QED BY <2>1, <2>2
<1>3. ASSUME NEW t \in Texts, KeySearch(t) PROVE MadeAsStored
  BY <1>3 DEF KeySearch, MadeAsStored
<1>4. ASSUME NEW i \in 1..Len(w.timers), SetOpenComponent(i) PROVE MadeAsStored
  BY <1>4 DEF SetOpenComponent, MadeAsStored
<1> QED BY <1>1, <1>2, <1>3, <1>4
        DEF Next, ClickCombo, ClickElsewhere, ClickValue, ClickAll, ClickOk, ClickCancel, ClickItem,
            ClickBox, ClickRadio, HandleThickBoxOpen, HandleThickBoxClose

\* Clicks and keys are counted.
Counted == n \in Nat

\* So it is in every state.
LEMMA EventsCounted ==
  Spec => []Counted
<1>1. Init => Counted
  <2>1. Init => n = 0
    BY Zenon DEF Init
  <2> QED BY <2>1 DEF Counted
<1>2. ASSUME Counted, [Next]_vars PROVE Counted'
  <2>1. SUFFICES n' = n \/ n' = n + 1
    BY <1>2 DEF Counted
  <2>2. ASSUME NEW W, NEW at, Click(W, at) PROVE n' = n + 1
    BY <2>2, Zenon DEF Click, Event
  <2>3. CASE Next
    <3>1. CASE \/ ClickCombo \/ ClickElsewhere \/ ClickValue \/ ClickAll \/ ClickOk \/ ClickCancel
               \/ HandleThickBoxClose
      BY <2>2, <3>1, Zenon
      DEF ClickCombo, ClickElsewhere, ClickValue, ClickAll, ClickOk, ClickCancel, HandleThickBoxClose
    <3>2. CASE \/ \E i \in Items : ClickItem(i)
               \/ \E d \in w.pop.boxes : ClickBox(d)
               \/ \E k \in CategoryNames : ClickRadio(k)
               \/ \E f \in Forms : HandleThickBoxOpen(f)
      BY <2>2, <3>2, Zenon DEF ClickItem, ClickBox, ClickRadio, HandleThickBoxOpen
    <3>3. CASE \/ \E t \in Texts : KeySearch(t)
               \/ \E i \in 1..Len(w.timers) : SetOpenComponent(i)
               \/ \E i \in 1..2, ok \in BOOLEAN : SubmitPopupForm(i, ok)
      BY <3>3, Zenon DEF KeySearch, Event, SetOpenComponent, SubmitPopupForm
    <3> QED BY <2>3, <3>1, <3>2, <3>3 DEF Next
  <2>4. CASE UNCHANGED vars
    BY <2>4 DEF vars
  <2> QED BY <1>2, <2>3, <2>4
<1> QED BY <1>1, <1>2, PTL DEF Spec

\* A key in the search box takes no tick away and gives none, except in the cases
\* that the property names; a radio button goes back to what is stored for its
\* category, and a form that is fetched starts with the category and the devices
\* stored for it, for any devices, texts and stored lists.
THEOREM TicksAreKept == Spec => TicksKept
<1>1. ASSUME IInv, [Next]_vars PROVE [KeepsTicks]_vars /\ [Restores]_vars
  BY <1>1, SearchTicks, RadioTicks
<1>2. ASSUME IInv, Counted, [Next]_vars PROVE [MadeAsStored]_vars
  <2>1. CASE Next
    BY <1>2, <2>1, StepMakesAsStored DEF Counted
  <2> QED BY <1>2, <2>1
<1>3. Spec => SearchKeepsTicks
  BY <1>1, InitIInv, NextIInv, PTL DEF Spec, SearchKeepsTicks, KeepsTicks
<1>4. Spec => RadioRestoresStored
  BY <1>1, InitIInv, NextIInv, PTL DEF Spec, RadioRestoresStored, Restores
<1>5. Spec => StartsAsStored
  BY <1>2, InitIInv, NextIInv, EventsCounted, PTL DEF Spec, StartsAsStored, MadeAsStored
<1> QED BY <1>3, <1>4, <1>5 DEF TicksKept
=============================================================================
