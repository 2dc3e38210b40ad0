----------------------------- MODULE PageWidgets ----------------------------
(***************************************************************************)
(* The widgets that pages share (javascript/popup.js, combo.js and         *)
(* popupform.js): the list of devices to tick, which a page has from the   *)
(* start (Date.jsp) or in a form that is fetched (manageuser.jsp), and the *)
(* combo box of the menu.  They share currentEle, the component that a     *)
(* click elsewhere closes; it is set from timers, 1, 5 or 10 ms later.     *)
(* A click runs the handler of its element and then, at the document,      *)
(* closeElements.                                                          *)
(***************************************************************************)
EXTENDS Naturals, FiniteSets, Sequences, SequencesExt

CONSTANTS
  Categories,  \* the radio buttons of the popup, as a sequence
  Records,     \* getRecord: for each of them, the devices, with name and id
  Texts,       \* what the user types into the search box
  Starts,      \* for each text: the devices "name|id" that start with it
  Finds,       \* for each text: those with a part between dashes that does
  Forms,       \* the forms that can be opened
  Stored,      \* for each form: the category and the items stored for it
  Items,       \* the items of the combo box
  MaxEvents,   \* bound on the number of clicks and keys
  MaxTimers    \* bound on the timers pending when the user acts

All == "-1"     \* the stored item that stands for all
NoText == ""
NoCategory == "none"
Empty == "empty"
Error == "error"

ASSUME PopupAssumption ==
  /\ 1 \in DOMAIN Categories /\ NoCategory \notin Range(Categories)
  /\ NoText \in Texts /\ Starts[NoText] = Finds[NoText]
  /\ \A k \in Range(Categories) : IsFiniteSet(Records[k]) /\ Records[k] \subseteq Finds[NoText]
  /\ Forms \cap {Empty, Error} = {}
  /\ \A f \in Forms :
       \/ Stored[f].cat \in Range(Categories)
       \/ Stored[f].cat = NoCategory /\ Stored[f].items = {}

VARIABLES
  site,      \* the page: "users" (manageuser.jsp) or "reports" (Date.jsp)
  w,         \* currentEle, the pending timers, the combo box and the popup
  form,      \* the popup form: its box, its content and outstanding requests
  n,         \* number of clicks and keys
  hasty,     \* a click came before a timer of the previous one
  late,      \* an answer came to a form that was closed
  overtaken  \* an answer came before that of an earlier request

vars == <<site, w, form, n, hasty, late, overtaken>>

Nobody == "nobody"      \* currentEle is empty
NoLabel == [all |-> NoCategory, names |-> {}]
NoPopup == [of |-> Empty, cat |-> NoCategory, text |-> NoText, boxes |-> {}, checked |-> {},
            all |-> FALSE, label |-> NoLabel, vis |-> FALSE, disable |-> FALSE]

Names(S) == {d.name : d \in S}
CategoryNames == Range(Categories)

-----------------------------------------------------------------------------
\* A timer that will call setOpenComponent.
Later(W, ms, e) == [W EXCEPT !.timers = Append(@, [ms |-> ms, ele |-> e])]

ReallyHideMe(W) == [W EXCEPT !.pop.vis = FALSE, !.pop.disable = FALSE, !.cur = Nobody]

RealyHideCombo(W) == Later([W EXCEPT !.open = FALSE], 1, Nobody)

\* hideMe and hideCombo do nothing for a click within the component.  For a
\* popup that is no longer in the document hideMe throws.
HideMe(W, at) == IF W.pop = NoPopup \/ at = "popup" THEN W ELSE ReallyHideMe(W)
HideCombo(W, at) == IF at = "combo" THEN W ELSE RealyHideCombo(W)

CloseElements(W, at) ==
  CASE W.cur = "popup" -> HideMe(W, at)
    [] W.cur = "combo" -> HideCombo(W, at)
    [] OTHER -> W

-----------------------------------------------------------------------------
\* Faulty variant: boxes ticked before are not kept.
GenerateCheckBoxForgets(P, found, searching) ==
  LET stored == Stored[P.of]
      sel == IF stored.cat # P.cat THEN {}
             ELSE {d \in Records[P.cat] : {d.name, d.id, All} \cap stored.items # {}}
      boxes == {d \in sel : P.text = NoText \/ d \notin Starts[P.text]} \cup found
  IN [P EXCEPT !.boxes = boxes, !.checked = boxes \cap sel, !.all = boxes # {} /\ boxes = sel]

\* generateCheckBox: the boxes of the devices found, after those ticked before
\* and those stored for the category.  A device is recognised by its name or by
\* its id.  A ticked device whose name starts with the search text is left to
\* the ones found.
GenerateCheckBox(P, found, searching) ==
  LET rec == Records[P.cat]
      stored == Stored[P.of]
      own == stored.cat = P.cat
      Recognised(S) == {d \in rec : d.name \in S \/ d.id \in S}
      ticked == IF searching THEN Names(P.checked)
                ELSE IF own /\ All \in stored.items THEN stored.items ELSE {}
      sel == (IF All \in ticked THEN rec ELSE Recognised(ticked))
               \cup (IF own THEN Recognised(stored.items) ELSE {})
      boxes == {d \in sel : P.text = NoText \/ d \notin Starts[P.text]} \cup found
      before == IF searching THEN Cardinality(P.checked) ELSE 0
  IN [P EXCEPT !.boxes = boxes, !.checked = boxes \cap sel,
               !.all = /\ boxes # {}
                       /\ before = Cardinality(found) \/ Cardinality(boxes) = Cardinality(sel)]

\* The end of generateCheckBox: the popup becomes the current element.
Generated(W, found, searching) ==
  Later([W EXCEPT !.pop = GenerateCheckBox(@, found, searching), !.cur = Nobody], 10, "popup")

\* setRecord after a click on a radio button: no search, no label, new boxes.
SetRecord(W, k) ==
  Generated([W EXCEPT !.pop.cat = k, !.pop.text = NoText, !.pop.label = NoLabel], Records[k], FALSE)

\* popupOk shows what is ticked and hides the popup, if anything is ticked.
PopupOk(W) ==
  IF W.pop.checked = {} THEN W
  ELSE ReallyHideMe([W EXCEPT !.pop.label =
         IF W.pop.all THEN [all |-> W.pop.cat, names |-> {}]
         ELSE [all |-> NoCategory, names |-> Names(W.pop.checked)]])

\* createPopUp for form f.  Its own timer of 1 ms is set last; which of the two
\* is due first depends on the alert of popupOk.
CreatePopUp(W, f) ==
  LET P == [NoPopup EXCEPT !.of = f]
      k == IF Stored[f].cat = NoCategory THEN Categories[1] ELSE Stored[f].cat
      V == SetRecord([W EXCEPT !.pop = P], k)
  IN Later(IF Stored[f].cat = NoCategory THEN V ELSE PopupOk(V), 1, Nobody)

\* cancelMe: the label is that of the stored items, the boxes stay as they are.
CancelMe(W) ==
  LET stored == Stored[W.pop.of]
      rec == Records[stored.cat]
      label == IF stored.items = {} THEN NoLabel
               ELSE IF Cardinality(stored.items) = Cardinality(rec) THEN [all |-> stored.cat, names |-> {}]
               ELSE [all |-> NoCategory, names |-> Names({d \in rec : {d.name, d.id} \cap stored.items # {}})]
  IN ReallyHideMe([W EXCEPT !.pop.label = label])

ShowMe(W) ==
  IF W.pop.disable THEN W
  ELSE Later([W EXCEPT !.pop.vis = TRUE, !.pop.disable = TRUE, !.cur = Nobody], 10, "popup")

\* Faulty variant: a tick does not take back Select All.
SelectCheckPopOnce(P, d) ==
  LET c == (P.checked \ {d}) \cup ({d} \ P.checked)
  IN [P EXCEPT !.checked = c, !.all = @ \/ Cardinality(c) = Cardinality(Records[P.cat])]

\* selectCheckPop after a click on the box of d, and selectAllCheckPop.
SelectCheckPop(P, d) ==
  LET c == (P.checked \ {d}) \cup ({d} \ P.checked)
  IN [P EXCEPT !.checked = c, !.all = Cardinality(c) = Cardinality(Records[P.cat])]
SelectAllCheckPop(P) == [P EXCEPT !.all = ~@, !.checked = IF P.all THEN {} ELSE P.boxes]

SearchRecord(W, t) ==
  Generated([W EXCEPT !.pop.text = t], Records[W.pop.cat] \cap Finds[t], TRUE)

\* Faulty variant: opening the combo box does not make it the current element.
ShowComboBodyOnly(W) == IF W.open THEN [W EXCEPT !.open = FALSE, !.cur = Nobody] ELSE [W EXCEPT !.open = TRUE]

ShowComboBody(W) ==
  IF W.open THEN [W EXCEPT !.open = FALSE, !.cur = Nobody]
  ELSE Later([W EXCEPT !.open = TRUE], 5, "combo")

-----------------------------------------------------------------------------
Init ==
  /\ n = 0 /\ hasty = FALSE /\ late = FALSE /\ overtaken = FALSE
  /\ \E i \in Items :
       LET W == [cur |-> Nobody, timers |-> <<>>, open |-> FALSE, item |-> i, pop |-> NoPopup]
           closed == [open |-> FALSE, content |-> Empty, asked |-> Empty, requests |-> <<>>]
       IN \/ site = "users" /\ w = W /\ form = closed
          \/ /\ site = "reports"
             /\ \E f \in Forms :
                  /\ w = CreatePopUp(W, f)
                  /\ form = [closed EXCEPT !.open = TRUE, !.content = f, !.asked = f]

Event == n < MaxEvents /\ n' = n + 1 /\ Len(w.timers) <= MaxTimers

\* A click at some place, whose own handlers make W of w.
Click(W, at) ==
  /\ Event
  /\ w' = CloseElements(W, at)
  /\ hasty' = (hasty \/ w.timers # <<>>)
  /\ UNCHANGED <<site, late, overtaken>>

\* The overlay keeps the mouse off the menu while the form is open.
OnMenu == site = "users" /\ ~form.open
OnPopup == form.open /\ w.pop.vis

ClickCombo == OnMenu /\ Click(ShowComboBody(w), "combo") /\ UNCHANGED form
\* selectComboItem, and then the click reaches the box around the item.
ClickItem(i) ==
  OnMenu /\ w.open /\ Click(ShowComboBody([w EXCEPT !.item = i]), "combo") /\ UNCHANGED form
ClickElsewhere == Click(w, "page") /\ UNCHANGED form
ClickValue == form.open /\ w.pop # NoPopup /\ Click(ShowMe(w), "page") /\ UNCHANGED form
ClickBox(d) ==
  OnPopup /\ d \in w.pop.boxes /\ Click([w EXCEPT !.pop = SelectCheckPop(@, d)], "popup") /\ UNCHANGED form
ClickAll ==
  OnPopup /\ w.pop.boxes # {} /\ Click([w EXCEPT !.pop = SelectAllCheckPop(@)], "popup") /\ UNCHANGED form
\* There are radio buttons if there is a choice; the one that is checked runs
\* setRecord like the others.
ClickRadio(k) == OnPopup /\ Len(Categories) # 1 /\ Click(SetRecord(w, k), "popup") /\ UNCHANGED form
\* On the reports page the button loads another page.
ClickOk == OnPopup /\ site = "users" /\ Click(PopupOk(w), "popup") /\ UNCHANGED form
ClickCancel == OnPopup /\ Click(CancelMe(w), "popup") /\ UNCHANGED form

\* A key in the search box leaves text t there: another one, or the same after
\* a key that types nothing.
KeySearch(t) ==
  /\ OnPopup
  /\ Event
  /\ w' = SearchRecord(w, t)
  /\ UNCHANGED <<site, form, hasty, late, overtaken>>

\* setOpenComponent from a timer.  One that was set later fires earlier only if
\* its delay is shorter.
SetOpenComponent(i) ==
  /\ i \in DOMAIN w.timers
  /\ \A j \in 1..(i - 1) : w.timers[j].ms > w.timers[i].ms
  /\ w' = [w EXCEPT !.cur = w.timers[i].ele, !.timers = RemoveAt(@, i)]
  /\ UNCHANGED <<site, form, n, hasty, late, overtaken>>

-----------------------------------------------------------------------------
\* openAddUser, handleThickBox(1) and submitPopupForm: the form is on display,
\* still empty, and fetched.  The key that pressed the button can press it
\* again under the overlay.
HandleThickBoxOpen(f) ==
  /\ site = "users" /\ Len(form.requests) < 2
  /\ Click(w, "page")
  /\ form' = [form EXCEPT !.open = TRUE, !.asked = f, !.requests = Append(@, f)]

\* Faulty variant: the content stays.
HandleThickBoxCloseKeeps ==
  /\ site = "users" /\ form.open /\ form.content \in Forms
  /\ Click(w, "page")
  /\ form' = [form EXCEPT !.open = FALSE]

\* handleThickBox(2), from a button of the form: the popup goes with it.
HandleThickBoxClose ==
  /\ site = "users" /\ form.open /\ form.content \in Forms
  /\ Click([w EXCEPT !.pop = NoPopup], "page")
  /\ form' = [form EXCEPT !.open = FALSE, !.content = Empty]

\* onreadystatechange of submitPopupForm: the content of the form is replaced,
\* whichever request is answered.
SubmitPopupForm(i, ok) ==
  /\ i \in DOMAIN form.requests
  /\ form' = [form EXCEPT !.content = IF ok THEN form.requests[i] ELSE Error, !.requests = RemoveAt(@, i)]
  /\ w' = IF ok THEN CreatePopUp(w, form.requests[i]) ELSE [w EXCEPT !.pop = NoPopup]
  /\ late' = (late \/ ~form.open)
  /\ overtaken' = (overtaken \/ i # 1)
  /\ UNCHANGED <<site, n, hasty>>

Next ==
  \/ ClickCombo \/ ClickElsewhere \/ ClickValue \/ ClickAll \/ ClickOk \/ ClickCancel
  \/ \E i \in Items : ClickItem(i)
  \/ \E d \in w.pop.boxes : ClickBox(d)
  \/ \E k \in CategoryNames : ClickRadio(k)
  \/ \E t \in Texts : KeySearch(t)
  \/ \E i \in 1..Len(w.timers) : SetOpenComponent(i)
  \/ \E f \in Forms : HandleThickBoxOpen(f)
  \/ HandleThickBoxClose
  \/ \E i \in 1..2, ok \in BOOLEAN : SubmitPopupForm(i, ok)

Spec == Init /\ [][Next]_vars

-----------------------------------------------------------------------------
\* Only boxes that exist are ticked, they are of the category chosen, and the
\* popup is marked as open exactly while it is visible.
TypeOK ==
  /\ site \in {"users", "reports"}
  /\ w.cur \in {Nobody, "popup", "combo"}
  /\ \A i \in DOMAIN w.timers : w.timers[i].ele \in {Nobody, "popup", "combo"}
  /\ w.item \in Items
  /\ form.content \in Forms \cup {Empty, Error}
  /\ w.pop # NoPopup =>
       /\ w.pop.cat \in CategoryNames
       /\ w.pop.checked \subseteq w.pop.boxes /\ w.pop.boxes \subseteq Records[w.pop.cat]
  /\ w.pop.disable = w.pop.vis

\* When the timers have fired, a click elsewhere closes what is open: it is the
\* current element, unless the user clicked before they fired or the answer to
\* a form that was closed took its place.
OpenIsCurrent ==
  (w.timers = <<>> /\ ~hasty) => /\ w.pop.vis => w.cur = "popup"
                                 /\ w.open => w.cur = "combo" \/ late

\* Without a search text, Select All is ticked exactly when every device of the
\* category is ticked, whatever was searched for and ticked before.
SelectAllMeansAll ==
  (w.pop # NoPopup /\ w.pop.text = NoText /\ Records[w.pop.cat] # {}) =>
    (w.pop.all <=> w.pop.checked = Records[w.pop.cat])

\* A key in the search box takes a tick away only from a device whose name
\* starts with a text that is not found because it has a dash, and it ticks only
\* what is stored for the category, a device whose name or id is the name of one
\* that is ticked, or all if one that is ticked has the name -1.
SearchKeepsTicks ==
  [][\A t \in Texts : KeySearch(t) =>
       LET P == w.pop Q == w'.pop IN
       /\ P.checked \ Q.checked \subseteq Starts[t] \ Finds[t]
       /\ \A d \in Q.checked \ P.checked :
            \/ Stored[P.of].cat = P.cat /\ {d.id, d.name, All} \cap Stored[P.of].items # {}
            \/ {d.id, d.name, All} \cap Names(P.checked) # {}]_vars

\* A radio button, also the one that is checked, ends the search and goes back to
\* what is stored for its category, whatever was ticked meanwhile, unless the
\* name of a device is also a stored id.
RadioRestoresStored ==
  [][\A k \in CategoryNames : ClickRadio(k) =>
       LET P == w'.pop
           stored == Stored[P.of]
           kept == {d \in Records[k] : stored.cat = k /\ {d.id, All} \cap stored.items # {}}
       IN /\ P.cat = k /\ P.text = NoText
          /\ P.checked = kept \/ Names(Records[k]) \cap stored.items # {}]_vars

\* A fetched form starts with the category and the devices that are stored for
\* it, and shows them, unless the name of a device is also a stored id.
StartsAsStored ==
  [][(form'.requests # form.requests /\ form'.content \in Forms /\ n' = n) =>
       LET P == w'.pop
           stored == Stored[P.of]
           kept == {d \in Records[P.cat] : d.id \in stored.items \/ All \in stored.items}
       IN /\ stored.cat \in {P.cat, NoCategory}
          /\ \/ P.checked = kept /\ P.label \in {[all |-> NoCategory, names |-> Names(kept)],
                                               [all |-> P.cat, names |-> Records[P.cat] \ kept]}
             \/ Names(Records[P.cat]) \cap stored.items # {}]_vars

\* When every request is answered, the form on display is the one that was
\* asked for last, or an error, unless answers came in another order; a form
\* that is closed is empty unless an answer came after that.
FormIsAskedFor ==
  /\ (form.open /\ form.requests = <<>>) => form.content \in {form.asked, Error} \/ overtaken
  /\ ~form.open => form.content = Empty \/ late

\* What holds of the popup at every step: the boxes are those of its category,
\* and Select All is ticked when all of them are.
PopupInv == TypeOK /\ SelectAllMeansAll

\* Ticks are those stored when the popup is made or a radio button is clicked,
\* and searches keep them, except in the cases named.
TicksKept == SearchKeepsTicks /\ RadioRestoresStored /\ StartsAsStored
=============================================================================
