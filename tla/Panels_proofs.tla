---------------------------- MODULE Panels_proofs -----------------------------
(***************************************************************************)
(* Theorems about the control panel and the environment manager.           *)
(***************************************************************************)
EXTENDS MCPanels, Bounds_proofs, TLAPS

-----------------------------------------------------------------------------
(* The least and the greatest element of a set of numbers.                 *)

\* A set of natural numbers has a least element.
LEMMA MinIn == ASSUME NEW S \in SUBSET Nat, S # {}
               PROVE  Min(S) \in S /\ \A x \in S : Min(S) <= x
<1>1. \E x \in S : \A y \in S : x <= y
  BY LeastIn
<1> QED BY <1>1 DEF Min

\* A bounded one has a greatest.
LEMMA MaxIn == ASSUME NEW n \in Nat, NEW S \in SUBSET (0 .. n), S # {}
               PROVE  Max(S) \in S /\ \A x \in S : Max(S) >= x
<1>1. \E x \in S : \A y \in S : x >= y
  BY GreatestIn
<1> QED BY <1>1 DEF Max

-----------------------------------------------------------------------------
(* The pages and the lines of the board.                                   *)

\* A session whose fields have their types and whose selection is on its page.
Typed(t) == t \in Session /\ t.selected \in DOMAIN Page(t)
TypedDevice ==
  device \in [Ids -> [number : Number, revision : Nat, ready : BOOLEAN]]

LEMMA Halves == \A j \in Nat : /\ (2 * j) \div 2 = j /\ (2 * j + 1) \div 2 = j
                               /\ (2 * j) % 2 = 0 /\ (2 * j + 1) % 2 = 1
OBVIOUS

LEMMA Numbers == 0 \in Number /\ 1 \in Number /\ 2 \in Number /\ Number \subseteq Nat
BY PanelAssumption DEF Number

\* A page is a sequence of at most 128 rows.
LEMMA PageShape == ASSUME NEW p \in DOMAIN Pages
                   PROVE  /\ DOMAIN Pages[p] = 1 .. Len(Pages[p]) /\ Len(Pages[p]) \in 1 .. 128
                          /\ 1 \in DOMAIN Pages[p]
                          /\ \A i \in DOMAIN Pages[p] : /\ i \in 1 .. 128 /\ i <= Len(Pages[p])
                                                       /\ Pages[p][i] \in Rows /\ <<p, i>> \in Ids
<1>1. Pages[p] \in Seq(Rows) /\ Len(Pages[p]) \in 1 .. 128
  <2>1. Pages \in Seq(Seq(Rows)) /\ Len(Pages[p]) \in 1 .. 128
    BY PanelAssumption
  <2>2. ASSUME NEW S, S = Seq(Rows) PROVE Pages[p] \in S
    BY <2>1, <2>2
  <2> QED BY <2>1, <2>2
<1>2. /\ DOMAIN Pages[p] = 1 .. Len(Pages[p]) /\ 1 \in DOMAIN Pages[p]
      /\ \A i \in DOMAIN Pages[p] : i \in 1 .. Len(Pages[p]) /\ Pages[p][i] \in Rows
  BY <1>1
<1>3. \A n \in 1 .. 128 : \A i \in 1 .. n : i \in 1 .. 128 /\ i <= n
  OBVIOUS
<1>4. \A i \in DOMAIN Pages[p] : i \in 1 .. 128 /\ i <= Len(Pages[p])
  BY <1>1, <1>2, <1>3, Zenon
<1> QED BY <1>1, <1>2, <1>4 DEF Ids

LEMMA RowShape == ASSUME NEW c \in Ids PROVE Row(c) \in Rows
BY PageShape DEF Ids, Row

\* The row that begins a section is on the page, and not below the row.
LEMMA SectionIsThere ==
  ASSUME NEW t, Typed(t), NEW i \in DOMAIN Page(t)
  PROVE  Section(t, i) \in 1 .. i /\ Section(t, i) \in DOMAIN Page(t)
<1> DEFINE S == {j \in 1 .. i : Begins(t, j)}
<1>1. t.tab \in DOMAIN Pages
  BY DEF Typed, Session
<1>2. i \in 1 .. Len(Page(t)) /\ Len(Page(t)) \in 1 .. 128 /\ DOMAIN Page(t) = 1 .. Len(Page(t))
  BY <1>1, PageShape DEF Page
<1>3. S \in SUBSET (0 .. i) /\ i \in Nat /\ 1 \in S
  BY <1>2 DEF Begins
<1>4. Max(S) \in S
  <2> HIDE DEF S
  <2> QED BY <1>3, MaxIn
<1> QED BY <1>2, <1>4 DEF Section

\* Every line of the board is a row of the page or its heading, and there is a line.
LEMMA LinesAreRows ==
  ASSUME NEW t, Typed(t)
  PROVE  /\ Items(t) # {} /\ Items(t) \in SUBSET (0 .. 257)
         /\ \A i \in Items(t) : /\ i \div 2 \in DOMAIN Page(t)
                                /\ i % 2 # 0 => ~Folded(t, i \div 2)
<1>1. t.tab \in DOMAIN Pages
  BY DEF Typed, Session
<1>2. 1 \in DOMAIN Page(t) /\ \A j \in DOMAIN Page(t) : j \in 1 .. 128
  BY <1>1, PageShape DEF Page
<1>3. ASSUME NEW i \in Items(t)
      PROVE  i \in 0 .. 257 /\ i \div 2 \in DOMAIN Page(t) /\ (i % 2 # 0 => ~Folded(t, i \div 2))
  <2>1. CASE \E j \in DOMAIN Page(t) : i = 2 * j
    <3>1. PICK j \in DOMAIN Page(t) : i = 2 * j
      BY <2>1
    <3>2. j \in 1 .. 128
      BY <1>2, <3>1
    <3>3. i \div 2 = j /\ i % 2 = 0
      BY <3>1, <3>2, Halves
    <3> QED BY <3>1, <3>2, <3>3
  <2>2. CASE \E j \in DOMAIN Page(t) : i = 2 * j + 1 /\ ~Folded(t, j)
    <3>1. PICK j \in DOMAIN Page(t) : i = 2 * j + 1 /\ ~Folded(t, j)
      BY <2>2
    <3>2. j \in 1 .. 128
      BY <1>2, <3>1
    <3>3. i \div 2 = j
      BY <3>1, <3>2, Halves
    <3> QED BY <3>1, <3>2, <3>3
  <2> QED BY <2>1, <2>2 DEF Items
<1>4. Items(t) # {}
  <2>1. CASE Page(t)[1].group # ""
    <3>1. 1 \in {j \in DOMAIN Page(t) : Begins(t, j) /\ Page(t)[j].group # ""}
      BY <1>2, <2>1 DEF Begins
    <3>2. 2 * 1 \in {2 * i : i \in {j \in DOMAIN Page(t) : Begins(t, j) /\ Page(t)[j].group # ""}}
      BY <3>1, Zenon
    <3> QED BY <3>2 DEF Items
  <2>2. CASE Page(t)[1].group = ""
    <3>1. 1 \in {j \in DOMAIN Page(t) : ~Folded(t, j)}
      BY <1>2, <2>2 DEF Folded
    <3>2. 2 * 1 + 1 \in {2 * i + 1 : i \in {j \in DOMAIN Page(t) : ~Folded(t, j)}}
      BY <3>1, Zenon
    <3> QED BY <3>2 DEF Items
  <2> QED BY <2>1, <2>2
<1> QED BY <1>3, <1>4
-----------------------------------------------------------------------------
(* The type invariant of the control panel.  A handler that finds no       *)
(* request leaves none that is past its check.                             *)

\* The state a handler may leave.
Left(t) == Typed(t) /\ t.req.stage # "write"

LEMMA SelectTyped ==
  ASSUME NEW t, Typed(t), NEW i \in Nat, i \div 2 \in DOMAIN Page(t)
  PROVE  /\ Typed(SelectItem(t, i)) /\ Page(SelectItem(t, i)) = Page(t)
         /\ SelectItem(t, i).req = t.req /\ SelectItem(t, i).selected = i \div 2
<1>1. i \div 2 \in 1 .. 128
  BY PageShape DEF Typed, Session, Page
<1> QED BY <1>1 DEF Typed, Session, Page, SelectItem

LEMMA HeadingTyped ==
  ASSUME NEW t, Typed(t), NEW i \in DOMAIN Page(t)
  PROVE  /\ 2 * Section(t, i) \in Nat
         /\ (2 * Section(t, i)) \div 2 = Section(t, i) /\ (2 * Section(t, i)) % 2 = 0
         /\ Section(t, i) \in DOMAIN Page(t)
<1>1. i \in 1 .. 128
  BY PageShape DEF Typed, Session, Page
<1>2. Section(t, i) \in 1 .. i /\ Section(t, i) \in DOMAIN Page(t)
  BY SectionIsThere
<1>3. Section(t, i) \in Nat
  BY <1>1, <1>2
<1> QED BY <1>2, <1>3, Halves

LEMMA UnhiddenTyped ==
  ASSUME NEW t, Typed(t)
  PROVE  /\ Typed(Unhidden(t)) /\ Page(Unhidden(t)) = Page(t) /\ Unhidden(t).req = t.req
         /\ Unhidden(t) = t \/ Unhidden(t).header
<1>1. CASE Hidden(t)
  <2> DEFINE k == Section(t, t.selected)
  <2>1. 2 * k \in Nat /\ (2 * k) \div 2 \in DOMAIN Page(t) /\ (2 * k) % 2 = 0
    BY HeadingTyped DEF Typed
  <2>2. Unhidden(t) = SelectItem(t, 2 * k)
    BY <1>1 DEF Unhidden
  <2>3. SelectItem(t, 2 * k).header
    BY <2>1 DEF SelectItem, Typed, Session
  <2> HIDE DEF k
  <2> QED BY <2>1, <2>2, <2>3, SelectTyped
<1>2. CASE ~Hidden(t)
  BY <1>2 DEF Unhidden
<1> QED BY <1>1, <1>2

LEMMA ToPageTyped ==
  ASSUME NEW t, Typed(t), NEW p \in DOMAIN Pages
  PROVE  Typed(ToPage(t, p)) /\ ToPage(t, p).req = t.req /\ ToPage(t, p).editing = t.editing
BY PageShape DEF Typed, Session, Page, ToPage

LEMMA EndEditTyped ==
  ASSUME NEW t, Typed(t)
  PROVE  Typed(EndEdit(t)) /\ EndEdit(t).req = t.req /\ ~EndEdit(t).editing
<1>1. 0 \in Number /\ 0 \in Nat
  BY Numbers, PanelAssumption
<1>2. EndEdit(t) \in Session
  BY <1>1 DEF Typed, Session, EndEdit
<1> QED BY <1>2 DEF Typed, Session, Page, EndEdit

LEMMA CloseTyped ==
  ASSUME NEW t, Typed(t)
  PROVE  /\ Typed(TableClose(t)) /\ TableClose(t).req = t.req
         /\ ~TableClose(t).editing /\ ~TableClose(t).open
<1> DEFINE u == ToPage(EndEdit(t), 1)
<1>1. 1 \in DOMAIN Pages
  BY PanelAssumption
<1>2. Typed(u) /\ u.req = t.req /\ ~u.editing
  BY <1>1, EndEditTyped, ToPageTyped
<1>3. TableClose(t) = [u EXCEPT !.open = FALSE]
  BY DEF TableClose
<1> HIDE DEF u
<1> QED BY <1>2, <1>3 DEF Typed, Session, Page

\* A draft is of the control that is selected.
LEMMA SelectedIsRow ==
  ASSUME NEW t, Typed(t), ~t.header PROVE Selected(t) \in Ids
BY PageShape DEF Typed, Session, Page, Selected

LEMMA BeginTyped ==
  ASSUME TypedDevice, NEW t, Left(t), NEW c \in Ids, NEW dialog \in BOOLEAN
  PROVE  Left(Begin(t, c, dialog))
<1>1. device[c].number \in Number /\ device[c].revision \in Nat
  BY DEF TypedDevice
<1>2. ASSUME NEW n \in Number, NEW k \in Nat, NEW on \in BOOLEAN, NEW f \in Number
      PROVE  Left([t EXCEPT !.editing = TRUE, !.draft = n, !.revision = k, !.dialog = on,
                            !.focus = f, !.home = c, !.seen = n])
  BY <1>2 DEF Left, Typed, Session, Page
<1>3. CASE Writable(c)
  BY <1>1, <1>2, <1>3, Numbers DEF Begin
<1> QED BY <1>3 DEF Begin

LEMMA AskTyped ==
  ASSUME TypedDevice, NEW c \in Ids, NEW n \in Number
  PROVE  Ask(c, n) \in Request /\ Ask(c, n).stage = "check"
<1>1. device[c].number \in Number /\ device[c].revision \in Nat
  BY DEF TypedDevice
<1> QED BY <1>1 DEF Ask, Request

LEMMA AskDraftTyped ==
  ASSUME NEW t, Typed(t), NEW c \in Ids, NEW n \in Number
  PROVE  AskDraft(t, c, n) \in Request /\ AskDraft(t, c, n).stage = "check"
BY DEF AskDraft, Expected, Request, Typed, Session

LEMMA RequestTyped ==
  ASSUME NEW t, Typed(t), NEW q \in Request, q.stage # "write"
  PROVE  Left([t EXCEPT !.req = q])
BY DEF Left, Typed, Session, Page

\* A device that holds a number of the control's range makes of it, by any key, a
\* number of unsigned width, though a step down may wrap.
LEMMA AdjustedTyped ==
  ASSUME NEW c \in Ids, Row(c).kind # "action", NEW n \in Number, InRange(c, n), NEW key
  PROVE  Adjusted(n, Row(c), key) \in Number
<1> DEFINE r == Row(c)
<1>1. r \in Rows /\ Width \in Nat /\ Width > 2
  BY RowShape, PanelAssumption
<1>2. /\ r.minimum \in Number /\ r.maximum \in Number /\ r.step \in Number
      /\ n \in Nat /\ r.minimum <= n /\ n <= r.maximum
  BY <1>1 DEF InRange, Rows, Number
<1>3. r.kind = "toggle" => r.minimum = 0 /\ r.maximum = 1
  BY PanelAssumption
<1> HIDE DEF r
<1>5. \A a, b, x \in 0 .. Width - 1 : /\ (a - x) % Width \in 0 .. Width - 1
                                   /\ (a + b) % (b + 1) \in 0 .. b
                                   /\ (a + 1) % (b + 1) \in 0 .. b
  BY <1>1
<1>6. Lowered(n, r) \in Number
  BY <1>2, <1>5 DEF Lowered, Number
<1>7. Raised(n, r) \in Number
  BY <1>1, <1>2 DEF Raised, Number
<1>8. (n + r.maximum) % (r.maximum + 1) \in Number /\ (n + 1) % (r.maximum + 1) \in Number
  BY <1>1, <1>2, <1>5 DEF Number
<1>9. r.kind = "toggle" => 1 - n \in Number
  BY <1>1, <1>2, <1>3 DEF Number
<1>10. Adjusted(n, r, key) \in Number
  BY <1>2, <1>6, <1>7, <1>8, <1>9, Numbers, Zenon DEF Adjusted
<1> QED BY <1>10 DEF r

LEMMA AdjustTyped ==
  ASSUME TypedDevice, NEW t, Left(t), NEW c \in Ids, NEW n, Writable(c) => n \in Number
  PROVE  Left(Adjust(t, c, n))
<1>1. CASE Writable(c)
  <2>1. Ask(c, n) \in Request /\ Ask(c, n).stage # "write"
    BY <1>1, AskTyped
  <2> QED BY <1>1, <2>1, RequestTyped DEF Adjust, Left
<1>2. CASE ~Writable(c)
  BY <1>2 DEF Adjust
<1> QED BY <1>1, <1>2

LEMMA RowKeyTyped ==
  ASSUME TypedDevice, NEW t, Left(t), NEW c \in Ids, NEW key
  PROVE  Left(RowKey(t, c, key))
<1> DEFINE n == Adjusted(device[c].number, Row(c), key)
<1>1. Left(Begin(t, c, key = "f2"))
  BY BeginTyped
<1>2. ASSUME Row(c).kind # "action" PROVE Left(Adjust(t, c, n))
  <2>1. Writable(c) => n \in Number
    <3>1. device[c].number \in Number
      BY DEF TypedDevice
    <3> QED BY <1>2, <3>1, AdjustedTyped DEF Writable
  <2> HIDE DEF n
  <2> QED BY <2>1, AdjustTyped
<1> QED BY <1>1, <1>2 DEF RowKey

LEMMA EditKeyTyped ==
  ASSUME NEW t, Left(t), NEW c \in Ids, NEW key, NEW u \in EditKey(t, c, key)
  PROVE  Left(u)
<1> DEFINE first == IF Row(c).kind = "action" THEN 1 ELSE 0
           number == IF Row(c).kind = "action" THEN 0 ELSE t.draft
<1>1. Left(t) /\ Left(EndEdit(t))
  BY EndEditTyped DEF Left
<1>2. \A f \in Number : Left([t EXCEPT !.focus = f])
  BY DEF Left, Typed, Session, Page
<1>3. \A n \in Number \cup {NotANumber} : Left([t EXCEPT !.draft = n])
  BY DEF Left, Typed, Session, Page
<1>4. first \in Number /\ (number # NotANumber => number \in Number) /\ t.focus \in Number
  BY Numbers DEF Left, Typed, Session
<1>5. number # NotANumber => Left([t EXCEPT !.req = AskDraft(t, c, number)])
  <2> HIDE DEF number
  <2>1. number # NotANumber => AskDraft(t, c, number) \in Request /\ AskDraft(t, c, number).stage # "write"
    BY <1>4, AskDraftTyped DEF Left
  <2> QED BY <2>1, RequestTyped DEF Left
<1>6. (t.focus + 1) % Width \in Number /\ (t.focus - 1) % Width \in Number
  BY <1>4, PanelAssumption DEF Number
<1>7. CASE key = "tab" /\ t.dialog
  <2>1. u = [t EXCEPT !.focus = IF t.focus = 2 THEN first ELSE (t.focus + 1) % Width]
    BY <1>7 DEF EditKey, Left, Typed, Session
  <2> HIDE DEF first
  <2> QED BY <1>2, <1>4, <1>6, <2>1
<1>8. CASE key = "backtab" /\ t.dialog
  <2>1. u = [t EXCEPT !.focus = IF t.focus = first THEN 2 ELSE (t.focus - 1) % Width]
    BY <1>8 DEF EditKey, Left, Typed, Session
  <2> HIDE DEF first
  <2> QED BY <1>2, <1>6, <2>1, Numbers
<1>9. CASE key \in {"left", "right"}
  <2>1. u = t \/ u = [t EXCEPT !.focus = IF t.focus = 1 THEN 2 ELSE 1]
    BY <1>9 DEF EditKey, Left, Typed, Session
  <2> QED BY <1>1, <1>2, <2>1, Numbers
<1>10. CASE key = "enter"
  <2>1. u = t \/ u = EndEdit(t) \/ (number # NotANumber /\ u = [t EXCEPT !.req = AskDraft(t, c, number)])
    BY <1>10 DEF EditKey
  <2> HIDE DEF number
  <2> QED BY <1>1, <1>5, <2>1
<1>11. CASE key = "letter"
  <2>1. u = t \/ \E n \in Number \cup {NotANumber} : u = [t EXCEPT !.draft = n]
    BY <1>11 DEF EditKey
  <2> QED BY <1>1, <1>3, <2>1
<1>12. CASE key = "esc"
  BY <1>1, <1>12 DEF EditKey
<1>13. CASE /\ key \notin {"left", "right", "enter", "letter", "esc"}
            /\ ~(key = "tab" /\ t.dialog) /\ ~(key = "backtab" /\ t.dialog)
  BY <1>1, <1>13 DEF EditKey
<1> QED BY <1>7, <1>8, <1>9, <1>10, <1>11, <1>12, <1>13

LEMMA MoveTyped ==
  ASSUME NEW t, Left(t), NEW key \in {"up", "down", "pageup", "pagedown"}
  PROVE  Left(Move(t, key))
<1>1. /\ Items(t) # {} /\ Items(t) \in SUBSET (0 .. 257) /\ Items(t) \in SUBSET Nat
      /\ \A i \in Items(t) : i \div 2 \in DOMAIN Page(t)
  BY LinesAreRows DEF Left
<1>2. Beyond(t, key) \in SUBSET (0 .. 257) /\ Beyond(t, key) \in SUBSET Nat /\ Beyond(t, key) \subseteq Items(t)
  BY <1>1 DEF Beyond
<1>3. Min(Items(t)) \in Items(t) /\ Max(Items(t)) \in Items(t)
  BY <1>1, MinIn, MaxIn, 257 \in Nat
<1>4. Beyond(t, key) # {} => Min(Beyond(t, key)) \in Items(t) /\ Max(Beyond(t, key)) \in Items(t)
  BY <1>2, MinIn, MaxIn, 257 \in Nat
<1>5. \A i \in Items(t) : Left(SelectItem(t, i))
  BY <1>1, SelectTyped DEF Left
<1>6. Move(t, key) = t \/ \E i \in Items(t) : Move(t, key) = SelectItem(t, i)
  <2> HIDE DEF Beyond, Items
  <2>1. CASE key = "pageup"
    BY <1>3, <2>1 DEF Move
  <2>2. CASE key = "pagedown"
    BY <1>3, <2>2 DEF Move
  <2>3. CASE key = "down" /\ Beyond(t, key) # {}
    BY <1>4, <2>3 DEF Move
  <2>4. CASE key = "up" /\ Beyond(t, key) # {}
    BY <1>4, <2>4 DEF Move
  <2>5. CASE key \in {"up", "down"} /\ Beyond(t, key) = {}
    BY <2>5 DEF Move
  <2> QED BY <2>1, <2>2, <2>3, <2>4, <2>5
<1> QED BY <1>5, <1>6

LEMMA FoldTyped ==
  ASSUME NEW t, Left(t), NEW key PROVE Left(Fold(t, key))
<1>1. <<t.tab, t.selected>> \in Ids
  BY PageShape DEF Left, Typed, Session, Page
<1>2. \E C \in SUBSET Ids : Fold(t, key) = [t EXCEPT !.closed = C]
  <2>1. t.closed \in SUBSET Ids
    BY DEF Left, Typed, Session
  <2> DEFINE mark == <<t.tab, t.selected>>
            C == IF key = "right" \/ (key # "left" /\ mark \in t.closed)
                 THEN t.closed \ {mark} ELSE t.closed \cup {mark}
  <2>2. Fold(t, key) = [t EXCEPT !.closed = C]
    BY DEF Fold, Left, Typed, Session
  <2>3. C \in SUBSET Ids
    <3> HIDE DEF mark
    <3>1. mark \in Ids
      BY <1>1 DEF mark
    <3> QED BY <2>1, <3>1
  <2> HIDE DEF C
  <2> QED BY <2>2, <2>3
<1> QED BY <1>2 DEF Left, Typed, Session, Page

\* Any key, on any state the panel can be in, leaves one of its types.
LEMMA PanelKeyTyped ==
  ASSUME TypedDevice, NEW t, Left(t), NEW key, NEW u \in PanelKey(t, key)
  PROVE  Left(u)
<1> DEFINE c == Selected(t)
           w == Unhidden(t)
<1>1. c = Nowhere \/ c \in Ids
  BY SelectedIsRow DEF Left, Selected
<1>2. Left(w)
  BY UnhiddenTyped DEF Left
<1>3. ASSUME TakesKeys(t, key), u \in EditKey(t, c, key) PROVE Left(u)
  <2>1. c \in Ids
    BY <1>3, SelectedIsRow DEF TakesKeys, Left
  <2> HIDE DEF c
  <2> QED BY <1>3, <2>1, EditKeyTyped
<1>4. ASSUME u = TableClose(t) PROVE Left(u)
  BY <1>4, CloseTyped DEF Left
<1>5. ASSUME NEW p \in DOMAIN Pages, u = ToPage(t, p) PROVE Left(u)
  BY <1>5, ToPageTyped DEF Left
<1>6. ASSUME u = Fold(w, key) PROVE Left(u)
  <2> HIDE DEF w
  <2> QED BY <1>2, <1>6, FoldTyped
<1>7. ASSUME key \in {"up", "down", "pageup", "pagedown"}, u = Move(w, key) PROVE Left(u)
  <2> HIDE DEF w
  <2> QED BY <1>2, <1>7, MoveTyped
<1>8. ASSUME c # Nowhere, u = RowKey(w, c, key) PROVE Left(u)
  <2> HIDE DEF w, c
  <2> QED BY <1>1, <1>2, <1>8, RowKeyTyped
<1>9. \/ TakesKeys(t, key) /\ u \in EditKey(t, c, key)
      \/ u = TableClose(t)
      \/ \E p \in DOMAIN Pages : u = ToPage(t, p)
      \/ u = Fold(w, key)
      \/ key \in {"up", "down", "pageup", "pagedown"} /\ u = Move(w, key)
      \/ c # Nowhere /\ u = RowKey(w, c, key)
      \/ u = w
  BY DEF PanelKey
<1> HIDE DEF c, w
<1> QED BY <1>2, <1>3, <1>4, <1>5, <1>6, <1>7, <1>8, <1>9

LEMMA ClickedTyped ==
  ASSUME TypedDevice, NEW t, Left(t), NEW u \in Clicked(t) PROVE Left(u)
<1> DEFINE c == Selected(t)
<1>1. ASSUME ~t.header, Row(c).kind = "level", NEW n \in LevelAt(Row(c)), u = Adjust(t, c, n)
      PROVE  Left(u)
  <2>1. c \in Ids
    BY <1>1, SelectedIsRow DEF Left
  <2>2. n \in Number
    BY <1>1, <2>1, RowShape, PanelAssumption DEF LevelAt, Rows, Number
  <2> HIDE DEF c
  <2> QED BY <1>1, <2>1, <2>2, AdjustTyped
<1>2. \/ u = t \/ u \in PanelKey(t, "enter") \/ u \in PanelKey(t, "f2")
      \/ ~t.header /\ Row(c).kind = "level" /\ \E n \in LevelAt(Row(c)) : u = Adjust(t, c, n)
  BY DEF Clicked
<1> HIDE DEF c
<1> QED BY <1>1, <1>2, PanelKeyTyped

LEMMA MouseTyped ==
  ASSUME TypedDevice, NEW t, Left(t), NEW u \in TableMouse(t) PROVE Left(u)
<1>1. \A f \in Number : Left([t EXCEPT !.focus = f])
  BY DEF Left, Typed, Session, Page
<1>2. ASSUME t.editing PROVE Left(u)
  <2>1. \/ u \in PanelKey(t, "esc") \/ u = [t EXCEPT !.focus = 0]
        \/ \E f \in 1 .. 2 : u \in PanelKey([t EXCEPT !.focus = f], "enter")
    BY <1>2 DEF TableMouse
  <2>2. \A f \in 1 .. 2 : f \in Number
    BY PanelAssumption DEF Number
  <2>3. ASSUME NEW f \in 1 .. 2, u \in PanelKey([t EXCEPT !.focus = f], "enter") PROVE Left(u)
    BY <1>1, <2>2, <2>3, PanelKeyTyped
  <2> QED BY <1>1, <2>1, <2>3, PanelKeyTyped, Numbers
<1>3. ASSUME ~t.editing PROVE Left(u)
  <2>1. \/ \E p \in DOMAIN Pages : u = ToPage(t, p)
        \/ \E i \in Items(t) : u \in Clicked(SelectItem(Unhidden(t), i))
    BY <1>3 DEF TableMouse
  <2>2. Left(Unhidden(t)) /\ Page(Unhidden(t)) = Page(t)
    BY UnhiddenTyped DEF Left
  <2>3. ASSUME NEW i \in Items(t) PROVE Left(SelectItem(Unhidden(t), i))
    <3>1. i \in Nat /\ i \div 2 \in DOMAIN Page(t)
      BY LinesAreRows DEF Left
    <3> QED BY <2>2, <3>1, SelectTyped DEF Left
  <2> QED BY <2>1, <2>3, ClickedTyped, ToPageTyped DEF Left
<1> QED BY <1>2, <1>3

LEMMA RenderTyped ==
  ASSUME NEW t, Left(t), NEW u \in Seen(t) PROVE Left(u)
BY UnhiddenTyped DEF Seen, Render, Left

\* Every handler, answered by any device, keeps the types; and only a number of the
\* control's range gets past the check.
LEMMA StepTyped ==
  ASSUME TypeOK, Next PROVE TypeOK'
<1>1. Typed(s) /\ TypedDevice
  BY DEF TypeOK, Typed, TypedDevice
<1>2. ASSUME Left(s'), UNCHANGED device PROVE TypeOK'
  BY <1>1, <1>2 DEF TypeOK, Typed, TypedDevice, Left
<1>3. Calm => Left(s)
  BY <1>1 DEF Calm, Left
<1>4. ASSUME NEW p \in DOMAIN Pages, Open(p) PROVE TypeOK'
  <2> DEFINE u == ToPage(EndEdit(s), p)
  <2>1. Left(u)
    BY <1>3, <1>4, EndEditTyped, ToPageTyped DEF Open, Left
  <2>2. s' \in Seen([u EXCEPT !.open = TRUE]) /\ UNCHANGED device
    BY <1>4 DEF Open
  <2> HIDE DEF u
  <2>3. Left([u EXCEPT !.open = TRUE])
    BY <2>1 DEF Left, Typed, Session, Page
  <2> QED BY <1>2, <2>2, <2>3, RenderTyped
<1>5. ASSUME Input PROVE TypeOK'
  <2>1. PICK t \in (UNION {PanelKey(s, key) : key \in PanelKeys}) \cup TableMouse(s) : s' \in Seen(t)
    BY <1>5, Zenon DEF Input
  <2>2. Left(t)
    <3>1. Left(s)
      BY <1>3, <1>5 DEF Input
    <3>2. t \in TableMouse(s) \/ \E key \in PanelKeys : t \in PanelKey(s, key)
      BY <2>1
    <3> QED BY <1>1, <3>1, <3>2, PanelKeyTyped, MouseTyped
  <2> QED BY <1>2, <1>5, <2>1, <2>2, RenderTyped DEF Input
<1>6. ASSUME NEW i \in 1 .. 128, Select(i) PROVE TypeOK'
  <2> DEFINE u == SelectItem(s, 2 * i + 1)
  <2>1. 2 * i + 1 \in Nat /\ (2 * i + 1) \div 2 \in DOMAIN Page(s)
    BY <1>6, Halves DEF Select
  <2>2. Left(u)
    BY <1>1, <1>3, <1>6, <2>1, SelectTyped DEF Select, Left
  <2>3. s' = [u EXCEPT !.closed = @ \ {<<s.tab, Section(s, i)>>}] /\ UNCHANGED device
    BY <1>6 DEF Select
  <2> HIDE DEF u
  <2>4. Left(s')
    BY <2>2, <2>3 DEF Left, Typed, Session, Page
  <2> QED BY <1>2, <2>3, <2>4
<1>7. ASSUME NEW c \in Ids, NEW n \in Number, SetCommand(c, n) PROVE TypeOK'
  <2>1. Ask(c, n) \in Request /\ Ask(c, n).stage # "write"
    BY <1>1, AskTyped
  <2>2. Left(s')
    BY <1>1, <1>7, <2>1, RequestTyped DEF SetCommand
  <2> QED BY <1>2, <1>7, <2>2 DEF SetCommand
<1>8. NoRequest \in Request /\ NoRequest.stage = "none"
  BY Numbers, PanelAssumption DEF NoRequest, Request, Number
<1>9. \A q \in Request : Typed([s EXCEPT !.req = q])
  BY <1>1 DEF Typed, Session, Page
<1>10. ASSUME Check PROVE TypeOK'
  <2>1. CASE ~Acceptable(s.req)
    BY <1>1, <1>2, <1>8, <1>10, <2>1, RequestTyped DEF Check
  <2>2. CASE Acceptable(s.req)
    <3>1. s.req \in Request /\ [s.req EXCEPT !.stage = "write"] \in Request
      BY <1>1 DEF Typed, Session, Request
    <3>2. s' = [s EXCEPT !.req = [s.req EXCEPT !.stage = "write"]] /\ UNCHANGED device
      BY <1>1, <1>10, <2>2 DEF Check, Typed, Session
    <3>3. Typed(s')
      BY <1>9, <3>1, <3>2
    <3>4. s'.req = [s.req EXCEPT !.stage = "write"]
      BY <1>1, <3>2 DEF Typed, Session
    <3>5. InRange(s'.req.on, s'.req.number)
      BY <2>2, <3>1, <3>4 DEF Acceptable, Request
    <3> QED BY <1>1, <3>2, <3>3, <3>5 DEF TypeOK, Typed, TypedDevice, InRange
  <2> QED BY <2>1, <2>2
<1>11. ASSUME Write PROVE TypeOK'
  <2>1. s.req \in Request /\ s.req.stage = "write"
    BY <1>1, <1>11 DEF Write, Typed, Session
  <2>2. \/ s' = [s EXCEPT !.req = NoRequest]
        \/ s' = [EndEdit(s) EXCEPT !.req = NoRequest]
    BY <1>11 DEF Write
  <2>3. Left(s')
    BY <1>1, <1>8, <2>2, EndEditTyped, RequestTyped
  <2>4. TypedDevice'
    <3>1. CASE UNCHANGED device
      BY <1>1, <3>1 DEF TypedDevice
    <3>2. CASE ~UNCHANGED device
      <4> DEFINE c == s.req.on
      <4>1. c \in Ids => /\ device[c].revision \in Nat /\ device[c].number \in Number
                         /\ device[c].ready \in BOOLEAN
        BY <1>1 DEF TypedDevice
      <4>2. \/ device' = [device EXCEPT ![c] = [number |-> s.req.number, ready |-> device[c].ready,
                                                revision |-> device[c].revision + 1]]
            \/ device' = [device EXCEPT ![c].ready = FALSE]
        BY <1>11, <3>2 DEF Write
      <4>3. s.req.number \in Number
        BY <2>1 DEF Request
      <4>4. c \in Ids => device[c].revision + 1 \in Nat
        BY <4>1
      <4> HIDE DEF c
      <4>5. ASSUME device' = [device EXCEPT ![c].ready = FALSE] PROVE TypedDevice'
        BY <1>1, <4>1, <4>5 DEF TypedDevice
      <4>6. ASSUME NEW n \in Number, NEW r \in BOOLEAN, NEW k, c \in Ids => k \in Nat,
                   device' = [device EXCEPT ![c] = [number |-> n, ready |-> r, revision |-> k]]
            PROVE  TypedDevice'
        BY <1>1, <4>6 DEF TypedDevice
      <4>7. CASE c \in Ids
        BY <4>1, <4>2, <4>3, <4>4, <4>5, <4>6, <4>7
      <4>8. CASE c \notin Ids
        BY <1>1, <4>2, <4>8 DEF TypedDevice
      <4> QED BY <4>7, <4>8
    <3> QED BY <3>1, <3>2
  <2> QED BY <2>3, <2>4 DEF TypeOK, Typed, TypedDevice, Left
<1>12. ASSUME NEW c \in Ids, DeviceMoves(c) PROVE TypeOK'
  <2>1. PICK n \in Number, r \in BOOLEAN :
          device' = [device EXCEPT ![c] =
            [number |-> n, ready |-> r,
             revision |-> IF n = device[c].number THEN @.revision ELSE @.revision + 1]]
    BY <1>12 DEF DeviceMoves
  <2>2. device[c].revision \in Nat /\ device[c].revision + 1 \in Nat
    BY <1>1 DEF TypedDevice
  <2>3. TypedDevice'
    BY <1>1, <2>1, <2>2 DEF TypedDevice
  <2>4. UNCHANGED s
    BY <1>12 DEF DeviceMoves
  <2> QED BY <1>1, <2>3, <2>4 DEF TypeOK, Typed, TypedDevice, InRange
<1> HIDE DEF TypeOK
<1> QED BY <1>4, <1>5, <1>6, <1>7, <1>10, <1>11, <1>12 DEF Next

LEMMA InitTyped == ASSUME Init PROVE TypeOK /\ s.req.stage = "none"
<1>1. 1 \in DOMAIN Pages /\ 1 \in DOMAIN Pages[1] /\ 1 \in 1 .. 128
  BY PageShape, PanelAssumption
<1>2. 0 \in Number /\ 0 \in Nat
  BY Numbers, PanelAssumption
<1>3. NoRequest \in Request /\ NoRequest.stage = "none"
  BY <1>2 DEF NoRequest, Request
<1>4. s \in Session /\ s.selected = 1 /\ s.tab = 1 /\ s.req = NoRequest
  BY <1>1, <1>2, <1>3 DEF Init, Session
<1>5. \A c \in Ids : Row(c).minimum \in Number
  BY RowShape DEF Rows
<1>6. device \in [Ids -> [number : Number, revision : Nat, ready : BOOLEAN]]
  BY <1>2, <1>5 DEF Init
<1> QED BY <1>1, <1>3, <1>4, <1>6 DEF TypeOK, Page

LEMMA ControlInvariance == PanelsSpec => [](part = "control" => TypeOK)
<1>1. PanelsInit => (part = "control" => TypeOK)
  BY InitTyped DEF PanelsInit
<1>2. (part = "control" => TypeOK) /\ [PanelsNext]_panelsVars
      => (part = "control" => TypeOK)'
  <2> SUFFICES ASSUME part = "control" => TypeOK, [PanelsNext]_panelsVars,
                      part' = "control"
               PROVE  TypeOK'
    OBVIOUS
  <2>1. part = "control"
    BY DEF PanelsNext, panelsVars
  <2>2. Next \/ UNCHANGED vars
    BY <2>1 DEF PanelsNext, panelsVars
  <2>3. ASSUME UNCHANGED vars PROVE TypeOK'
    BY <2>1, <2>3 DEF vars, TypeOK, InRange
  <2> QED BY <2>1, <2>2, <2>3, StepTyped
<1> QED BY <1>1, <1>2, PTL DEF PanelsSpec

\* The state of the control panel and of its device keeps its types, whichever keys,
\* clicks, commands and moves of the device come, drawn late or not.
THEOREM ControlTypeCorrect == PanelsSpec => [](part = "control" => TypeOK)
BY ControlInvariance, PTL

-----------------------------------------------------------------------------
(* What a key or a click asks for without a draft.                         *)

Asking(t) == t.req.stage = "check" /\ ~t.req.draft
Fits(t) == Asking(t) => t.req.number \in Row(t.req.on).minimum .. Row(t.req.on).maximum
Steps(t, key) == Asking(t) => IsNext(t.req.number, t.req.seen, Row(t.req.on), key)

\* From a number in range every key makes a number in range, and an arrow the next one:
\* in unsigned arithmetic, and whatever the step leaves at the ends.
LEMMA AdjustedFits ==
  ASSUME NEW c \in Ids, Row(c).kind # "action", NEW n \in Number, InRange(c, n),
         NEW key \in {"left", "right", "home", "end", "enter"},
         ~(key = "enter" /\ Row(c).kind = "level")
  PROVE  /\ Adjusted(n, Row(c), key) \in Row(c).minimum .. Row(c).maximum
         /\ key \in {"left", "right"} => IsNext(Adjusted(n, Row(c), key), n, Row(c), key)
<1> DEFINE r == Row(c)
           x == Adjusted(n, r, key)
<1>1. r \in Rows /\ Width \in Nat /\ Width > 2
  BY RowShape, PanelAssumption
<1>2. /\ r.minimum \in 0 .. Width - 1 /\ r.maximum \in 0 .. Width - 1 /\ r.step \in 0 .. Width - 1
      /\ n \in Nat /\ r.minimum <= n /\ n <= r.maximum
  BY <1>1 DEF InRange, Rows, Number
<1>3. /\ r.kind = "toggle" => r.minimum = 0 /\ r.maximum = 1
      /\ r.kind = "choice" => r.minimum = 0
      /\ r.kind \in {"toggle", "level", "choice"}
  BY <1>1, PanelAssumption DEF Rows
<1>4. ~(key = "enter" /\ r.kind = "level")
  OBVIOUS
<1> HIDE DEF r
<1>5. \A a \in 0 .. Width - 1 : a % Width = a
  BY <1>1
<1>6. CASE r.kind = "level" /\ key = "left"
  <2>1. (n - r.minimum) % Width = n - r.minimum
    BY <1>1, <1>2, <1>5
  <2>2. n - r.minimum >= r.step => (n - r.step) % Width = n - r.step
    BY <1>1, <1>2, <1>5
  <2>3. x = IF n - r.minimum < r.step THEN r.minimum ELSE n - r.step
    BY <1>2, <1>6, <2>1, <2>2 DEF Adjusted, Lowered
  <2> HIDE DEF x
  <2>4. x \in r.minimum .. r.maximum /\ n - x \in 0 .. r.step /\ (n - x < r.step => x = r.minimum)
    BY <1>1, <1>2, <2>3
  <2>5. IsNext(x, n, r, key)
    BY <1>6, <2>4 DEF IsNext
  <2> QED BY <2>4, <2>5 DEF x, r
<1>7. CASE r.kind = "level" /\ key = "right"
  <2>1. x = IF n + r.step < r.maximum THEN n + r.step ELSE r.maximum
    BY <1>7 DEF Adjusted, Raised
  <2> HIDE DEF x
  <2>2. x \in r.minimum .. r.maximum /\ x - n \in 0 .. r.step /\ (x - n < r.step => x = r.maximum)
    BY <1>1, <1>2, <2>1
  <2>3. IsNext(x, n, r, key)
    BY <1>7, <2>2 DEF IsNext
  <2> QED BY <2>2, <2>3 DEF x, r
<1>8. CASE r.kind = "toggle"
  <2>1. /\ key = "left" => x = 0
        /\ key = "right" => x = 1
        /\ x \in {0, 1, 1 - n}
    BY <1>3, <1>8 DEF Adjusted
  <2> HIDE DEF x
  <2>2. x \in r.minimum .. r.maximum
    BY <1>1, <1>2, <1>3, <1>8, <2>1
  <2>3. key \in {"left", "right"} => IsNext(x, n, r, key)
    BY <1>1, <1>2, <1>3, <1>8, <2>1 DEF IsNext
  <2> QED BY <2>2, <2>3 DEF x, r
<1>9. CASE r.kind = "choice"
  <2>1. \A a \in Int, b \in Nat : 0 <= a /\ a <= b => a % (b + 1) = a /\ (a + b + 1) % (b + 1) = a
    OBVIOUS
  <2>2. (n + 1) % (r.maximum + 1) = IF n = r.maximum THEN 0 ELSE n + 1
    BY <1>2
  <2>3. (n + r.maximum) % (r.maximum + 1) = IF n = 0 THEN r.maximum ELSE n - 1
    <3>1. CASE n = 0
      BY <1>1, <1>2, <3>1
    <3>2. CASE n # 0
      <4>1. n - 1 \in Int /\ 0 <= n - 1 /\ n - 1 <= r.maximum /\ r.maximum \in Nat
        BY <1>1, <1>2, <3>2
      <4>2. ((n - 1) + r.maximum + 1) % (r.maximum + 1) = n - 1
        BY <2>1, <4>1
      <4> QED BY <1>1, <1>2, <3>2, <4>2
    <3> QED BY <3>1, <3>2
  <2>4. /\ key = "left" => x = IF n = 0 THEN r.maximum ELSE n - 1
        /\ key = "right" => x = IF n = r.maximum THEN 0 ELSE n + 1
        /\ \/ x = r.minimum \/ x = r.maximum
           \/ x = IF n = 0 THEN r.maximum ELSE n - 1
           \/ x = IF n = r.maximum THEN 0 ELSE n + 1
    BY <1>9, <2>2, <2>3 DEF Adjusted
  <2> HIDE DEF x
  <2>5. x \in r.minimum .. r.maximum
    BY <1>1, <1>2, <1>3, <1>9, <2>4
  <2>6. key \in {"left", "right"} => IsNext(x, n, r, key)
    BY <1>1, <1>2, <1>3, <1>9, <2>4 DEF IsNext
  <2> QED BY <2>5, <2>6 DEF x, r
<1>10. CASE r.kind = "level" /\ key \in {"home", "end"}
  <2>1. x = r.minimum \/ x = r.maximum
    BY <1>10 DEF Adjusted
  <2> HIDE DEF x
  <2>2. x \in r.minimum .. r.maximum
    BY <1>1, <1>2, <2>1
  <2> QED BY <1>10, <2>2 DEF x, r
<1> QED BY <1>3, <1>4, <1>6, <1>7, <1>8, <1>9, <1>10

\* Nothing is asked for but what Adjust asks, of a control that may be written.
LEMMA AdjustAsks ==
  ASSUME NEW t, Typed(t), t.req.stage = "none", NEW c, NEW n
  PROVE  /\ Asking(Adjust(t, c, n)) => Writable(c)
         /\ Writable(c) => Adjust(t, c, n).req = Ask(c, n)
BY DEF Adjust, Asking, Typed, Session

LEMMA EditKeyAsks ==
  ASSUME NEW t, Typed(t), t.req.stage = "none", NEW c, NEW key, NEW u \in EditKey(t, c, key)
  PROVE  ~Asking(u)
<1>1. ~Asking(t) /\ ~Asking(EndEdit(t))
  BY EndEditTyped DEF Asking
<1>2. \A f : [t EXCEPT !.focus = f].req = t.req /\ [t EXCEPT !.draft = f].req = t.req
  BY DEF Typed, Session
<1>3. \A n : [t EXCEPT !.req = AskDraft(t, c, n)].req.draft
  BY DEF Typed, Session, AskDraft
<1>4. \/ u = t \/ u = EndEdit(t) \/ \E f : u = [t EXCEPT !.focus = f]
      \/ \E n : u = [t EXCEPT !.draft = n]
      \/ \E n : u = [t EXCEPT !.req = AskDraft(t, c, n)]
  <2>1. CASE key = "tab" /\ t.dialog
    BY <2>1 DEF EditKey
  <2>2. CASE key = "backtab" /\ t.dialog
    BY <2>2 DEF EditKey
  <2>3. CASE key \in {"left", "right"}
    BY <2>3 DEF EditKey
  <2>4. CASE key = "enter"
    BY <2>4 DEF EditKey
  <2>5. CASE key = "letter"
    BY <2>5 DEF EditKey
  <2>6. CASE key = "esc"
    BY <2>6 DEF EditKey
  <2>7. CASE /\ key \notin {"left", "right", "enter", "letter", "esc"}
             /\ ~(key = "tab" /\ t.dialog) /\ ~(key = "backtab" /\ t.dialog)
    BY <2>7 DEF EditKey
  <2> QED BY <2>1, <2>2, <2>3, <2>4, <2>5, <2>6, <2>7
<1> QED BY <1>1, <1>2, <1>3, <1>4 DEF Asking

LEMMA RowKeyAsks ==
  ASSUME TypedDevice, NEW t, Typed(t), t.req.stage = "none", NEW c \in Ids, NEW key
  PROVE  /\ Fits(RowKey(t, c, key))
         /\ key \in {"left", "right"} => Steps(RowKey(t, c, key), key)
<1> DEFINE n == device[c].number
           x == Adjusted(n, Row(c), key)
<1>1. ~Asking(t) /\ ~Asking(Begin(t, c, key = "f2"))
  BY DEF Asking, Begin, Typed, Session
<1>2. ASSUME Row(c).kind # "action", key \in {"left", "right", "home", "end", "enter"},
             ~(key = "enter" /\ Row(c).kind = "level")
      PROVE  /\ Fits(Adjust(t, c, x))
             /\ key \in {"left", "right"} => Steps(Adjust(t, c, x), key)
  <2>1. n \in Number
    BY DEF TypedDevice
  <2>2. Writable(c) => /\ x \in Row(c).minimum .. Row(c).maximum
                       /\ key \in {"left", "right"} => IsNext(x, n, Row(c), key)
    BY <1>2, <2>1, AdjustedFits DEF Writable
  <2>3. Ask(c, x).on = c /\ Ask(c, x).number = x /\ Ask(c, x).seen = n
    BY DEF Ask
  <2> HIDE DEF x, n
  <2> QED BY <2>2, <2>3, AdjustAsks DEF Fits, Steps
<1>3. \/ RowKey(t, c, key) = t
      \/ RowKey(t, c, key) = Begin(t, c, key = "f2")
      \/ /\ Row(c).kind # "action" /\ key \in {"left", "right", "home", "end", "enter"}
         /\ ~(key = "enter" /\ Row(c).kind = "level")
         /\ RowKey(t, c, key) = Adjust(t, c, x)
  BY DEF RowKey
<1> HIDE DEF x
<1> QED BY <1>1, <1>2, <1>3 DEF Fits, Steps

LEMMA PanelKeyAsks ==
  ASSUME TypedDevice, NEW t, Left(t), t.req.stage = "none", NEW key, NEW u \in PanelKey(t, key)
  PROVE  Fits(u) /\ (key \in {"left", "right"} => Steps(u, key))
<1> DEFINE c == Selected(t)
           w == Unhidden(t)
<1>1. c = Nowhere \/ c \in Ids
  BY SelectedIsRow DEF Left, Selected
<1>2. Typed(w) /\ w.req = t.req
  BY UnhiddenTyped DEF Left
<1>3. ASSUME u \in EditKey(t, c, key) PROVE ~Asking(u)
  <2> HIDE DEF c
  <2> QED BY <1>3, EditKeyAsks DEF Left
<1>4. TableClose(t).req = t.req /\ \A p \in DOMAIN Pages : ToPage(t, p).req = t.req
  BY CloseTyped, ToPageTyped DEF Left
<1>5. /\ Fold(w, key).req = t.req
      /\ Move(w, key).req = t.req
  <2> HIDE DEF w
  <2>1. \A i : SelectItem(w, i).req = w.req
    BY <1>2 DEF SelectItem, Typed, Session
  <2>2. Move(w, key) = w \/ \E i : Move(w, key) = SelectItem(w, i)
    BY DEF Move
  <2> QED BY <1>2, <2>1, <2>2 DEF Fold, Typed, Session
<1>6. \/ u \in EditKey(t, c, key)
      \/ u = TableClose(t)
      \/ \E p \in DOMAIN Pages : u = ToPage(t, p)
      \/ u = Fold(w, key)
      \/ u = Move(w, key)
      \/ c # Nowhere /\ u = RowKey(w, c, key)
      \/ u = w
  BY DEF PanelKey
<1> HIDE DEF c, w
<1>7. CASE c # Nowhere /\ u = RowKey(w, c, key)
  BY <1>1, <1>2, <1>7, RowKeyAsks
<1>8. ASSUME u \in EditKey(t, c, key) \/ u.req = t.req PROVE Fits(u) /\ Steps(u, key)
  <2>1. u.req = t.req => ~Asking(u)
    BY DEF Asking
  <2> QED BY <1>3, <1>8, <2>1 DEF Fits, Steps
<1>9. \/ u \in EditKey(t, c, key) \/ u.req = t.req
      \/ c # Nowhere /\ u = RowKey(w, c, key)
  BY <1>2, <1>4, <1>5, <1>6
<1> QED BY <1>7, <1>8, <1>9, Zenon

LEMMA ClickedAsks ==
  ASSUME TypedDevice, NEW t, Left(t), t.req.stage = "none", NEW u \in Clicked(t) PROVE Fits(u)
<1> DEFINE c == Selected(t)
<1>1. ASSUME ~t.header, Row(c).kind = "level", NEW n \in LevelAt(Row(c)), u = Adjust(t, c, n)
      PROVE  Fits(u)
  <2>1. c \in Ids
    BY <1>1, SelectedIsRow DEF Left
  <2>2. n \in Row(c).minimum .. Row(c).maximum
    BY <1>1, <2>1, RowShape, PanelAssumption DEF LevelAt, Rows, Number
  <2>3. Ask(c, n).on = c /\ Ask(c, n).number = n
    BY DEF Ask
  <2>4. /\ Asking(u) => Writable(c)
        /\ Writable(c) => u.req = Ask(c, n)
    BY <1>1, AdjustAsks DEF Left
  <2> HIDE DEF c
  <2> QED BY <2>2, <2>3, <2>4 DEF Fits
<1>2. \/ u = t \/ u \in PanelKey(t, "enter") \/ u \in PanelKey(t, "f2")
      \/ ~t.header /\ Row(c).kind = "level" /\ \E n \in LevelAt(Row(c)) : u = Adjust(t, c, n)
  BY DEF Clicked
<1>3. Fits(t)
  BY DEF Fits, Asking
<1> HIDE DEF c
<1> QED BY <1>1, <1>2, <1>3, PanelKeyAsks

LEMMA MouseAsks ==
  ASSUME TypedDevice, NEW t, Left(t), t.req.stage = "none", NEW u \in TableMouse(t) PROVE Fits(u)
<1>1. \A f \in Number : Left([t EXCEPT !.focus = f]) /\ [t EXCEPT !.focus = f].req = t.req
  BY DEF Left, Typed, Session, Page
<1>2. ASSUME u.req = t.req PROVE Fits(u)
  BY <1>2 DEF Fits, Asking
<1>3. CASE t.editing
  <2>1. \/ u \in PanelKey(t, "esc") \/ u = [t EXCEPT !.focus = 0]
        \/ \E f \in 1 .. 2 : u \in PanelKey([t EXCEPT !.focus = f], "enter")
    BY <1>3 DEF TableMouse
  <2>2. \A f \in 1 .. 2 : f \in Number
    BY PanelAssumption DEF Number
  <2>3. ASSUME NEW f \in 1 .. 2, u \in PanelKey([t EXCEPT !.focus = f], "enter") PROVE Fits(u)
    BY <1>1, <2>2, <2>3, PanelKeyAsks
  <2> QED BY <1>1, <1>2, <2>1, <2>3, PanelKeyAsks, Numbers
<1>4. CASE ~t.editing
  <2>1. \/ \E p \in DOMAIN Pages : u = ToPage(t, p)
        \/ \E i \in Items(t) : u \in Clicked(SelectItem(Unhidden(t), i))
    BY <1>4 DEF TableMouse
  <2>2. Left(Unhidden(t)) /\ Page(Unhidden(t)) = Page(t) /\ Unhidden(t).req = t.req
    BY UnhiddenTyped DEF Left
  <2>3. ASSUME NEW i \in Items(t)
        PROVE  Left(SelectItem(Unhidden(t), i)) /\ SelectItem(Unhidden(t), i).req = t.req
    <3>1. i \in Nat /\ i \div 2 \in DOMAIN Page(t)
      BY LinesAreRows DEF Left
    <3> QED BY <2>2, <3>1, SelectTyped DEF Left
  <2> QED BY <1>2, <2>1, <2>3, ClickedAsks, ToPageTyped DEF Left
<1> QED BY <1>3, <1>4

LEMMA InputAsks == ASSUME TypeOK PROVE AsksForTheNext
<1> SUFFICES ASSUME Asked
             PROVE  /\ Fits(s')
                    /\ \A key \in {"left", "right"} :
                         (\E t \in PanelKey(s, key) : s' \in Seen(t)) => Steps(s', key)
  BY DEF AsksForTheNext, Asked, Fits, Steps, Asking
<1>1. Left(s) /\ TypedDevice /\ s.req.stage = "none"
  BY DEF TypeOK, Typed, TypedDevice, Asked, Calm, Left
<1>2. ASSUME NEW t, Left(t), s' \in Seen(t) PROVE s'.req = t.req
  BY <1>2, UnhiddenTyped DEF Seen, Render, Left
<1>3. Fits(s')
  <2>1. PICK t \in (UNION {PanelKey(s, key) : key \in PanelKeys}) \cup TableMouse(s) : s' \in Seen(t)
    BY Zenon DEF Asked, Input
  <2>2. t \in TableMouse(s) \/ \E key \in PanelKeys : t \in PanelKey(s, key)
    BY <2>1
  <2>3. Left(t) /\ Fits(t)
    BY <1>1, <2>2, PanelKeyTyped, MouseTyped, PanelKeyAsks, MouseAsks
  <2> QED BY <1>2, <2>1, <2>3 DEF Fits, Asking
<1>4. ASSUME NEW key \in {"left", "right"}, NEW t \in PanelKey(s, key), s' \in Seen(t)
      PROVE  Steps(s', key)
  <2>1. Left(t) /\ Steps(t, key)
    BY <1>1, <1>4, PanelKeyTyped, PanelKeyAsks
  <2> QED BY <1>2, <1>4, <2>1 DEF Steps, Asking
<1> QED BY <1>3, <1>4

\* Of every panel, keys and clicks ask without a draft only for numbers that the control
\* can have, and Left and Right for the next one, whatever range, step and width.
THEOREM KeysAskForNext == PanelsSpec => KeysAskForTheNext
<1>1. (part = "control" => TypeOK) /\ [PanelsNext]_panelsVars
      => [part = "control" => AsksForTheNext]_panelsVars
  BY InputAsks
<1> QED BY <1>1, ControlInvariance, PTL DEF PanelsSpec, KeysAskForTheNext

-----------------------------------------------------------------------------
(* Drafts and requests, of a panel that is drawn before every key.         *)

\* A number that was read with a revision is the control's as long as the revision is.
Fresh(c, revision, n) ==
  revision <= device[c].revision /\ (revision = device[c].revision => n = device[c].number)

\* A draft belongs to the row that is selected and on the screen.
Held(t) ==
  t.editing => /\ ~t.header /\ ~Hidden(t)
               /\ t.home = Selected(t) /\ Fresh(t.home, t.revision, t.seen)

\* A request goes where its draft was opened, with what was seen there.
Asks(t) ==
  t.req.stage # "none" => /\ t.req.on = t.req.home /\ t.req.on \in Ids
                          /\ Fresh(t.req.on, t.req.expected, t.req.seen)
Kept(t) == Held(t) /\ Asks(t)

\* An open board shows its selection.
Drawn(t) == t.open => t.header \/ ~Hidden(t)

\* What is folded depends on the page and the folded sections, what is hidden on the
\* selection too.
LEMMA SameFolds ==
  ASSUME NEW t, NEW u, u.tab = t.tab, u.closed = t.closed
  PROVE  Page(u) = Page(t) /\ \A i : Folded(u, i) = Folded(t, i)
<1>1. Page(u) = Page(t)
  BY DEF Page
<1>2. ASSUME NEW i PROVE Folded(u, i) = Folded(t, i)
  <2>1. {j \in 1 .. i : Begins(u, j)} = {j \in 1 .. i : Begins(t, j)}
    BY <1>1 DEF Begins
  <2>2. <<u.tab, Section(u, i)>> = <<t.tab, Section(t, i)>>
    BY <2>1 DEF Section
  <2> QED BY <1>1, <2>2 DEF Folded
<1> QED BY <1>1, <1>2

LEMMA SameBoard ==
  ASSUME NEW t, NEW u, u.tab = t.tab, u.selected = t.selected, u.closed = t.closed
  PROVE  Hidden(u) = Hidden(t) /\ (u.header = t.header => Selected(u) = Selected(t))
BY SameFolds DEF Hidden, Selected

\* A state with the draft, the selection and the request of another.
LEMMA SameKept ==
  ASSUME NEW t, Kept(t), NEW u,
         u.tab = t.tab, u.selected = t.selected, u.closed = t.closed, u.header = t.header,
         u.editing = t.editing, u.home = t.home, u.revision = t.revision, u.seen = t.seen,
         u.req = t.req
  PROVE  Kept(u)
BY SameBoard DEF Kept, Held, Asks

\* Without a draft and a request nothing can be lost.
LEMMA QuietKept ==
  ASSUME NEW u, ~u.editing, u.req.stage = "none" PROVE Kept(u)
BY DEF Kept, Held, Asks

LEMMA UnhiddenKept ==
  ASSUME NEW t, Typed(t)
  PROVE  /\ Unhidden(t).editing = t.editing /\ Unhidden(t).req = t.req
         /\ Unhidden(t).open = t.open
         /\ Unhidden(t) = t \/ Unhidden(t).header
<1>1. \A i : /\ SelectItem(t, i).editing = t.editing /\ SelectItem(t, i).req = t.req
             /\ SelectItem(t, i).open = t.open
  BY DEF SelectItem, Typed, Session
<1> QED BY <1>1, UnhiddenTyped DEF Unhidden

\* A draft that opens has the number and the revision of this moment.
LEMMA BeginKept ==
  ASSUME TypedDevice, NEW t, Typed(t), Kept(t), ~t.header, ~Hidden(t), NEW dialog \in BOOLEAN
  PROVE  Kept(Begin(t, Selected(t), dialog))
<1> DEFINE c == Selected(t)
           u == Begin(t, c, dialog)
<1>1. CASE ~Writable(c)
  BY <1>1 DEF Begin
<1>2. CASE Writable(c)
  <2>1. c \in Ids /\ device[c].revision \in Int
    BY SelectedIsRow DEF TypedDevice
  <2> HIDE DEF c
  <2>2. /\ u.tab = t.tab /\ u.selected = t.selected /\ u.closed = t.closed /\ u.header = t.header
        /\ u.req = t.req /\ u.home = c /\ u.revision = device[c].revision /\ u.seen = device[c].number
    BY <1>2 DEF Begin, Typed, Session
  <2> HIDE DEF u
  <2>3. ~Hidden(u) /\ Selected(u) = c
    BY <2>2, SameBoard DEF c
  <2>4. Fresh(u.home, u.revision, u.seen)
    BY <2>1, <2>2 DEF Fresh
  <2>5. Held(u) /\ Asks(u)
    BY <2>2, <2>3, <2>4 DEF Held, Asks, Kept
  <2> QED BY <2>5 DEF Kept, u, c
<1> QED BY <1>1, <1>2

LEMMA AdjustKept ==
  ASSUME TypedDevice, NEW t, Typed(t), Kept(t), NEW c \in Ids, NEW n
  PROVE  Kept(Adjust(t, c, n))
<1> DEFINE u == [t EXCEPT !.req = Ask(c, n)]
<1>1. device[c].revision \in Int
  BY DEF TypedDevice
<1>2. /\ u.tab = t.tab /\ u.selected = t.selected /\ u.closed = t.closed /\ u.header = t.header
      /\ u.editing = t.editing /\ u.home = t.home /\ u.revision = t.revision /\ u.seen = t.seen
      /\ u.req = Ask(c, n)
  BY DEF Typed, Session
<1> HIDE DEF u
<1>3. Held(u)
  BY <1>2, SameBoard DEF Kept, Held
<1>4. Asks(u)
  BY <1>1, <1>2 DEF Asks, Ask, Fresh
<1> QED BY <1>3, <1>4 DEF Adjust, Kept, u

LEMMA EditKeyKept ==
  ASSUME NEW t, Left(t), t.req.stage = "none", Held(t), t.editing, NEW key,
         NEW u \in EditKey(t, Selected(t), key)
  PROVE  Kept(u)
<1> DEFINE c == Selected(t)
<1>1. Kept(t) /\ Kept(EndEdit(t))
  BY QuietKept, EndEditTyped DEF Kept, Asks, Left
<1>2. \A f : Kept([t EXCEPT !.focus = f])
  <2> SUFFICES ASSUME NEW f PROVE Kept([t EXCEPT !.focus = f])
    OBVIOUS
  <2> DEFINE w == [t EXCEPT !.focus = f]
  <2>1. /\ w.tab = t.tab /\ w.selected = t.selected /\ w.closed = t.closed /\ w.header = t.header
        /\ w.editing = t.editing /\ w.home = t.home /\ w.revision = t.revision /\ w.seen = t.seen
        /\ w.req = t.req
    BY DEF Left, Typed, Session
  <2> HIDE DEF w
  <2>2. Kept(w)
    BY <1>1, <2>1, SameKept
  <2> QED BY <2>2 DEF w
<1>3. \A n : Kept([t EXCEPT !.draft = n])
  <2> SUFFICES ASSUME NEW n PROVE Kept([t EXCEPT !.draft = n])
    OBVIOUS
  <2> DEFINE w == [t EXCEPT !.draft = n]
  <2>1. /\ w.tab = t.tab /\ w.selected = t.selected /\ w.closed = t.closed /\ w.header = t.header
        /\ w.editing = t.editing /\ w.home = t.home /\ w.revision = t.revision /\ w.seen = t.seen
        /\ w.req = t.req
    BY DEF Left, Typed, Session
  <2> HIDE DEF w
  <2>2. Kept(w)
    BY <1>1, <2>1, SameKept
  <2> QED BY <2>2 DEF w
<1>4. \A n : Kept([t EXCEPT !.req = AskDraft(t, c, n)])
  <2> SUFFICES ASSUME NEW n PROVE Kept([t EXCEPT !.req = AskDraft(t, c, n)])
    OBVIOUS
  <2> DEFINE w == [t EXCEPT !.req = AskDraft(t, c, n)]
  <2>1. /\ w.tab = t.tab /\ w.selected = t.selected /\ w.closed = t.closed /\ w.header = t.header
        /\ w.editing = t.editing /\ w.home = t.home /\ w.revision = t.revision /\ w.seen = t.seen
        /\ w.req = AskDraft(t, c, n)
    BY DEF Left, Typed, Session
  <2> HIDE DEF w
  <2>2. Held(w)
    BY <2>1, SameBoard DEF Held
  <2>3. Asks(w)
    BY <2>1, SelectedIsRow DEF Asks, AskDraft, Expected, Held, Left
  <2> QED BY <2>2, <2>3 DEF w, Kept
<1>5. \/ u = t \/ u = EndEdit(t) \/ \E f : u = [t EXCEPT !.focus = f]
      \/ \E n : u = [t EXCEPT !.draft = n]
      \/ \E n : u = [t EXCEPT !.req = AskDraft(t, c, n)]
  <2>1. CASE key = "tab" /\ t.dialog
    BY <2>1 DEF EditKey
  <2>2. CASE key = "backtab" /\ t.dialog
    BY <2>2 DEF EditKey
  <2>3. CASE key \in {"left", "right"}
    BY <2>3 DEF EditKey
  <2>4. CASE key = "enter"
    BY <2>4 DEF EditKey
  <2>5. CASE key = "letter"
    BY <2>5 DEF EditKey
  <2>6. CASE key = "esc"
    BY <2>6 DEF EditKey
  <2>7. CASE /\ key \notin {"left", "right", "enter", "letter", "esc"}
             /\ ~(key = "tab" /\ t.dialog) /\ ~(key = "backtab" /\ t.dialog)
    BY <2>7 DEF EditKey
  <2> QED BY <2>1, <2>2, <2>3, <2>4, <2>5, <2>6, <2>7
<1> HIDE DEF c
<1> QED BY <1>1, <1>2, <1>3, <1>4, <1>5

\* No key moves a draft away from its control, and every request has the revision of
\* the number that was on the screen.
LEMMA PanelKeyKept ==
  ASSUME TypedDevice, NEW t, Left(t), t.req.stage = "none", Held(t), t.header \/ ~Hidden(t),
         NEW key, NEW u \in PanelKey(t, key)
  PROVE  Kept(u)
<1> DEFINE c == Selected(t)
           w == Unhidden(t)
<1>1. CASE t.editing
  <2>1. u \in EditKey(t, c, key)
    BY <1>1 DEF PanelKey, TakesKeys, Held
  <2> QED BY <1>1, <2>1, EditKeyKept
<1>2. CASE ~t.editing
  <2>1. Typed(w) /\ ~w.editing /\ w.req.stage = "none" /\ (w = t \/ w.header)
    BY <1>2, UnhiddenTyped, UnhiddenKept DEF Left
  <2>2. \/ u = TableClose(t)
        \/ \E p \in DOMAIN Pages : u = ToPage(t, p)
        \/ u = Fold(w, key)
        \/ u = Move(w, key)
        \/ c # Nowhere /\ u = RowKey(w, c, key)
        \/ u = w
    BY <1>2 DEF PanelKey, TakesKeys
  <2>3. ASSUME u = TableClose(t) PROVE Kept(u)
    BY <2>3, CloseTyped, QuietKept DEF Left
  <2>4. ASSUME NEW p \in DOMAIN Pages, u = ToPage(t, p) PROVE Kept(u)
    BY <1>2, <2>4, ToPageTyped, QuietKept DEF Left
  <2>5. ASSUME u = Fold(w, key) PROVE Kept(u)
    <3> HIDE DEF w
    <3>1. ~u.editing /\ u.req.stage = "none"
      BY <2>1, <2>5 DEF Fold, Typed, Session
    <3> QED BY <3>1, QuietKept
  <2>6. ASSUME u = Move(w, key) PROVE Kept(u)
    <3> HIDE DEF w
    <3>1. \A i : ~SelectItem(w, i).editing /\ SelectItem(w, i).req = w.req
      BY <2>1 DEF SelectItem, Typed, Session
    <3>2. u = w \/ \E i : u = SelectItem(w, i)
      BY <2>6 DEF Move
    <3> QED BY <2>1, <3>1, <3>2, QuietKept
  <2>7. ASSUME c # Nowhere, u = RowKey(w, c, key) PROVE Kept(u)
    <3>1. ~t.header /\ ~Hidden(t) /\ w = t /\ c \in Ids
      BY <2>7, SelectedIsRow DEF Selected, Unhidden, Left
    <3>2. Kept(t)
      BY <1>2, QuietKept
    <3>3. u = RowKey(t, c, key)
      BY <2>7, <3>1
    <3> HIDE DEF w
    <3>4. Kept(Begin(t, c, key = "f2"))
      BY <3>1, <3>2, BeginKept DEF Left
    <3>5. \A n : Kept(Adjust(t, c, n))
      <4> HIDE DEF c
      <4> QED BY <3>1, <3>2, AdjustKept DEF Left
    <3> HIDE DEF c
    <3> QED BY <3>2, <3>3, <3>4, <3>5 DEF RowKey
  <2>8. ASSUME u = w PROVE Kept(u)
    BY <2>1, <2>8, QuietKept
  <2> HIDE DEF w, c
  <2> QED BY <2>2, <2>3, <2>4, <2>5, <2>6, <2>7, <2>8
<1> QED BY <1>1, <1>2

LEMMA ClickedKept ==
  ASSUME TypedDevice, NEW t, Left(t), t.req.stage = "none", ~t.editing, t.header \/ ~Hidden(t),
         NEW u \in Clicked(t)
  PROVE  Kept(u)
<1> DEFINE c == Selected(t)
<1>1. Held(t) /\ Kept(t)
  BY QuietKept DEF Kept
<1>2. ASSUME ~t.header, NEW n PROVE Kept(Adjust(t, c, n))
  <2>1. c \in Ids
    BY <1>2, SelectedIsRow DEF Left
  <2> HIDE DEF c
  <2> QED BY <1>1, <2>1, AdjustKept DEF Left
<1>3. \/ u = t \/ u \in PanelKey(t, "enter") \/ u \in PanelKey(t, "f2")
      \/ ~t.header /\ \E n : u = Adjust(t, c, n)
  BY DEF Clicked
<1> HIDE DEF c
<1> QED BY <1>1, <1>2, <1>3, PanelKeyKept

LEMMA MouseKept ==
  ASSUME TypedDevice, NEW t, Left(t), t.req.stage = "none", Held(t), t.header \/ ~Hidden(t),
         NEW u \in TableMouse(t)
  PROVE  Kept(u)
<1>1. CASE t.editing
  <2>1. ASSUME NEW f \in Number, NEW w, w = [t EXCEPT !.focus = f]
        PROVE  Left(w) /\ Kept(w) /\ w.req = t.req /\ (w.header \/ ~Hidden(w))
    <3>1. /\ w.tab = t.tab /\ w.selected = t.selected /\ w.closed = t.closed /\ w.header = t.header
          /\ w.editing = t.editing /\ w.home = t.home /\ w.revision = t.revision /\ w.seen = t.seen
          /\ w.req = t.req
      BY <2>1 DEF Left, Typed, Session
    <3>2. Kept(t)
      BY DEF Kept, Asks
    <3>3. Left(w)
      BY <2>1 DEF Left, Typed, Session, Page
    <3> QED BY <3>1, <3>2, <3>3, SameKept, SameBoard
  <2>2. \/ u \in PanelKey(t, "esc") \/ u = [t EXCEPT !.focus = 0]
        \/ \E f \in 1 .. 2 : u \in PanelKey([t EXCEPT !.focus = f], "enter")
    BY <1>1 DEF TableMouse
  <2>3. \A f \in 1 .. 2 : f \in Number
    BY PanelAssumption DEF Number
  <2>4. ASSUME NEW f \in 1 .. 2, u \in PanelKey([t EXCEPT !.focus = f], "enter") PROVE Kept(u)
    <3> DEFINE w == [t EXCEPT !.focus = f]
    <3>1. Left(w) /\ Held(w) /\ w.req.stage = "none" /\ (w.header \/ ~Hidden(w))
      BY <2>1, <2>3 DEF Kept
    <3>2. u \in PanelKey(w, "enter")
      BY <2>4
    <3> HIDE DEF w
    <3> QED BY <3>1, <3>2, PanelKeyKept
  <2>5. ASSUME u = [t EXCEPT !.focus = 0] PROVE Kept(u)
    BY <2>1, <2>5, Numbers
  <2>6. ASSUME u \in PanelKey(t, "esc") PROVE Kept(u)
    BY <2>6, PanelKeyKept
  <2> QED BY <2>2, <2>4, <2>5, <2>6
<1>2. CASE ~t.editing
  <2>1. \/ \E p \in DOMAIN Pages : u = ToPage(t, p)
        \/ \E i \in Items(t) : u \in Clicked(SelectItem(Unhidden(t), i))
    BY <1>2 DEF TableMouse
  <2>2. ASSUME NEW p \in DOMAIN Pages, u = ToPage(t, p) PROVE Kept(u)
    BY <1>2, <2>2, ToPageTyped, QuietKept DEF Left
  <2>3. ASSUME NEW i \in Items(t), u \in Clicked(SelectItem(Unhidden(t), i)) PROVE Kept(u)
    <3> DEFINE w == Unhidden(t)
               v == SelectItem(w, i)
    <3>1. /\ Left(w) /\ Page(w) = Page(t) /\ ~w.editing /\ w.req.stage = "none"
      BY <1>2, UnhiddenTyped, UnhiddenKept DEF Left
    <3>2. w.tab = t.tab /\ w.closed = t.closed
      BY DEF Unhidden, SelectItem, Left, Typed, Session
    <3>3. i \in Nat /\ i \div 2 \in DOMAIN Page(t) /\ (i % 2 # 0 => ~Folded(t, i \div 2))
      BY LinesAreRows DEF Left
    <3> HIDE DEF w
    <3>4. /\ Left(v) /\ ~v.editing /\ v.req.stage = "none" /\ v.header = (i % 2 = 0)
          /\ v.selected = i \div 2 /\ v.tab = t.tab /\ v.closed = t.closed
      <4>1. Typed(v) /\ v.req = w.req /\ v.selected = i \div 2
        BY <3>1, <3>3, SelectTyped DEF Left
      <4>2. v.editing = w.editing /\ v.tab = w.tab /\ v.closed = w.closed /\ v.header = (i % 2 = 0)
        BY <3>1 DEF SelectItem, Left, Typed, Session
      <4> QED BY <3>1, <3>2, <4>1, <4>2 DEF Left
    <3> HIDE DEF v
    <3>5. v.header \/ ~Hidden(v)
      <4>1. Folded(v, v.selected) = Folded(t, v.selected)
        BY <3>4, SameFolds
      <4>2. Hidden(v) => Folded(v, v.selected)
        BY DEF Hidden
      <4> QED BY <3>3, <3>4, <4>1, <4>2
    <3> QED BY <2>3, <3>4, <3>5, ClickedKept DEF v, w
  <2> QED BY <2>1, <2>2, <2>3
<1> QED BY <1>1, <1>2

\* Drawing the board moves the selection only if there is no draft on it.
LEMMA RenderKept ==
  ASSUME Late = FALSE, NEW t, Typed(t), Kept(t), NEW u \in Seen(t)
  PROVE  Kept(u) /\ Drawn(u)
<1>1. u = Render(t)
  BY DEF Seen
<1>2. CASE t.open /\ Hidden(t)
  <2>1. ~u.editing /\ u.req = t.req /\ (u = t \/ u.header)
    BY <1>1, <1>2, UnhiddenKept DEF Kept, Held, Render
  <2>2. Kept(u)
    BY <2>1 DEF Kept, Held, Asks
  <2>3. Drawn(u)
    <3>1. 2 * Section(t, t.selected) \in Nat /\ (2 * Section(t, t.selected)) % 2 = 0
      BY HeadingTyped DEF Typed
    <3>2. u = SelectItem(t, 2 * Section(t, t.selected))
      BY <1>1, <1>2 DEF Render, Unhidden
    <3>3. u.header
      BY <3>1, <3>2 DEF SelectItem, Typed, Session
    <3> QED BY <3>3 DEF Drawn
  <2> QED BY <2>2, <2>3
<1>3. CASE ~(t.open /\ Hidden(t))
  BY <1>1, <1>3 DEF Render, Unhidden, Drawn
<1> QED BY <1>2, <1>3

\* The device moves, and nobody's number changes under an unchanged revision.
LEMMA DeviceKept ==
  ASSUME NEW t, Typed(t), Kept(t), TypedDevice, TypedDevice',
         \A c \in Ids : /\ device[c].revision <= device'[c].revision
                        /\ device'[c].revision = device[c].revision =>
                             device'[c].number = device[c].number
  PROVE  Kept(t)'
<1>1. ASSUME NEW c \in Ids, NEW r \in Int, NEW n, Fresh(c, r, n) PROVE Fresh(c, r, n)'
  <2>1. device[c].revision \in Int /\ device'[c].revision \in Int
    BY DEF TypedDevice
  <2> QED BY <1>1, <2>1 DEF Fresh
<1>2. Held(t)'
  <2>1. ASSUME t.editing PROVE Fresh(t.home, t.revision, t.seen)'
    <3>1. t.home \in Ids /\ t.revision \in Int /\ Fresh(t.home, t.revision, t.seen)
      BY <2>1, SelectedIsRow DEF Kept, Held, Typed, Session
    <3> QED BY <1>1, <3>1
  <2> QED BY <2>1 DEF Held, Kept
<1>3. Asks(t)'
  <2>1. ASSUME t.req.stage # "none" PROVE Fresh(t.req.on, t.req.expected, t.req.seen)'
    <3>1. t.req.on \in Ids /\ t.req.expected \in Int /\ Fresh(t.req.on, t.req.expected, t.req.seen)
      BY <2>1 DEF Kept, Asks, Typed, Session, Request
    <3> QED BY <1>1, <3>1
  <2> QED BY <2>1 DEF Asks, Kept
<1> QED BY <1>2, <1>3 DEF Kept

\* What holds between any two calls of the panel.
Honest == TypeOK /\ Kept(s) /\ Drawn(s)

LEMMA StepHonest ==
  ASSUME Late = FALSE, Honest, Next PROVE Honest' /\ NoLostUpdate
<1>1. Typed(s) /\ TypedDevice /\ Kept(s) /\ Drawn(s)
  BY DEF Honest, TypeOK, Typed, TypedDevice
<1>2. TypeOK' /\ Typed(s') /\ TypedDevice'
  BY StepTyped DEF Honest, TypeOK, Typed, TypedDevice
<1>3. ASSUME Kept(s'), Drawn(s'), UNCHANGED device PROVE Honest' /\ NoLostUpdate
  <2>1. Kept(s)'
    BY <1>3 DEF Kept, Held, Asks, Fresh
  <2>2. NoLostUpdate
    BY <1>3 DEF NoLostUpdate
  <2> QED BY <1>2, <1>3, <2>1, <2>2 DEF Honest, Drawn
<1>4. Calm => Left(s) /\ s.req.stage = "none" /\ Held(s)
  BY <1>1 DEF Calm, Left, Kept
<1>5. ASSUME NEW p \in DOMAIN Pages, Open(p) PROVE Honest' /\ NoLostUpdate
  <2> DEFINE u == ToPage(EndEdit(s), p)
             v == [u EXCEPT !.open = TRUE]
  <2>1. Left(u) /\ ~u.editing /\ u.req.stage = "none"
    BY <1>4, <1>5, EndEditTyped, ToPageTyped DEF Open, Left
  <2>2. s' \in Seen(v) /\ UNCHANGED device
    BY <1>5 DEF Open
  <2> HIDE DEF u
  <2>3. Typed(v) /\ ~v.editing /\ v.req.stage = "none"
    BY <2>1 DEF Left, Typed, Session, Page
  <2> HIDE DEF v
  <2>4. Kept(s') /\ Drawn(s')
    BY <2>2, <2>3, QuietKept, RenderKept
  <2> QED BY <1>3, <2>2, <2>4
<1>6. ASSUME Input PROVE Honest' /\ NoLostUpdate
  <2>1. PICK t \in (UNION {PanelKey(s, key) : key \in PanelKeys}) \cup TableMouse(s) : s' \in Seen(t)
    BY <1>6, Zenon DEF Input
  <2>2. t \in TableMouse(s) \/ \E key \in PanelKeys : t \in PanelKey(s, key)
    BY <2>1
  <2>3. Left(s) /\ s.req.stage = "none" /\ Held(s) /\ (s.header \/ ~Hidden(s))
    BY <1>1, <1>4, <1>6 DEF Input, Drawn
  <2>4. Kept(t) /\ Typed(t)
    <3>1. ASSUME NEW key \in PanelKeys, t \in PanelKey(s, key) PROVE Kept(t) /\ Left(t)
      BY <1>1, <2>3, <3>1, PanelKeyKept, PanelKeyTyped
    <3>2. ASSUME t \in TableMouse(s) PROVE Kept(t) /\ Left(t)
      BY <1>1, <2>3, <3>2, MouseKept, MouseTyped
    <3> QED BY <2>2, <3>1, <3>2 DEF Left
  <2>5. Kept(s') /\ Drawn(s')
    BY <2>1, <2>4, RenderKept
  <2> QED BY <1>3, <1>6, <2>5 DEF Input
<1>7. ASSUME NEW i \in 1 .. 128, Select(i) PROVE Honest' /\ NoLostUpdate
  <2> DEFINE u == SelectItem(s, 2 * i + 1)
             C == s.closed \ {<<s.tab, Section(s, i)>>}
  <2>1. /\ Typed(u) /\ u.selected = i /\ u.tab = s.tab /\ u.closed = s.closed
        /\ u.editing = s.editing /\ u.req = s.req /\ u.open = s.open
    <3>1. 2 * i + 1 \in Nat /\ (2 * i + 1) \div 2 = i /\ i \in DOMAIN Page(s)
      BY <1>7, Halves DEF Select
    <3>2. Typed(u) /\ u.selected = i /\ u.req = s.req
      BY <1>1, <3>1, SelectTyped
    <3> QED BY <1>1, <3>2 DEF SelectItem, Typed, Session
  <2>2. s' = [u EXCEPT !.closed = C] /\ UNCHANGED device
    BY <1>7, <2>1 DEF Select, Typed, Session
  <2> HIDE DEF u
  <2>3. s'.selected = i /\ s'.tab = s.tab /\ s'.closed = C /\ ~s'.editing /\ s'.req.stage = "none"
    BY <1>4, <1>7, <2>1, <2>2 DEF Select, Typed, Session
  <2>4. Section(s', i) = Section(s, i)
    <3>1. {j \in 1 .. i : Begins(s', j)} = {j \in 1 .. i : Begins(s, j)}
      BY <2>3 DEF Begins, Page
    <3> QED BY <3>1 DEF Section
  <2>5. ~Hidden(s')
    BY <2>3, <2>4 DEF Hidden, Folded
  <2> QED BY <1>3, <2>2, <2>3, <2>5, QuietKept DEF Drawn
<1>8. ASSUME NEW c \in Ids, NEW n \in Number, SetCommand(c, n) PROVE Honest' /\ NoLostUpdate
  <2>1. s' = [s EXCEPT !.req = Ask(c, n)] /\ UNCHANGED device
    BY <1>8 DEF SetCommand
  <2>2. /\ s'.tab = s.tab /\ s'.selected = s.selected /\ s'.closed = s.closed /\ s'.header = s.header
        /\ s'.editing = s.editing /\ s'.open = s.open /\ s'.req = Ask(c, n) /\ ~s.editing
    BY <1>1, <1>8, <2>1 DEF Typed, Session, SetCommand
  <2>3. device[c].revision \in Int
    BY <1>1 DEF TypedDevice
  <2>4. Kept(s')
    BY <2>2, <2>3 DEF Kept, Held, Asks, Ask, Fresh
  <2>5. Drawn(s')
    BY <1>1, <2>2, SameBoard DEF Drawn
  <2> QED BY <1>3, <2>1, <2>4, <2>5
<1>9. ASSUME Check PROVE Honest' /\ NoLostUpdate
  <2>1. PICK q : s' = [s EXCEPT !.req = q]
    BY <1>9 DEF Check
  <2>2. s'.req = NoRequest \/ s'.req = [s.req EXCEPT !.stage = "write"]
    BY <1>1, <1>9 DEF Check, Typed, Session
  <2>3. /\ s'.tab = s.tab /\ s'.selected = s.selected /\ s'.closed = s.closed /\ s'.header = s.header
        /\ s'.editing = s.editing /\ s'.open = s.open /\ s'.home = s.home
        /\ s'.revision = s.revision /\ s'.seen = s.seen
    BY <1>1, <2>1 DEF Typed, Session
  <2>4. Held(s')
    BY <1>1, <2>3, SameBoard DEF Kept, Held
  <2>5. Asks(s')
    <3>1. s.req \in Request /\ s.req.stage # "none"
      BY <1>1, <1>9 DEF Check, Typed, Session
    <3> QED BY <1>1, <2>2, <3>1 DEF Kept, Asks, Request, NoRequest
  <2>6. Drawn(s')
    BY <1>1, <2>3, SameBoard DEF Drawn
  <2> QED BY <1>3, <1>9, <2>4, <2>5, <2>6 DEF Check, Kept
<1>10. ASSUME Write PROVE Honest' /\ NoLostUpdate
  <2> DEFINE c == s.req.on
  <2>1. /\ c \in Ids /\ Fresh(c, s.req.expected, s.req.seen)
        /\ device[c].revision \in Int
    BY <1>1, <1>10 DEF Write, Kept, Asks, TypedDevice
  <2>2. s' = [s EXCEPT !.req = NoRequest] \/ s' = [EndEdit(s) EXCEPT !.req = NoRequest]
    BY <1>10 DEF Write
  <2>3. Kept(s') /\ Drawn(s')
    <3>1. /\ s'.tab = s.tab /\ s'.selected = s.selected /\ s'.closed = s.closed /\ s'.header = s.header
          /\ s'.open = s.open /\ s'.req = NoRequest
      BY <1>1, <2>2 DEF Typed, Session, EndEdit
    <3>2. \/ ~s'.editing
          \/ /\ s'.editing = s.editing /\ s'.home = s.home
             /\ s'.revision = s.revision /\ s'.seen = s.seen
      BY <1>1, <2>2 DEF Typed, Session, EndEdit
    <3>3. Held(s')
      BY <1>1, <3>1, <3>2, SameBoard DEF Kept, Held
    <3> QED BY <1>1, <3>1, <3>3, SameBoard DEF Kept, Asks, NoRequest, Drawn
  <2>4. \/ UNCHANGED device
        \/ /\ device[c].revision = s.req.expected
           /\ \/ device' = [device EXCEPT ![c] = [number |-> s.req.number, ready |-> device[c].ready,
                                                  revision |-> device[c].revision + 1]]
              \/ device' = [device EXCEPT ![c].ready = FALSE]
    BY <1>10 DEF Write
  <2> HIDE DEF c
  <2>5. \A b \in Ids : /\ device[b].revision <= device'[b].revision
                       /\ device'[b].revision = device[b].revision => device'[b].number = device[b].number
                       /\ device'[b].number # device[b].number =>
                            b = c /\ device[c].revision = s.req.expected
    BY <1>1, <2>1, <2>4 DEF TypedDevice
  <2>6. NoLostUpdate
    BY <2>1, <2>5 DEF NoLostUpdate, Fresh, c
  <2>7. Kept(s)'
    <3>1. PICK t : t = s'
      OBVIOUS
    <3>2. Kept(t)'
      BY <1>1, <1>2, <2>3, <2>5, <3>1, DeviceKept
    <3> QED BY <3>1, <3>2 DEF Kept, Held, Asks, Fresh
  <2> QED BY <1>2, <2>3, <2>6, <2>7 DEF Honest, Drawn
<1>11. ASSUME NEW c \in Ids, DeviceMoves(c) PROVE Honest' /\ NoLostUpdate
  <2>1. PICK n \in Number, r \in BOOLEAN :
          device' = [device EXCEPT ![c] =
            [number |-> n, ready |-> r,
             revision |-> IF n = device[c].number THEN @.revision ELSE @.revision + 1]]
    BY <1>11 DEF DeviceMoves
  <2>2. UNCHANGED s
    BY <1>11 DEF DeviceMoves
  <2>3. \A b \in Ids : /\ device[b].revision <= device'[b].revision
                       /\ device'[b].revision = device[b].revision => device'[b].number = device[b].number
    BY <1>1, <2>1 DEF TypedDevice
  <2>4. Kept(s)'
    <3>1. PICK t : t = s
      OBVIOUS
    <3>2. Kept(t)'
      BY <1>1, <1>2, <2>3, <3>1, DeviceKept
    <3> QED BY <2>2, <3>1, <3>2 DEF Kept, Held, Asks, Fresh
  <2>5. NoLostUpdate
    <3>1. ~Write
      BY <1>1, <1>11, <2>2 DEF DeviceMoves, Write, Typed, Session, NoRequest, EndEdit
    <3> QED BY <3>1 DEF NoLostUpdate
  <2> QED BY <1>1, <1>2, <2>2, <2>4, <2>5 DEF Honest, Drawn
<1> HIDE DEF Honest, NoLostUpdate
<1> QED BY <1>5, <1>6, <1>7, <1>8, <1>9, <1>10, <1>11 DEF Next

LEMMA InitHonest == ASSUME Init PROVE Honest
<1>1. TypeOK /\ s.req.stage = "none" /\ ~s.editing /\ ~s.open
  BY InitTyped DEF Init
<1> QED BY <1>1, QuietKept DEF Honest, Drawn

LEMMA HonestInvariance ==
  ASSUME Late = FALSE PROVE PanelsSpec => [](part = "control" => Honest)
<1>1. PanelsInit => (part = "control" => Honest)
  BY InitHonest DEF PanelsInit
<1>2. (part = "control" => Honest) /\ [PanelsNext]_panelsVars => (part = "control" => Honest)'
  <2> SUFFICES ASSUME part = "control" => Honest, [PanelsNext]_panelsVars, part' = "control"
               PROVE  Honest'
    OBVIOUS
  <2>1. part = "control"
    BY DEF PanelsNext, panelsVars
  <2>2. Next \/ UNCHANGED vars
    BY <2>1 DEF PanelsNext, panelsVars
  <2>3. ASSUME UNCHANGED vars PROVE Honest'
    BY <2>1, <2>3 DEF vars, Honest, TypeOK, InRange, Kept, Held, Asks, Fresh, Drawn
  <2> QED BY <2>1, <2>2, <2>3, StepHonest
<1> QED BY <1>1, <1>2, PTL DEF PanelsSpec

\* Drawn before every key, the panel writes a draft to the control it was opened on.
THEOREM DraftsGoHome ==
  ASSUME Late = FALSE PROVE PanelsSpec => [](part = "control" => DraftGoesHome)
<1>1. Honest => DraftGoesHome
  BY DEF Honest, Kept, Asks, DraftGoesHome
<1> QED BY <1>1, HonestInvariance, PTL

-----------------------------------------------------------------------------
(* The environment manager.  What an edit makes of the text does not       *)
(* matter here, only that it leaves the saved text alone.                  *)

IsDocument(x) == DOMAIN x = {"text", "saved", "undo", "undoable", "revision"}
IsManager(w) == DOMAIN w = {"open", "page", "selected", "surface", "act", "filter"}

\* What holds between any two steps of the manager, of a save and of the others.
Safe ==
  /\ IsDocument(d) /\ IsManager(m)
  /\ job # "idle" => m.open
  /\ AlwaysOnScreen
  /\ m.surface \in {"panel", "editor"} => m.act # "close"
  /\ m.open /\ ~raced => disk = d.saved

LEMMA LoadedIs == \A t : IsDocument(Loaded(t)) /\ Loaded(t).saved = t /\ Loaded(t).text = t
BY DEF IsDocument, Loaded

LEMMA ClosedIs == IsManager(Closed) /\ ~Closed.open /\ Closed.act = "idle" /\ Closed.surface = "none"
BY DEF IsManager, Closed

LEMMA ShowIs ==
  ASSUME NEW doc, NEW w, IsManager(w)
  PROVE  /\ IsManager(Show(doc, w)) /\ Show(doc, w).open = w.open /\ Show(doc, w).act = w.act
         /\ Show(doc, w).surface = "panel"
BY DEF IsManager, Show

\* Every edit leaves the saved text alone.
LEMMA NoteEditKeeps ==
  ASSUME NEW x, IsDocument(x), NEW t
  PROVE  IsDocument(NoteEdit(x, t)) /\ NoteEdit(x, t).saved = x.saved
BY DEF IsDocument, NoteEdit

LEMMA ReplaceKeeps ==
  ASSUME NEW x, IsDocument(x), NEW a, NEW b, NEW new
  PROVE  IsDocument(Replace(x, a, b, new).d) /\ Replace(x, a, b, new).d.saved = x.saved
<1>1. Replace(x, a, b, new).d = x \/ \E t : Replace(x, a, b, new).d = NoteEdit(x, t)
  BY DEF Replace, Result
<1> QED BY <1>1, NoteEditKeeps

LEMMA UndoKeeps ==
  ASSUME NEW x, IsDocument(x) PROVE IsDocument(Undo(x).d) /\ Undo(x).d.saved = x.saved
<1>1. Undo(x).d = x \/ Undo(x).d = NoteEdit(x, x.undo)
  BY DEF Undo, Result
<1> QED BY <1>1, NoteEditKeeps

LEMMA SetValueKeeps ==
  ASSUME NEW x, IsDocument(x), NEW i, NEW v
  PROVE  IsDocument(SetValue(x, i, v).d) /\ SetValue(x, i, v).d.saved = x.saved
<1> DEFINE r == Records(x)[i]
           a == Replace(x, r.first, r.last, WithValue(Lines(x)[r.first], v))
<1>1. IsDocument(a.d) /\ a.d.saved = x.saved
  BY ReplaceKeeps
<1>2. SetValue(x, i, v).d \in {x, Undo(a.d).d, a.d}
  BY DEF SetValue, Result
<1> HIDE DEF a
<1> QED BY <1>1, <1>2, UndoKeeps

LEMMA ToggleKeeps ==
  ASSUME NEW x, IsDocument(x), NEW i
  PROVE  IsDocument(Toggle(x, i).d) /\ Toggle(x, i).d.saved = x.saved
<1>1. Toggle(x, i).d = x \/ \E a, b, new : Toggle(x, i).d = Replace(x, a, b, new).d
  BY DEF Toggle, Result
<1> QED BY <1>1, ReplaceKeeps

LEMMA MoveRecordKeeps ==
  ASSUME NEW x, IsDocument(x), NEW i, NEW down
  PROVE  IsDocument(MoveRecord(x, i, down).d) /\ MoveRecord(x, i, down).d.saved = x.saved
<1>1. MoveRecord(x, i, down).d = x \/ \E t : MoveRecord(x, i, down).d = NoteEdit(x, t)
  BY DEF MoveRecord, Result
<1> QED BY <1>1, NoteEditKeeps

\* What a step owes.
StepSafe == Safe' /\ NothingDiscarded /\ SaveIsOptimistic
Silent == said' \notin {"saved", "failed"}

\* The manager stays open, and the file is left alone.
LEMMA StaysOpen ==
  ASSUME Safe, m.open, Silent, IsDocument(d'), d'.saved = d.saved, IsManager(m'), m'.open,
         job' = "idle" => m'.surface # "none",
         m'.surface \in {"panel", "editor"} => m'.act # "close",
         UNCHANGED <<disk, raced>>
  PROVE  StepSafe
BY DEF StepSafe, Silent, Safe, AlwaysOnScreen, NothingDiscarded, SaveIsOptimistic, IsDocument, IsManager

\* It closes by the user's word, or without a change.
LEMMA Closes ==
  ASSUME Safe, Ready, Silent, CloseManager, said' = "Discard" \/ ~IsDirty(d) PROVE StepSafe
<1>1. /\ m' = Closed /\ d' = Loaded(Text(<<>>, TRUE)) /\ job' = job /\ job = "idle"
  BY DEF CloseManager, Ready
<1>2. IsDocument(d') /\ IsManager(m') /\ ~m'.open /\ m'.surface = "none"
  BY <1>1, LoadedIs, ClosedIs
<1>3. Safe'
  BY <1>1, <1>2 DEF Safe, AlwaysOnScreen, IsDocument, IsManager
<1> QED BY <1>3 DEF StepSafe, Silent, NothingDiscarded, SaveIsOptimistic

\* The panel is shown over an edited document.
LEMMA ShowsSafe ==
  ASSUME Safe, Ready, Silent, NEW doc, IsDocument(doc), doc.saved = d.saved,
         NEW w, IsManager(w), w.open, w.act # "close", Shows(doc, w)
  PROVE  StepSafe
<1>1. /\ m' = Show(doc, w) /\ d' = doc /\ UNCHANGED <<disk, raced>> /\ m.open
  BY DEF Shows, Files_, Ready
<1>2. IsManager(m') /\ m'.open /\ m'.act # "close" /\ m'.surface = "panel"
  BY <1>1, ShowIs
<1> QED BY <1>1, <1>2, StaysOpen

LEMMA AskForSafe ==
  ASSUME Safe, Ready, Silent, NEW w, IsManager(w), w.open, NEW action, AskFor(w, action)
  PROVE  StepSafe
<1>1. CASE Shows(d, [w EXCEPT !.act = "idle"])
  <2> DEFINE u == [w EXCEPT !.act = "idle"]
  <2>1. IsManager(u) /\ u.open /\ u.act # "close"
    BY DEF IsManager
  <2> HIDE DEF u
  <2>2. Shows(d, u)
    BY <1>1 DEF u
  <2> QED BY <2>1, <2>2, ShowsSafe DEF Safe
<1>2. CASE m' = [w EXCEPT !.surface = "form", !.act = action] /\ UNCHANGED <<d, e, job, Files_>>
  <2>1. IsManager(m') /\ m'.open /\ m'.surface = "form" /\ m.open /\ UNCHANGED <<disk, raced>>
    BY <1>2 DEF IsManager, Files_, Ready
  <2> QED BY <1>2, <2>1, StaysOpen DEF Safe
<1> QED BY <1>1, <1>2 DEF AskFor

LEMMA SaveSafe ==
  ASSUME Safe, Ready, Silent, NEW w, IsManager(w), w.open, Save(w) PROVE StepSafe
<1>1. CASE IsDirty(d)
  <2>1. /\ m' = [w EXCEPT !.surface = "none"] /\ UNCHANGED <<d, e, Files_>> /\ job' = "compare"
    BY <1>1 DEF Save
  <2>2. IsManager(m') /\ m'.open /\ m'.surface = "none" /\ m.open /\ UNCHANGED <<disk, raced>>
    BY <2>1 DEF IsManager, Files_, Ready
  <2> QED BY <2>1, <2>2, StaysOpen DEF Safe
<1>2. CASE ~IsDirty(d) /\ w.act = "close"
  BY <1>2, Closes DEF Save
<1>3. CASE ~IsDirty(d) /\ w.act # "close"
  <2> DEFINE u == [w EXCEPT !.act = "idle"]
  <2>1. IsManager(u) /\ u.open /\ u.act # "close"
    BY DEF IsManager
  <2>2. Shows(d, u)
    BY <1>3 DEF Save
  <2> HIDE DEF u
  <2> QED BY <2>1, <2>2, ShowsSafe DEF Safe
<1> QED BY <1>1, <1>2, <1>3

LEMMA ReloadSafe ==
  ASSUME Safe, Ready, Silent, NEW w, IsManager(w), w.open, Reload(w) PROVE StepSafe
<1> DEFINE u == [w EXCEPT !.act = "idle"]
           r == Replace(d, 1, Len(Lines(d)), disk.lines)
           doc == MarkSaved([r.d EXCEPT !.text = disk])
<1>1. IsManager(u) /\ u.open /\ u.act # "close" /\ m.open /\ job = "idle"
  BY DEF IsManager, Ready
<1>2. IsDocument(r.d) /\ r.d.saved = d.saved
  BY ReplaceKeeps DEF Safe
<1>3. ASSUME w.act # "reload" PROVE StepSafe
  BY <1>3, AskForSafe DEF Reload
<1>4. ASSUME Shows(d, u) PROVE StepSafe
  <2> HIDE DEF u
  <2> QED BY <1>1, <1>4, ShowsSafe DEF Safe
<1>5. ASSUME d' = (IF r.ok THEN doc ELSE d), m' = Show(d', u), raced' = (raced /\ ~r.ok),
             UNCHANGED <<e, job, disk, staging>>
      PROVE  StepSafe
  <2> HIDE DEF u, r
  <2>1. IsManager(m') /\ m'.open /\ m'.act # "close" /\ m'.surface = "panel"
    BY <1>1, <1>5, ShowIs
  <2>2. IsDocument(d') /\ (~raced' => disk' = d'.saved)
    <3>1. CASE r.ok
      <4>1. IsDocument(doc) /\ doc.saved = disk
        BY <1>2 DEF IsDocument, MarkSaved
      <4> HIDE DEF doc
      <4> QED BY <1>5, <3>1, <4>1
    <3>2. CASE ~r.ok
      BY <1>1, <1>5, <3>2 DEF Safe
    <3> QED BY <3>1, <3>2
  <2> HIDE DEF doc
  <2>3. Safe'
    BY <1>5, <2>1, <2>2 DEF Safe, AlwaysOnScreen, IsManager, IsDocument
  <2> QED BY <1>1, <2>1, <2>3 DEF StepSafe, NothingDiscarded, SaveIsOptimistic, Silent
<1>6. w.act = "reload" => \/ Shows(d, u)
                          \/ /\ d' = (IF r.ok THEN doc ELSE d) /\ m' = Show(d', u)
                             /\ raced' = (raced /\ ~r.ok) /\ UNCHANGED <<e, job, disk, staging>>
  BY DEF Reload
<1> HIDE DEF u, r, doc
<1> QED BY <1>3, <1>4, <1>5, <1>6

LEMMA DispatchSafe ==
  ASSUME Safe, Ready, Silent, NEW action \in Commands, Dispatch(action, m),
         m.act = "close" => action = "save" \/ (action = "close" /\ said' = "Discard")
  PROVE  StepSafe
<1>1. IsDocument(d) /\ IsManager(m) /\ m.open
  BY DEF Safe, Ready
<1>2. CASE action = "close"
  <2>1. (CloseManager /\ (m.act = "close" \/ ~IsDirty(d))) \/ AskFor(m, "close")
    BY <1>2 DEF Dispatch
  <2> QED BY <1>1, <1>2, <2>1, Closes, AskForSafe
<1>3. CASE action = "save"
  BY <1>1, <1>3, SaveSafe DEF Dispatch
<1>4. CASE action = "reload"
  BY <1>1, <1>4, ReloadSafe DEF Dispatch
<1>5. CASE action = "record"
  <2>1. EditRecord(m) /\ m.act # "close"
    BY <1>5 DEF Dispatch
  <2>2. CASE Shows(d, m)
    BY <1>1, <2>1, <2>2, ShowsSafe
  <2>3. CASE m' = [m EXCEPT !.surface = "editor"] /\ UNCHANGED <<d, job, Files_>>
    <3>1. IsManager(m') /\ m'.open /\ m'.surface = "editor" /\ m'.act # "close" /\ UNCHANGED <<disk, raced>>
      BY <1>1, <2>1, <2>3 DEF IsManager, Files_
    <3> QED BY <1>1, <2>3, <3>1, StaysOpen
  <2> QED BY <2>1, <2>2, <2>3 DEF EditRecord
<1>6. CASE action \in {"search", "add", "delete"}
  <2>1. AskFor(m, action)
    BY <1>6 DEF Dispatch
  <2> QED BY <1>1, <2>1, AskForSafe
<1>7. CASE action = "undo"
  <2>1. Shows(Undo(d).d, m) /\ m.act # "close"
    BY <1>7 DEF Dispatch
  <2> QED BY <1>1, <2>1, UndoKeeps, ShowsSafe
<1>8. CASE action = "toggle"
  <2>1. Shows(Toggle(d, m.selected).d, m) /\ m.act # "close"
    BY <1>8 DEF Dispatch
  <2> QED BY <1>1, <2>1, ToggleKeeps, ShowsSafe
<1>9. CASE action \in {"up", "down"}
  <2> DEFINE r == MoveRecord(d, m.selected, action = "down")
             w == IF ~r.ok THEN m ELSE [m EXCEPT !.selected = IF action = "up" THEN @ - 1 ELSE @ + 1]
  <2>1. IsDocument(r.d) /\ r.d.saved = d.saved
    BY <1>1, MoveRecordKeeps
  <2>2. Shows(r.d, w) /\ m.act # "close"
    BY <1>9 DEF Dispatch
  <2>3. IsManager(w) /\ w.open /\ w.act # "close"
    BY <1>1, <2>2 DEF IsManager
  <2> HIDE DEF r, w
  <2> QED BY <2>1, <2>2, <2>3, ShowsSafe
<1> QED BY <1>2, <1>3, <1>4, <1>5, <1>6, <1>7, <1>8, <1>9 DEF Commands

\* The record editor has the terminal, or it gives it back to the panel.
LEMMA ReturnsSafe ==
  ASSUME Safe, OnEditor, Silent, IsDocument(d'), d'.saved = d.saved, UNCHANGED <<job, Files_>>,
         Returned \/ UNCHANGED m
  PROVE  StepSafe
<1>1. m.open /\ m.act # "close" /\ IsManager(m) /\ m.surface = "editor" /\ UNCHANGED <<disk, raced>>
  BY DEF Safe, OnEditor, Ready, Files_
<1>2. CASE Returned
  <2>1. IsManager(m') /\ m'.open /\ m'.act # "close" /\ m'.surface = "panel"
    BY <1>1, <1>2, ShowIs DEF Returned
  <2> QED BY <1>1, <2>1, StaysOpen
<1>3. CASE UNCHANGED m
  BY <1>1, <1>3, StaysOpen
<1> QED BY <1>2, <1>3

\* A save that fails gives the panel back and leaves the text and the file alone.
LEMMA FailSafe ==
  ASSUME Safe, job # "idle", Fail, job = "stage" => UNCHANGED staging PROVE StepSafe
<1> DEFINE u == Idle
<1>1. IsManager(u) /\ u.open /\ u.act # "close"
  BY DEF Safe, Idle, IsManager
<1>2. m' = Show(d, u) /\ job' = "idle" /\ said' = "failed" /\ UNCHANGED <<d, disk, raced>>
  BY DEF Fail, Say
<1> HIDE DEF u
<1>3. IsManager(m') /\ m'.open /\ m'.act # "close" /\ m'.surface = "panel"
  BY <1>1, <1>2, ShowIs
<1>4. Safe'
  BY <1>2, <1>3 DEF Safe, AlwaysOnScreen, IsDocument, IsManager
<1> QED BY <1>2, <1>3, <1>4 DEF StepSafe, NothingDiscarded, SaveIsOptimistic

\* Going on with a save.
LEMMA GoSafe ==
  ASSUME Safe, job # "idle", NEW next \in {"stage", "recheck", "rename"}, Go(next),
         UNCHANGED raced \/ (Same /\ raced' = FALSE)
  PROVE  StepSafe
<1>1. job' = next /\ said' = "" /\ UNCHANGED <<d, m, disk>>
  BY DEF Go, Say
<1>2. Safe'
  BY <1>1 DEF Safe, AlwaysOnScreen, Same, IsDocument, IsManager
<1> QED BY <1>1, <1>2 DEF StepSafe, NothingDiscarded, SaveIsOptimistic

LEMMA RenameSafe ==
  ASSUME Safe, SaveRename PROVE StepSafe
<1>1. CASE Fail
  BY <1>1, FailSafe DEF SaveRename
<1>2. CASE /\ disk' = d.text /\ job' = "idle" /\ Say("saved") /\ raced' = FALSE
           /\ d' = MarkSaved(d)
           /\ m' = IF m.act = "close" THEN Closed ELSE Show(d', Idle)
  <2> DEFINE u == Idle
  <2>1. IsManager(u) /\ u.open /\ u.act # "close"
    BY DEF Safe, Idle, IsManager, SaveRename
  <2>2. IsDocument(d') /\ d'.saved = d.text /\ d'.text = d.text
    BY <1>2 DEF Safe, MarkSaved, IsDocument
  <2>3. m' = Closed \/ m' = Show(d', u)
    BY <1>2
  <2> HIDE DEF u
  <2>4. IsManager(m') /\ m'.act # "close" /\ (m'.open => m'.surface = "panel")
    BY <2>1, <2>3, ShowIs, ClosedIs
  <2>5. Safe'
    BY <1>2, <2>2, <2>4 DEF Safe, AlwaysOnScreen, IsDocument, IsManager
  <2>6. disk = d.saved \/ raced
    BY DEF Safe, SaveRename
  <2> QED BY <1>2, <2>5, <2>6 DEF StepSafe, NothingDiscarded, SaveIsOptimistic, Say
<1> QED BY <1>1, <1>2 DEF SaveRename

LEMMA EnvStepSafe == ASSUME Safe, EnvNext PROVE StepSafe
<1>0. IsDocument(d) /\ IsManager(m)
  BY DEF Safe
<1>1. ASSUME OpenFile PROVE StepSafe
  <2>1. PICK k : m' = Show(d', [[Closed EXCEPT !.open = TRUE] EXCEPT !.selected = k])
    BY <1>1 DEF OpenFile
  <2> DEFINE w == [[Closed EXCEPT !.open = TRUE] EXCEPT !.selected = k]
  <2>2. IsManager(w) /\ w.act = "idle"
    BY DEF IsManager, Closed
  <2> HIDE DEF w
  <2>3. IsManager(m') /\ m'.act # "close" /\ m'.surface = "panel"
    <3>1. m' = Show(d', w)
      BY <2>1 DEF w
    <3> QED BY <2>2, <3>1, ShowIs
  <2>4. /\ d' = Loaded(disk) /\ ~m.open /\ said' = "" /\ UNCHANGED <<disk, job>> /\ job = "idle"
    BY <1>1 DEF OpenFile, Say, Safe
  <2>5. IsDocument(d') /\ d'.saved = disk
    BY <2>4, LoadedIs
  <2>6. Safe'
    BY <2>3, <2>4, <2>5 DEF Safe, AlwaysOnScreen, IsDocument, IsManager
  <2> QED BY <2>4, <2>6 DEF StepSafe, NothingDiscarded, SaveIsOptimistic
<1>2. ASSUME NEW a \in Commands, Press(a) PROVE StepSafe
  <2>1. Ready /\ Silent /\ m.act # "close" /\ Dispatch(a, m)
    BY <1>2 DEF Press, OnPanel, Safe, Silent, Say
  <2> QED BY <2>1, DispatchSafe
<1>3. ASSUME NEW i, SelectRow(i) PROVE StepSafe
  <2>1. /\ m' = [m EXCEPT !.selected = i] /\ Silent /\ m.open /\ m.surface = "panel"
        /\ UNCHANGED <<d, disk, raced>>
    BY <1>3 DEF SelectRow, OnPanel, Ready, Silent, Say, Files_
  <2>2. IsManager(m') /\ m'.open /\ m'.surface = "panel" /\ m'.act # "close"
    BY <1>0, <2>1 DEF IsManager, Safe
  <2> QED BY <1>0, <2>1, <2>2, StaysOpen
<1>4. ASSUME SwitchPage PROVE StepSafe
  <2>1. PICK k : m' = Show(d, [m EXCEPT !.page = k])
    BY <1>4 DEF SwitchPage
  <2> DEFINE w == [m EXCEPT !.page = k]
  <2>2. IsManager(w) /\ w.open /\ w.act # "close"
    BY <1>0, <1>4 DEF IsManager, SwitchPage, OnPanel, Ready, Safe
  <2>3. m' = Show(d, w)
    BY <2>1
  <2> HIDE DEF w
  <2>4. IsManager(m') /\ m'.open /\ m'.act # "close" /\ m'.surface = "panel"
    BY <2>2, <2>3, ShowIs
  <2>5. Silent /\ m.open /\ UNCHANGED <<d, disk, raced>>
    BY <1>4 DEF SwitchPage, OnPanel, Ready, Silent, Say, Files_
  <2> QED BY <1>0, <2>4, <2>5, StaysOpen
<1>5. ASSUME NEW v, WriteControl(v) PROVE StepSafe
  <2>1. Ready /\ Silent /\ m.act # "close" /\ m.open /\ Shows(SetValue(d, m.selected, v).d, m)
    BY <1>5 DEF WriteControl, OnPanel, Ready, Safe, Silent, Say
  <2> QED BY <1>0, <2>1, SetValueKeeps, ShowsSafe
<1>6. IsManager(Idle) /\ Idle.open = m.open /\ Idle.act # "close"
  BY <1>0 DEF Idle, IsManager
<1>7. ASSUME Cancel PROVE StepSafe
  BY <1>0, <1>6, <1>7, ShowsSafe DEF Cancel, Ready, Silent, Say
<1>8. ASSUME NEW choice \in {"Keep editing", "Save", "Discard"}, AnswerClose(choice) PROVE StepSafe
  <2>1. Ready /\ Silent /\ said' = choice
    BY <1>8 DEF AnswerClose, OnForm, Silent, Say
  <2>2. CASE choice = "Keep editing"
    <3>1. Shows(d, Idle)
      BY <1>8, <2>2 DEF AnswerClose
    <3> QED BY <1>0, <1>6, <2>1, <3>1, ShowsSafe DEF Ready
  <2>3. CASE choice = "Save"
    <3>1. Dispatch("save", m)
      BY <1>8, <2>3 DEF AnswerClose
    <3> QED BY <2>1, <3>1, DispatchSafe DEF Commands
  <2>4. CASE choice = "Discard"
    <3>1. Dispatch("close", m)
      BY <1>8, <2>4 DEF AnswerClose
    <3> QED BY <2>1, <2>4, <3>1, DispatchSafe DEF Commands
  <2> QED BY <2>2, <2>3, <2>4
<1>9. ASSUME AnswerDelete PROVE StepSafe
  <2>1. Ready /\ Silent /\ m.open
    BY <1>9 DEF AnswerDelete, OnForm, Ready, Silent, Say
  <2>2. PICK a, b : Shows(Replace(d, a, b, <<>>).d, Idle)
    BY <1>9 DEF AnswerDelete
  <2> DEFINE doc == Replace(d, a, b, <<>>).d
  <2>3. IsDocument(doc) /\ doc.saved = d.saved
    BY <1>0, ReplaceKeeps
  <2>4. Shows(doc, Idle)
    BY <2>2
  <2> HIDE DEF doc
  <2> QED BY <1>6, <2>1, <2>3, <2>4, ShowsSafe
<1>10. ASSUME AnswerReload PROVE StepSafe
  <2>1. Ready /\ Silent /\ m.act = "reload" /\ Dispatch("reload", m)
    BY <1>10 DEF AnswerReload, OnForm, Silent, Say
  <2> QED BY <2>1, DispatchSafe DEF Commands
<1>11. ASSUME NEW q, Search(q) PROVE StepSafe
  <2>1. PICK k : Shows(d, [Idle EXCEPT !.filter = q, !.selected = k])
    BY <1>11 DEF Search
  <2> DEFINE w == [Idle EXCEPT !.filter = q, !.selected = k]
  <2>2. Ready /\ Silent /\ m.open
    BY <1>11 DEF Search, OnForm, Ready, Silent, Say
  <2>3. IsManager(w) /\ w.open /\ w.act # "close"
    BY <1>6, <2>2 DEF IsManager
  <2>4. Shows(d, w)
    BY <2>1
  <2> HIDE DEF w
  <2> QED BY <1>0, <2>2, <2>3, <2>4, ShowsSafe
<1>12. ASSUME NEW k, NEW v, Add(k, v) PROVE StepSafe
  <2> DEFINE n == Len(Lines(d))
             x == [d EXCEPT !.text.final = TRUE]
             a == Replace(x, n + 1, n, <<Line("plain", k, v)>>)
             doc == [a.d EXCEPT !.undo = d.text]
             w == [Idle EXCEPT !.selected = Len(Records(doc))]
  <2>1. Ready /\ Silent /\ m.open
    BY <1>12 DEF Add, OnForm, Ready, Silent, Say
  <2>2. Shows(doc, w) \/ Shows(d, Idle)
    BY <1>12 DEF Add
  <2>3. IsDocument(x) /\ x.saved = d.saved
    BY <1>0 DEF IsDocument
  <2>4. IsDocument(a.d) /\ a.d.saved = d.saved
    <3> HIDE DEF x
    <3> QED BY <2>3, ReplaceKeeps
  <2> HIDE DEF a
  <2>5. IsDocument(doc) /\ doc.saved = d.saved
    BY <2>4 DEF IsDocument
  <2> HIDE DEF doc
  <2>6. IsManager(w) /\ w.open /\ w.act # "close"
    BY <1>6, <2>1 DEF IsManager
  <2> HIDE DEF w
  <2> QED BY <1>0, <1>6, <2>1, <2>2, <2>5, <2>6, ShowsSafe
<1>13. ASSUME NEW t, TypeRecord(t) PROVE StepSafe
  BY <1>0, <1>13, ReturnsSafe DEF TypeRecord, Silent, Say
<1>14. ASSUME SaveRecord PROVE StepSafe
  <2>1. IsDocument(d') /\ d'.saved = d.saved
    BY <1>0, <1>14, ReplaceKeeps DEF SaveRecord, Saved
  <2>2. OnEditor /\ Silent /\ UNCHANGED <<job, Files_>> /\ (Returned \/ UNCHANGED m)
    BY <1>14 DEF SaveRecord, Silent, Say
  <2> QED BY <2>1, <2>2, ReturnsSafe
<1>15. ASSUME LeaveRecord PROVE StepSafe
  BY <1>0, <1>15, ReturnsSafe DEF LeaveRecord, Silent, Say
<1>16. ASSUME NEW discard \in BOOLEAN, AnswerRecord(discard) PROVE StepSafe
  BY <1>0, <1>16, ReturnsSafe DEF AnswerRecord, Silent, Say
<1>17. ASSUME SaveCompare \/ SaveStage \/ SaveRecheck PROVE StepSafe
  <2>1. CASE SaveCompare
    BY <2>1, FailSafe, GoSafe DEF SaveCompare
  <2>2. CASE SaveStage
    BY <2>2, FailSafe, GoSafe DEF SaveStage
  <2>3. CASE SaveRecheck
    BY <2>3, FailSafe, GoSafe DEF SaveRecheck
  <2> QED BY <1>17, <2>1, <2>2, <2>3
<1>18. ASSUME SaveRename PROVE StepSafe
  BY <1>18, RenameSafe
<1>19. ASSUME External \/ RemoveStaging PROVE StepSafe
  <2>1. UNCHANGED <<d, m, job>> /\ said' = "" /\ (raced' = m.open \/ UNCHANGED <<disk, raced>>)
    BY <1>19 DEF External, RemoveStaging, Say
  <2>2. Safe'
    BY <2>1 DEF Safe, AlwaysOnScreen, IsDocument, IsManager
  <2> QED BY <2>1, <2>2 DEF StepSafe, NothingDiscarded, SaveIsOptimistic
<1>20. ASSUME Crash PROVE StepSafe
  <2>1. m' = Closed /\ d' = Loaded(Text(<<>>, TRUE)) /\ job' = "idle" /\ said' = "crash"
    BY <1>20 DEF Crash, Say
  <2>2. IsDocument(d') /\ IsManager(m') /\ ~m'.open /\ m'.surface = "none"
    BY <2>1, LoadedIs, ClosedIs
  <2>3. Safe'
    BY <2>1, <2>2 DEF Safe, AlwaysOnScreen, IsDocument, IsManager
  <2> QED BY <2>1, <2>3 DEF StepSafe, NothingDiscarded, SaveIsOptimistic
<1> HIDE DEF Safe, StepSafe
<1> QED BY <1>1, <1>2, <1>3, <1>4, <1>5, <1>7, <1>8, <1>9, <1>10, <1>11, <1>12, <1>13, <1>14,
           <1>15, <1>16, <1>17, <1>18, <1>19, <1>20 DEF EnvNext

LEMMA EnvInitSafe == ASSUME EnvInit PROVE Safe
<1>1. d = Loaded(Text(<<>>, TRUE)) /\ m = Closed /\ job = "idle"
  BY DEF EnvInit
<1>2. IsDocument(d) /\ IsManager(m) /\ ~m.open /\ m.surface = "none"
  BY <1>1, LoadedIs, ClosedIs
<1> QED BY <1>1, <1>2 DEF Safe, AlwaysOnScreen

LEMMA SafeInvariance == PanelsSpec => [](part = "env" => Safe)
<1>1. PanelsInit => (part = "env" => Safe)
  BY EnvInitSafe DEF PanelsInit
<1>2. (part = "env" => Safe) /\ [PanelsNext]_panelsVars => (part = "env" => Safe)'
  <2> SUFFICES ASSUME part = "env" => Safe, [PanelsNext]_panelsVars, part' = "env" PROVE Safe'
    OBVIOUS
  <2>1. part = "env"
    BY DEF PanelsNext, panelsVars
  <2>2. EnvNext \/ UNCHANGED envVars
    BY <2>1 DEF PanelsNext, panelsVars
  <2>3. ASSUME UNCHANGED envVars PROVE Safe'
    BY <2>1, <2>3 DEF envVars, Safe, AlwaysOnScreen, IsDocument, IsManager
  <2>4. StepSafe => Safe'
    BY DEF StepSafe
  <2> QED BY <2>1, <2>2, <2>3, <2>4, EnvStepSafe
<1> QED BY <1>1, <1>2, PTL DEF PanelsSpec

\* A changed environment is lost by the user's word only; the status line says Saved
\* only of what the file holds; and there is always a surface to act on.
THEOREM NothingIsEverLost == PanelsSpec => NothingIsLost
<1> DEFINE Step == part = "env" => NothingDiscarded /\ AlwaysOnScreen' /\ SavedIsOnDisk'
<1>1. (part = "env" => Safe) /\ [PanelsNext]_panelsVars => [Step]_panelsVars
  <2> SUFFICES ASSUME part = "env", Safe, PanelsNext PROVE Step
    BY DEF Step
  <2>1. StepSafe
    BY EnvStepSafe DEF PanelsNext
  <2>2. Safe' => AlwaysOnScreen' /\ SavedIsOnDisk'
    BY DEF Safe, SavedIsOnDisk, IsDirty
  <2> QED BY <2>1, <2>2 DEF StepSafe
<1> QED BY <1>1, SafeInvariance, PTL DEF PanelsSpec, NothingIsLost

\* A write to the device replaces the number its author saw, and a save the file that
\* was compared: what another party did meanwhile is not overwritten.
THEOREM NothingIsOverwritten ==
  ASSUME Late = FALSE PROVE PanelsSpec => NothingOverwritten
<1> DEFINE Step == /\ part = "control" => NoLostUpdate
                   /\ part = "env" => SaveIsOptimistic
<1>1. (part = "control" => Honest) /\ (part = "env" => Safe) /\ [PanelsNext]_panelsVars
      => [Step]_panelsVars
  <2> SUFFICES ASSUME part = "control" => Honest, part = "env" => Safe, PanelsNext PROVE Step
    BY DEF Step
  <2>1. ASSUME part = "control" PROVE NoLostUpdate
    BY <2>1, StepHonest DEF PanelsNext
  <2>2. ASSUME part = "env" PROVE SaveIsOptimistic
    BY <2>2, EnvStepSafe DEF PanelsNext, StepSafe
  <2> QED BY <2>1, <2>2
<1> QED BY <1>1, HonestInvariance, SafeInvariance, PTL DEF PanelsSpec, NothingOverwritten
=============================================================================
