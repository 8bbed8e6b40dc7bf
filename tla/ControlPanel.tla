----------------------------- MODULE ControlPanel -----------------------------
(***************************************************************************)
(* The attached control panel of src/portable_controls.inc: rows that show *)
(* the state of a device the session does not own, folded in sections, and *)
(* drafts of new values for them.                                          *)
(*                                                                         *)
(* The device moves by itself.  A key handler reads a control once or      *)
(* twice and then asks the device to write against a revision; the device  *)
(* may move between any two of these calls, so a request is checked and    *)
(* written in steps of its own.  The session takes no other key meanwhile. *)
(*                                                                         *)
(* Drawing the board moves the selection out of folded sections.  It is    *)
(* drawn at the end of a chunk of input and, at most every 100 ms, by      *)
(* ps_tick: "Late" says whether keys may come before.                      *)
(***************************************************************************)
EXTENDS Integers, Sequences, FiniteSetsExt

CONSTANTS Pages,        \* pages of rows [group, kind, minimum, maximum, step]
          Width,        \* unsigned numbers are below this
          MaxMoves,     \* bound: how often the controls move, in all
          Late          \* whether a key may come before the last change is drawn

Ids == {c \in (DOMAIN Pages) \X (1 .. 128) : c[2] \in DOMAIN Pages[c[1]]}
Row(c) == Pages[c[1]][c[2]]
Number == 0 .. Width - 1

\* What ps_panel_attach accepts, of pages that are not empty.
Rows == [group : STRING, kind : {"toggle", "level", "choice", "action"},
         minimum : Number, maximum : Number, step : Number]
ASSUME PanelAssumption ==
  /\ Width \in Nat /\ Width > 2 /\ MaxMoves \in Nat /\ Late \in BOOLEAN
  /\ Pages \in Seq(Seq(Rows)) \ {<<>>}
  /\ \A p \in DOMAIN Pages : Len(Pages[p]) \in 1 .. 128
  /\ \A c \in Ids :
       /\ Row(c).kind = "level" => Row(c).minimum < Row(c).maximum /\ Row(c).step # 0
       /\ Row(c).kind = "toggle" => Row(c).minimum = 0 /\ Row(c).maximum = 1
       /\ Row(c).kind = "choice" => Row(c).minimum = 0

VARIABLES
  s,       \* the session, as the fields the panel's handlers test and set
  device   \* number and revision of each control, and whether it may be written:
           \* known, not waiting for a readback and not locked

vars == <<s, device>>

Nowhere == <<0, 0>>
NoRequest == [stage |-> "none", draft |-> FALSE, on |-> Nowhere, number |-> 0,
              expected |-> 0, home |-> Nowhere, seen |-> 0]

\* A draft whose text is no number.
NotANumber == Width

\* The history of a draft and of its request: the control it was opened on ("home")
\* and the number that control showed ("seen").
Request == [stage : {"none", "check", "write"}, draft : BOOLEAN, on : Ids \cup {Nowhere},
            number : Number, expected : Nat,
            home : Ids \cup {Nowhere}, seen : Number]
Session == [open : BOOLEAN, tab : DOMAIN Pages, selected : 1 .. 128, header : BOOLEAN,
            closed : SUBSET Ids, editing : BOOLEAN, dialog : BOOLEAN, focus : Number,
            draft : Number \cup {NotANumber}, revision : Nat,
            home : Ids \cup {Nowhere}, seen : Number, req : Request]

-----------------------------------------------------------------------------
\* Sections.  A row belongs to the section of the last row that begins one.
Page(t) == Pages[t.tab]
Begins(t, i) == i = 1 \/ Page(t)[i].group # Page(t)[i - 1].group
Section(t, i) == Max({j \in 1 .. i : Begins(t, j)})
Folded(t, i) == Page(t)[i].group # "" /\ <<t.tab, Section(t, i)>> \in t.closed

\* The lines of the board in order: 2i is the heading above row i, 2i + 1 the row.
Items(t) == {2 * i : i \in {j \in DOMAIN Page(t) : Begins(t, j) /\ Page(t)[j].group # ""}}
            \cup {2 * i + 1 : i \in {j \in DOMAIN Page(t) : ~Folded(t, j)}}
Position(t) == 2 * t.selected + IF t.header THEN 0 ELSE 1
SelectItem(t, item) == [t EXCEPT !.selected = item \div 2, !.header = item % 2 = 0]

\* control_items moves a selection that a folded section hides to its heading.
Hidden(t) == t.selected \in {i \in DOMAIN Page(t) : Folded(t, i)}
Unhidden(t) == IF Hidden(t)
               THEN SelectItem(t, 2 * Section(t, t.selected)) ELSE t

\* control_selected.
Selected(t) == IF t.header THEN Nowhere ELSE <<t.tab, t.selected>>

\* (Mutation: the row is kept.)
ToPageSameRow(t, p) == [t EXCEPT !.tab = p, !.header = FALSE]
ToPage(t, p) == [t EXCEPT !.tab = p, !.selected = 1, !.header = FALSE]

-----------------------------------------------------------------------------
\* control_read and control_writable; a level out of its range counts as unknown.
InRange(c, n) == Row(c).kind = "action" \/ n \in Row(c).minimum .. Row(c).maximum
Writable(c) == device[c].ready /\ InRange(c, device[c].number)

\* control_begin.
Begin(t, c, dialog) ==
  IF ~Writable(c) THEN t
  ELSE LET action == Row(c).kind = "action" IN
       [t EXCEPT !.editing = TRUE, !.draft = device[c].number,
                 !.revision = device[c].revision,
                 !.dialog = dialog \/ action, !.focus = IF action THEN 2 ELSE 0,
                 !.home = c, !.seen = device[c].number]

\* The revision a draft is written against.  (Mutation: the latest one.)
ExpectedLatest(t, c) == device[c].revision
Expected(t, c) == t.revision

\* control_commit is called with a draft, or with a number made from the one observed.
Ask(c, number) ==
  [stage |-> "check", draft |-> FALSE, on |-> c, number |-> number,
   expected |-> device[c].revision, home |-> c, seen |-> device[c].number]
AskDraft(t, c, number) ==
  [stage |-> "check", draft |-> TRUE, on |-> c, number |-> number,
   expected |-> Expected(t, c), home |-> t.home, seen |-> t.seen]

\* What only a draft reads, or only an open panel, is set again when one opens; here it
\* is cleared when it ends.
EndEdit(t) == [t EXCEPT !.editing = FALSE, !.dialog = FALSE, !.focus = 0, !.draft = 0,
                        !.revision = 0, !.home = Nowhere, !.seen = 0]
TableClose(t) == [ToPage(EndEdit(t), 1) EXCEPT !.open = FALSE]

\* A level one step down, in unsigned arithmetic.  (Mutation: what is left of the range
\* is not compared with the step.)
LoweredWrapped(n, r) == (n - r.step) % Width
Lowered(n, r) == IF (n - r.minimum) % Width < r.step THEN r.minimum ELSE (n - r.step) % Width
Raised(n, r) == IF n + r.step < r.maximum THEN n + r.step ELSE r.maximum

\* What a key makes of the number of a control that is not being edited.
Adjusted(n, r, key) ==
  CASE key = "home"                              -> r.minimum
    [] key = "end"                               -> r.maximum
    [] key = "left"  /\ r.kind = "level"         -> Lowered(n, r)
    [] key = "right" /\ r.kind = "level"         -> Raised(n, r)
    [] key = "left"  /\ r.kind = "toggle"        -> 0
    [] key = "right" /\ r.kind = "toggle"        -> 1
    [] key = "enter" /\ r.kind = "toggle"        -> 1 - n
    [] key = "left"  /\ r.kind = "choice"        -> (n + r.maximum) % (r.maximum + 1)
    [] OTHER                                     -> (n + 1) % (r.maximum + 1)

Adjust(t, c, number) == IF Writable(c) THEN [t EXCEPT !.req = Ask(c, number)] ELSE t

-----------------------------------------------------------------------------
\* PanelKeys while a draft is open.  A dialog's focus is on the draft (0), Apply or Cancel; an
\* action has no draft, but a click can put the focus there and Shift-Tab below it.
EditKey(t, c, key) ==
  LET first == IF Row(c).kind = "action" THEN 1 ELSE 0
      number == IF Row(c).kind = "action" THEN 0 ELSE t.draft
      cancels == t.dialog /\ t.focus = 2
  IN CASE key = "esc" -> {EndEdit(t)}
       [] key = "tab" /\ t.dialog ->
            {[t EXCEPT !.focus = IF @ = 2 THEN first ELSE (@ + 1) % Width]}
       [] key = "backtab" /\ t.dialog ->
            {[t EXCEPT !.focus = IF @ = first THEN 2 ELSE (@ - 1) % Width]}
       [] key = "enter" -> IF cancels THEN {EndEdit(t)} ELSE IF number = NotANumber THEN {t}
                           ELSE {[t EXCEPT !.req = AskDraft(t, c, number)]}
       [] key \in {"left", "right"} /\ t.focus # 0 ->
            {[t EXCEPT !.focus = IF @ = 1 THEN 2 ELSE 1]}
       [] key = "letter" /\ t.focus = 0 ->
            {[t EXCEPT !.draft = d] : d \in Number \cup {NotANumber}}
       [] OTHER -> {t}

\* control_navigate: the heading's own keys, and movement to the next line, to the
\* previous, or by a screen, which holds the whole panel.
Fold(t, key) ==
  LET mark == <<t.tab, t.selected>> IN
  [t EXCEPT !.closed = IF key = "right" \/ (key # "left" /\ mark \in @)
                       THEN @ \ {mark} ELSE @ \cup {mark}]
Beyond(t, key) == {i \in Items(t) : IF key = "down" THEN i > Position(t) ELSE i < Position(t)}
Move(t, key) ==
  IF key \in {"up", "down"} /\ Beyond(t, key) = {} THEN t
  ELSE SelectItem(t, CASE key = "pageup"   -> Min(Items(t))
                       [] key = "pagedown" -> Max(Items(t))
                       [] key = "down"     -> Min(Beyond(t, key))
                       [] OTHER            -> Max(Beyond(t, key)))

\* PanelKeys of the row c, found before control_navigate moved the selection.
RowKey(t, c, key) ==
  LET kind == Row(c).kind IN
  IF key = "f2" \/ (key = "enter" /\ kind \in {"level", "action"}) THEN Begin(t, c, key = "f2")
  ELSE IF kind # "action" /\ key \in {"left", "right", "home", "end", "enter"}
  THEN Adjust(t, c, Adjusted(device[c].number, Row(c), key))
  ELSE t

\* A draft takes the keys as long as a row is selected.  (Mutation: all
\* but those that move the selection.)
TakesKeysButMoves(t, key) == t.editing /\ ~t.header /\ key \notin {"up", "down"}
TakesKeys(t, key) == t.editing /\ ~t.header

PanelKey(t, key) ==
  LET c == Selected(t)
      u == Unhidden(t)
  IN IF TakesKeys(t, key) THEN EditKey(t, c, key)
     ELSE IF key = "esc" THEN {TableClose(t)}
     ELSE IF key \in {"tab", "backtab"} THEN {ToPage(t, p) : p \in DOMAIN Pages}
     ELSE IF u.header /\ key \in {"enter", "left", "right"} THEN {Fold(u, key)}
     ELSE IF key \in {"up", "down", "pageup", "pagedown"} THEN {Move(u, key)}
     ELSE IF c # Nowhere THEN {RowKey(u, c, key)} ELSE {u}

\* A mouse event: on a draft, on a page's title, on a line.
LevelAt(r) == {r.maximum} \cup {n \in r.minimum .. r.maximum : (n - r.minimum) % r.step = 0}
Clicked(t) ==
  LET c == Selected(t) IN
  {t} \cup (IF t.header THEN PanelKey(t, "enter")
            ELSE PanelKey(t, "f2") \cup
                 IF Row(c).kind = "level"
                 THEN {Adjust(t, c, n) : n \in LevelAt(Row(c)) \ {device[c].number}}
                 ELSE PanelKey(t, "enter"))
TableMouse(t) ==
  IF t.editing
  THEN PanelKey(t, "esc") \cup {[t EXCEPT !.focus = 0]}
       \cup (IF t.dialog THEN UNION {PanelKey([t EXCEPT !.focus = f], "enter") : f \in 1 .. 2} ELSE {})
  ELSE {ToPage(t, p) : p \in DOMAIN Pages}
       \cup UNION {Clicked(SelectItem(Unhidden(t), i)) : i \in Items(t)}

-----------------------------------------------------------------------------
PanelKeys == {"esc", "enter", "tab", "backtab", "f2", "left", "right", "home", "end", "up", "down",
         "pageup", "pagedown", "letter"}

Init ==
  /\ s = [open |-> FALSE, tab |-> 1, selected |-> 1, header |-> FALSE, closed |-> {},
          editing |-> FALSE, dialog |-> FALSE, focus |-> 0, draft |-> 0, revision |-> 0,
          home |-> Nowhere, seen |-> 0, req |-> NoRequest]
  /\ device = [c \in Ids |-> [number |-> Row(c).minimum, revision |-> 0, ready |-> TRUE]]

Calm == s.req.stage = "none"

\* render keeps the selection on the page and out of the folded sections.
Render(t) == IF t.open THEN Unhidden(t) ELSE t

\* The board is drawn now or, perhaps, after the next key.
Seen(t) == {Render(t)} \cup (IF Late THEN {t} ELSE {})

\* ps_panel_open, of an open panel too: its draft is dropped.
Open(p) == /\ Calm
           /\ s' \in Seen([ToPage(EndEdit(s), p) EXCEPT !.open = TRUE])
           /\ UNCHANGED device

\* A key or a mouse event.
Input == /\ Calm /\ s.open
         /\ \E t \in (UNION {PanelKey(s, key) : key \in PanelKeys}) \cup TableMouse(s) :
              s' \in Seen(t)
         /\ UNCHANGED device

\* ps_panel_select: the host selects a row and unfolds its section.
Select(i) == /\ Calm /\ s.open /\ ~s.editing /\ i \in DOMAIN Page(s)
             /\ s' = [SelectItem(s, 2 * i + 1) EXCEPT !.closed = @ \ {<<s.tab, Section(s, i)>>}]
             /\ UNCHANGED device

\* "controls set" at the prompt, for any control.
SetCommand(c, n) == /\ Calm /\ ~s.editing /\ Row(c).kind # "action"
                    /\ s' = [s EXCEPT !.req = Ask(c, n)]
                    /\ UNCHANGED device

\* control_commit: validate, read again, compare.
Acceptable(q) == /\ InRange(q.on, q.number)
                 /\ Writable(q.on) /\ device[q.on].revision = q.expected
Check == /\ s.req.stage = "check"
         /\ s' = IF Acceptable(s.req) THEN [s EXCEPT !.req.stage = "write"]
                 ELSE [s EXCEPT !.req = NoRequest]
         /\ UNCHANGED device

\* Every move is a revision of the control that moved.
Moved == MapThenSumSet(LAMBDA c : device[c].revision, Ids)

\* The provider's write: against another revision it is refused; otherwise it is
\* refused, applied at once, or pending.  A draft that was written is closed.
Write ==
  /\ s.req.stage = "write"
  /\ LET q == s.req
         d == device[q.on]
     IN \/ s' = [s EXCEPT !.req = NoRequest] /\ UNCHANGED device
        \/ /\ d.revision = q.expected /\ Moved < MaxMoves
           /\ s' = [IF q.draft THEN EndEdit(s) ELSE s EXCEPT !.req = NoRequest]
           /\ \/ device' = [device EXCEPT ![q.on] = [number |-> q.number, ready |-> d.ready,
                                                     revision |-> d.revision + 1]]
              \/ device' = [device EXCEPT ![q.on].ready = FALSE]

\* The device moves: its number changes and with it the revision, or it becomes known,
\* unknown, locked, or ends a pending write.  An action shows no number.
DeviceMoves(c) ==
  /\ \E n \in Number, r \in BOOLEAN :
       /\ n # device[c].number => Row(c).kind # "action" /\ Moved < MaxMoves
       /\ n # device[c].number \/ r # device[c].ready
       /\ device' = [device EXCEPT ![c] =
            [number |-> n, ready |-> r,
             revision |-> IF n = device[c].number THEN @.revision ELSE @.revision + 1]]
  /\ UNCHANGED s

Next == \/ \E p \in DOMAIN Pages : Open(p)
        \/ Input
        \/ \E i \in 1 .. 128 : Select(i)
        \/ \E c \in Ids, n \in Number : SetCommand(c, n)
        \/ Check \/ Write
        \/ \E c \in Ids : DeviceMoves(c)

Spec == Init /\ [][Next]_vars
-----------------------------------------------------------------------------
TypeOK == /\ s \in Session /\ s.selected \in DOMAIN Page(s)
          /\ device \in [Ids -> [number : Number, revision : Nat, ready : BOOLEAN]]

\* A request without a draft is for a number its control can have, which nothing but the
\* device's own moves can make control_commit refuse: a key or a click is never void.
\* Left and Right go one step, and to the end where less than a step is left, in unsigned
\* arithmetic and over ranges that are no multiple of the step; a choice goes round.
Asked == Calm /\ s'.req.stage = "check" /\ ~s'.req.draft /\ Input
IsNext(x, n, r, key) ==
  LET way == IF key = "left" THEN n - x ELSE x - n
      end == IF key = "left" THEN r.minimum ELSE r.maximum
      step == IF r.kind = "level" THEN r.step ELSE 1
  IN IF r.kind = "choice" /\ n = end THEN x = r.minimum + r.maximum - end
     ELSE way \in 0 .. step /\ (way < step => x = end)
AsksForTheNext ==
  Asked =>
    LET q == s'.req
        r == Row(q.on)
    IN /\ q.number \in r.minimum .. r.maximum
       /\ \A key \in {"left", "right"} :
            (\E t \in PanelKey(s, key) : s' \in Seen(t)) => IsNext(q.number, q.seen, r, key)

\* A write replaces the number its author saw: when the draft was opened, or when the
\* key was pressed.  A draft never overwrites what the device became in between.
NoLostUpdate ==
  Write => \A c \in Ids : device'[c].number # device[c].number =>
        c = s.req.on /\ device[c].number = s.req.seen

\* A draft is written to the control it was opened on.
DraftGoesHome == s.req.stage # "none" => s.req.on = s.req.home
=============================================================================
