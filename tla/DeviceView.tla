----------------------------- MODULE DeviceView -----------------------------
(***************************************************************************)
(* The device view of include/portable_device_view.hpp: pages of settings  *)
(* drawn from a snapshot the provider replaces at any moment, collapsible   *)
(* sections, an inline editor, a dialog and a choice menu, and three pages  *)
(* with a grid of their own.  Keystrokes go in, at most one Action comes out.    *)
(*                                                                         *)
(* Abstractions: rows are counted from 1; a value is one of a few strings,  *)
(* a level is a position in Levels; an edit key replaces the draft by some  *)
(* member of Drafts (the cursor is left out); a mouse report names what     *)
(* lies under the pointer; hashes are compared without collisions; groups   *)
(* are section rows, the category column is left out, and so are the five   *)
(* settings pages that differ from the first only in being hidden or not.   *)
(***************************************************************************)
EXTENDS Naturals, Sequences, FiniteSets, SequencesExt, FiniteSetsExt

CONSTANTS Snapshots,    \* the snapshots the provider may publish
          Drafts,       \* what an edit key can leave in the draft
          Levels,       \* the values of a level, in order
          TableLines,   \* lines the table can show
          Batch,        \* BOUND: inputs that ask for a painting before the host paints
          Matrix        \* PS_DEVICE_VIEW_MATRIX: the cell page has a screen of its own

VARIABLES v,            \* the view: the fields of class DeviceView
          snap,         \* the provider's present snapshot
          screen,       \* what each line of the table shows
          seen,         \* the row as it was when the draft was opened
          waiting       \* inputs that asked for a painting since the last one
viewVars == <<v, snap, screen, seen, waiting>>

\* What a provider publishes: the rows of each page, and groups that are not empty.
SnapshotRow ==
  [key : STRING, cat : STRING, kind : STRING, value : STRING, options : Seq(STRING),
   labels : Seq(STRING), edit : BOOLEAN, secret : BOOLEAN, pending : BOOLEAN, low : Nat, high : Nat]

Pages == <<"device", "led", "pixel", "game">>
GridPages == {"led", "pixel", "game"}
PageSet == ToSet(Pages)
ASSUME ViewAssumption ==
  /\ TableLines \in Nat
  /\ \A s \in Snapshots :
       /\ s.groups \in Seq(Nat \ {0})
       /\ s.rows \in [PageSet -> Seq(SnapshotRow)]
       /\ s.unicode \in BOOLEAN /\ s.enabled \subseteq 1..9
None == [type |-> "none"]
Act(type, key, value) == [type |-> type, key |-> key, value |-> value]

\* A view that begins: what it knew of the sections is all it keeps.
Fresh(closed, schema) ==
         [active |-> TRUE, page |-> "device", selected |-> 1, section |-> FALSE, grid |-> FALSE,
          esc |-> 0, cr |-> FALSE, pixel |-> 0, group |-> FALSE,
          editing |-> FALSE, secret |-> FALSE, changed |-> FALSE, dialog |-> FALSE, menu |-> FALSE,
          focus |-> "draft", choice |-> 1, key |-> "", draft |-> "", observed |-> <<>>,
          dirty |-> TRUE, full |-> TRUE, act |-> None, drag |-> FALSE,
          closed |-> closed, schema |-> schema]

-----------------------------------------------------------------------------
(* What the view reads of a snapshot. *)

Rows(w, s) == s.rows[w.page]
HasRow(w, s) == ~w.section /\ w.selected <= Len(Rows(w, s))
Row(w, s) == Rows(w, s)[w.selected]
Repaint(w) == [w EXCEPT !.dirty = TRUE, !.full = TRUE]
Dirty(w) == [w EXCEPT !.dirty = TRUE]

\* The pixels of the first g groups, the group a pixel is in and its first pixel.
PixelsTo(s, g) ==
  LET sum[i \in 0..Len(s.groups)] == IF i = 0 THEN 0 ELSE sum[i - 1] + s.groups[i] IN sum[g]
PixelsOf(s) == PixelsTo(s, Len(s.groups))
GroupStart(s, g) == PixelsTo(s, g - 1)
GroupAt(s, p) == CHOOSE g \in 1..Len(s.groups) : GroupStart(s, g) <= p /\ p < PixelsTo(s, g)
Available(p, s) == CASE p = "led" -> s.leds [] p = "pixel" -> s.groups # <<>>
                     [] p = "game" -> s.game [] OTHER -> TRUE

RowHash(r) == <<IF r.secret THEN "" ELSE r.value, r.kind, r.options, r.labels>>
ValidValue(r, d) == CASE r.kind = "toggle" -> d \in {"on", "off"}
                      [] r.kind = "level" -> d \in {Levels[i] : i \in r.low..r.high}
                      [] r.kind = "choice" -> d \in ToSet(r.options)
                      [] OTHER -> TRUE
Changeable(r) == r.edit /\ ~r.pending

-----------------------------------------------------------------------------
(* Sections: runs of rows of one category, closed by the index of the first. *)

SectionStart(w, s, i) == LET r == Rows(w, s) IN
  r[i].cat # "" /\ (i = 1 \/ r[i].cat # r[i - 1].cat)
StartOf(w, s, i) == LET r == Rows(w, s) IN
  Max({j \in 1..i : j = 1 \/ r[j].cat # r[j - 1].cat})
Hidden(w, s, i) == LET j == StartOf(w, s, i) IN
  SectionStart(w, s, j) /\ j \in w.closed[w.page]

\* syncSections(): the sections are forgotten with the rows they were for, the
\* selection stays in the table, on a heading that is one, and out of what is closed.
Schema(w, s) == [i \in DOMAIN Rows(w, s) |-> <<Rows(w, s)[i].key, Rows(w, s)[i].cat>>]
KnowsRows(w, s) ==
  IF w.schema[w.page] = Schema(w, s) THEN w
  ELSE Repaint([w EXCEPT !.schema[w.page] = Schema(w, s), !.closed[w.page] = {}, !.section = FALSE])
InTable(w, s) == IF w.selected <= Len(Rows(w, s)) THEN w
                 ELSE [w EXCEPT !.selected = Max({1, Len(Rows(w, s))}), !.section = FALSE]
OnHeading(w, s) == IF Rows(w, s) # <<>> /\ w.section /\ ~SectionStart(w, s, w.selected)
                   THEN [w EXCEPT !.section = FALSE] ELSE w
OutOfClosed(w, s) == IF Rows(w, s) # <<>> /\ Hidden(w, s, w.selected)
                     THEN [w EXCEPT !.selected = StartOf(w, s, w.selected), !.section = TRUE] ELSE w
\* Mutant: the closed sections survive a page whose rows have changed.
KnowsRowsKept(w, s) ==
  IF w.schema[w.page] = Schema(w, s) THEN w
  ELSE Repaint([w EXCEPT !.schema[w.page] = Schema(w, s), !.section = FALSE])
SyncSectionsKept(w, s) == InTable(KnowsRowsKept(w, s), s)
SyncSections(w, s) == OutOfClosed(OnHeading(InTable(KnowsRows(w, s), s), s), s)

\* The lines of the table: a heading before the first row of a section, and
\* the rows of the sections that are open.
SectionItems(w, s) ==
  LET of(i) == (IF SectionStart(w, s, i) THEN <<[head |-> TRUE, at |-> i]>> ELSE <<>>)
               \o (IF Hidden(w, s, i) THEN <<>> ELSE <<[head |-> FALSE, at |-> i]>>)
  IN FlattenSeq([i \in DOMAIN Rows(w, s) |-> of(i)])
Focus(w, s) == Max({1, SelectLastInSeq(SectionItems(w, s),
                                       LAMBDA i : i = [head |-> w.section, at |-> w.selected])})

ToggleSection(w, s, how) ==
  LET c == w.closed[w.page] IN
  IF ~w.section \/ w.selected > Len(Rows(w, s)) \/ ~SectionStart(w, s, w.selected) THEN w
  ELSE Repaint([w EXCEPT !.closed[w.page] =
         IF how = "close" \/ (how = "flip" /\ w.selected \notin c)
         THEN c \union {w.selected} ELSE c \ {w.selected}])

-----------------------------------------------------------------------------
(* Leaving the draft, changing the page, the pixel page. *)

ClearDraft(w) == [w EXCEPT !.editing = FALSE, !.secret = FALSE, !.changed = FALSE,
                           !.dialog = FALSE, !.menu = FALSE, !.focus = "draft",
                           !.choice = 1, !.key = "", !.draft = ""]
\* Mutant: a cancelled draft does not ask for the whole screen.
CancelQuiet(w) == Dirty(ClearDraft(w))
Cancel(w) == Repaint(ClearDraft(w))

NextPage(w, s, d) ==
  LET n == Len(Pages)
      at == CHOOSE i \in 1..n : Pages[i] = w.page
      go(k) == Pages[((at - 1 + n * n + d * k) % n) + 1]
      k == Min({j \in 1..n : Available(go(j), s)})
  IN Repaint([w EXCEPT !.page = go(k), !.selected = 1, !.section = FALSE,
                       !.grid = go(k) \in GridPages])

SyncPixel(w, s) == LET p == Min({w.pixel, PixelsOf(s) - 1}) IN
  [w EXCEPT !.pixel = IF w.group THEN GroupStart(s, GroupAt(s, p)) ELSE p]

\* Mutant: the pixel is not brought into the layout before it is tested.
PixelActionUnsynced(w, s) ==
  [w EXCEPT !.act = [type |-> "pixel", index |-> w.pixel, layout |-> s.groups,
                     count |-> IF w.group THEN s.groups[1] ELSE 1]]
PixelAction(w, s) == LET x == SyncPixel(w, s) IN
  [x EXCEPT !.act = [type |-> "pixel", index |-> x.pixel, layout |-> s.groups,
                     count |-> IF x.group THEN s.groups[GroupAt(s, x.pixel)] ELSE 1]]

StepPixel(w, s, d) ==
  LET x == SyncPixel(w, s)
      g == GroupAt(s, x.pixel)
      out == IF x.group THEN g + d \notin DOMAIN s.groups ELSE x.pixel + d \notin 0..PixelsOf(s) - 1
      p == IF x.group THEN GroupStart(s, g + d) ELSE x.pixel + d
  IN IF out THEN Dirty(x) ELSE PixelAction(Dirty([x EXCEPT !.pixel = p]), s)

\* Home and End move to the ends, and test the pixel only when it changed.
JumpPixel(w, s, k) ==
  LET x == SyncPixel(w, s)
      y == SyncPixel([x EXCEPT !.pixel = IF k = "H" THEN 0 ELSE PixelsOf(s) - 1, !.dirty = TRUE], s)
  IN IF y.pixel = x.pixel THEN y ELSE PixelAction(y, s)

-----------------------------------------------------------------------------
(* Widgets and the choice menu. *)

Adjusted(r, key) ==
  LET n == Len(r.options)
      at == SelectInSeq(r.options, LAMBDA o : o = r.value)
      l == SelectInSeq(Levels, LAMBDA o : o = r.value)
  IN CASE r.kind = "toggle" /\ key = "space" /\ r.value \in {"on", "off"} ->
            IF r.value = "on" THEN "off" ELSE "on"
       [] r.kind = "level" /\ key # "space" /\ l \in r.low..r.high ->
            Levels[IF key = "plus" THEN Min({l + 1, r.high}) ELSE Max({l - 1, r.low})]
       [] r.kind = "choice" /\ at > 0 ->
            r.options[IF key = "minus" THEN (IF at = 1 THEN n ELSE at - 1) ELSE (at % n) + 1]
       [] OTHER -> r.value

Adjust(w, s, key) ==
  IF HasRow(w, s) /\ Changeable(Row(w, s)) /\ ~Row(w, s).secret
     /\ Adjusted(Row(w, s), key) # Row(w, s).value
  THEN Dirty([w EXCEPT !.act = Act("set", Row(w, s).key, Adjusted(Row(w, s), key))]) ELSE w

ChoiceHolds(w, s) ==
  w.menu /\ w.editing =>
    /\ HasRow(w, s) /\ Changeable(Row(w, s)) /\ ~Row(w, s).secret
    /\ Row(w, s).kind = "choice" /\ Row(w, s).key = w.key
    /\ w.choice <= Len(Row(w, s).options) /\ w.observed = RowHash(Row(w, s))
ValidateChoice(w, s) == IF ChoiceHolds(w, s) THEN w ELSE Cancel(w)

Choose(w, s, c) == Repaint([w EXCEPT !.choice = c, !.draft = Row(w, s).options[c],
                                     !.changed = Row(w, s).options[c] # Row(w, s).value])
NumberKeys == {"1", "2"}
NumberOf(b) == IF b = "1" THEN 1 ELSE 2
ChoiceKey(w, s, b) ==
  LET n == Len(Row(w, s).options) IN
  IF ~ChoiceHolds(w, s) THEN Cancel(w)
  ELSE CASE b = "A" -> Choose(w, s, IF w.choice = 1 THEN n ELSE w.choice - 1)
         [] b \in {"B", "tab", "space"} -> Choose(w, s, (w.choice % n) + 1)
         [] b = "H" -> Choose(w, s, 1)
         [] b = "F" -> Choose(w, s, n)
         [] b \in NumberKeys /\ NumberOf(b) <= n -> Choose(w, s, NumberOf(b))
         [] OTHER -> w

-----------------------------------------------------------------------------
(* The draft: opened by Enter or F2 on a row, applied by Enter. *)

Open(w, s, dialog) ==
  LET r == Row(w, s)
      menu == r.kind = "choice" /\ ~r.secret /\ r.options # <<>>
      at == SelectInSeq(r.options, LAMBDA o : o = r.value)
  IN IF ~HasRow(w, s) THEN Dirty(w)
     ELSE IF ~Changeable(r) THEN Dirty(w)
     ELSE Repaint([w EXCEPT !.key = r.key, !.secret = r.secret, !.observed = RowHash(r),
                    !.draft = IF r.secret THEN "" ELSE r.value, !.editing = TRUE,
                    !.changed = FALSE, !.menu = menu, !.dialog = menu \/ dialog,
                    !.choice = IF menu /\ at > 0 THEN at ELSE 1])

\* Mutant: the row is not compared with what was observed.
ApplyUnseen(w, s) ==
  IF ~HasRow(w, s) THEN Cancel(w)
  ELSE IF ~Changeable(Row(w, s)) \/ Row(w, s).key # w.key \/ ~w.changed THEN Cancel(w)
  ELSE IF ~ValidValue(Row(w, s), w.draft) THEN Repaint(w)
  ELSE Cancel([w EXCEPT !.act = Act("set", w.key, w.draft)])
Apply(w, s) ==
  LET r == Row(w, s) IN
  IF \/ w.page = "led" /\ ~s.leds
     \/ w.page = "pixel" /\ s.groups = <<>>
     \/ w.page = "game" /\ ~s.game
     \/ ~HasRow(w, s) THEN Cancel(w)
  ELSE IF ~Changeable(r) \/ r.key # w.key \/ r.secret # w.secret THEN Cancel(w)
  ELSE IF ~w.changed THEN Cancel(w)
  ELSE IF w.observed # RowHash(r) \/ ~ValidValue(r, w.draft) THEN Repaint(w)
  ELSE Cancel([w EXCEPT !.act = Act("set", w.key, w.draft)])

\* edit(): the keys of the draft.  What a text key leaves is drawn from Drafts.
Edit(w, s, b, d) ==
  LET enter == b \in {"cr", "lf"} IN
  IF w.menu /\ ~enter THEN ChoiceKey(w, s, b)
  ELSE IF w.dialog /\ ~w.menu /\ b = "tab"
  THEN Repaint([w EXCEPT !.focus = CASE w.focus = "draft" -> "apply" [] w.focus = "apply" -> "cancel"
                                     [] OTHER -> "draft"])
  ELSE IF w.dialog /\ w.focus = "cancel" /\ enter THEN Cancel(w)
  ELSE IF enter THEN Apply([w EXCEPT !.cr = b = "cr"], s)
  ELSE IF b \in {"tab", "ctrlR"} THEN w
  ELSE Dirty([w EXCEPT !.draft = d, !.changed = TRUE])

-----------------------------------------------------------------------------
(* Cursor keys outside the draft. *)

GoTo(w, items, f, k) ==
  LET to == CASE k = "A" -> Max({1, f - 1}) [] k = "B" -> Min({Len(items), f + 1})
              [] k = "H" -> 1 [] k = "F" -> Len(items)
  IN IF items = <<>> THEN w
     ELSE Dirty([w EXCEPT !.selected = items[to].at, !.section = items[to].head])
MoveItem(w, s, k) == GoTo(w, SectionItems(w, s), Focus(w, s), k)

Arrow(w, s, k) ==
  LET sideways == k \in {"C", "D"}
      n == Len(Rows(w, s)) IN
  IF w.editing THEN IF w.menu THEN ChoiceKey(w, s, k) ELSE Dirty(w)
  ELSE IF w.grid /\ w.page = "led" /\ s.leds THEN Dirty(w)
  ELSE IF w.grid /\ w.page = "pixel" /\ s.groups # <<>>
  THEN IF k \in {"A", "D"} THEN StepPixel(w, s, -1)
       ELSE IF k \in {"B", "C"} THEN StepPixel(w, s, 1) ELSE JumpPixel(w, s, k)
  ELSE IF ~w.grid /\ w.section /\ sideways
  THEN ToggleSection(w, s, IF k = "C" THEN "open" ELSE "close")
  ELSE IF ~w.grid /\ ~sideways THEN MoveItem(w, s, k)
  ELSE IF sideways
  THEN IF HasRow(w, s) /\ Row(w, s).kind \in {"level", "choice"}
       THEN Adjust(w, s, IF k = "C" THEN "plus" ELSE "minus")
       ELSE NextPage(w, s, IF k = "C" THEN 1 ELSE -1)
  ELSE Dirty([w EXCEPT !.selected = CASE k = "A" -> Max({1, w.selected - 1})
                                      [] k = "B" -> IF w.selected < n THEN w.selected + 1 ELSE w.selected
                                      [] k = "H" -> 1 [] k = "F" -> Max({1, n})])

-----------------------------------------------------------------------------
(* feed(): one byte.  CSI finals are named by their letter; of the nine digits *)
(* two are typed.                                                           *)

Keystrokes == NumberKeys \union {"esc", "bracket", "ctrlC", "ctrlL", "ctrlR", "cr", "lf",
                                 "space", "plus", "minus", "tab", "f", "g", "r", "w", "text"}
ArrowLetters == {"A", "B", "C", "D"}
Finals == {"A", "B", "C", "D", "H", "F", "Z", "Q", "delete"}

\* Enter outside the draft, which F2 and a click on a value also use.
Enter(w, s, dialog) ==
  IF w.section /\ ~w.grid THEN ToggleSection(w, s, "flip")
  ELSE IF ~Available(w.page, s) /\ w.page \in {"led", "pixel"} THEN w
  ELSE LET x == IF w.page = "pixel" THEN SyncPixel(w, s) ELSE w IN
       CASE x.grid /\ x.page = "pixel" -> PixelAction(x, s)
         [] x.grid /\ x.page \in {"led", "game"} -> Dirty([x EXCEPT !.grid = FALSE])
         [] OTHER -> Open(x, s, dialog)
StartDialog(w, s) == IF w.editing \/ w.grid THEN w ELSE Enter([w EXCEPT !.cr = FALSE], s, TRUE)

\* Mutant: the mask of enabled boxes is not asked.
GameKeyUnmasked(w, s, b) ==
  IF ~s.game \/ ~s.ready THEN Dirty(w)
  ELSE [w EXCEPT !.act = IF b = "r" THEN [type |-> "reset"] ELSE [type |-> "press", box |-> NumberOf(b)]]
\* On the game page a digit presses its box, if that is enabled, and r starts anew.
GameKey(w, s, b) ==
  IF ~s.game \/ ~s.ready \/ (b # "r" /\ NumberOf(b) \notin s.enabled) THEN Dirty(w)
  ELSE [w EXCEPT !.act = IF b = "r" THEN [type |-> "reset"] ELSE [type |-> "press", box |-> NumberOf(b)]]

\* The keys of the three grid pages, and the keys every page has.
Key(w, s, b) ==
  LET x == IF w.page = "pixel" /\ Available("pixel", s) THEN SyncPixel(w, s) ELSE w IN
  IF b = "tab" THEN NextPage(w, s, 1)
  ELSE IF b = "ctrlR" THEN [w EXCEPT !.act = [type |-> "refresh"]]
  ELSE IF w.page = "game" /\ w.grid /\ b \in NumberKeys \union {"r"} THEN GameKey(w, s, b)
  ELSE IF w.page \in {"led", "pixel"} /\ ~Available(w.page, s) THEN w
  ELSE IF b = "f" /\ x.page \in GridPages THEN Repaint([x EXCEPT !.grid = ~x.grid])
  ELSE IF x.page = "led" /\ x.grid /\ b \in {"r", "w"} THEN [x EXCEPT !.act = [type |-> "cell"]]
  ELSE IF x.page = "pixel" /\ b = "g" THEN Dirty(SyncPixel([x EXCEPT !.group = ~x.group], s))
  ELSE IF x.page = "pixel" /\ b \in {"r", "w"} THEN Dirty(x)
  ELSE IF x.page = "pixel" /\ x.grid /\ b = "plus" THEN StepPixel(x, s, 1)
  ELSE IF x.page = "pixel" /\ x.grid /\ b = "minus" THEN StepPixel(x, s, -1)
  ELSE IF b \in {"cr", "lf"} THEN Enter([x EXCEPT !.cr = b = "cr"], s, FALSE)
  ELSE x

Plain(w, s, b, d) ==
  IF b = "esc" THEN [w EXCEPT !.esc = 1]
  ELSE IF b = "ctrlC"
  THEN IF w.editing THEN Cancel(w) ELSE [w EXCEPT !.active = FALSE, !.act = [type |-> "exit"]]
  ELSE IF b = "ctrlL" THEN Repaint(w)
  ELSE IF s.small THEN w
  ELSE IF w.editing THEN Edit(w, s, b, d)
  ELSE IF w.section /\ ~w.grid /\ b \in {"space", "cr", "lf"}
  THEN [ToggleSection(w, s, "flip") EXCEPT !.cr = b = "cr"]
  ELSE IF ~w.grid /\ b \in {"space", "plus", "minus"} THEN Adjust(w, s, b)
  ELSE Key(w, s, b)

Final(w, s, b, d) ==
  IF s.small THEN w
  ELSE IF b = "Q" THEN StartDialog(w, s)
  ELSE IF b = "delete" THEN IF w.editing THEN Edit(w, s, "text", d) ELSE w
  ELSE IF b = "Z" THEN IF w.editing THEN Arrow(w, s, "Z") ELSE NextPage(w, s, -1)
  ELSE Arrow(w, s, b)

\* Every byte first brings the view in line with the snapshot it came with.
Synced(w, s) == ValidateChoice(SyncSections([w EXCEPT !.act = None], s), s)

\* What the model remembers of an input: the row a draft was opened on, and
\* that a painting is due.
Taken == /\ waiting < Batch
         /\ waiting' = IF v'.dirty THEN waiting + 1 ELSE waiting
         /\ seen' = IF v'.editing /\ ~v.editing THEN Row(v', snap)
                    ELSE IF v'.editing THEN seen ELSE None

\* A choice menu whose row has changed is closed, and takes the input with it.
ChoiceGone == ~ChoiceHolds(SyncSections(v, snap), snap)

Fed(x, b, d) ==
  LET y == IF b \in {"cr", "lf"} THEN x ELSE [x EXCEPT !.cr = FALSE] IN
  IF ChoiceGone THEN x
  ELSE IF x.cr /\ b = "lf" THEN [x EXCEPT !.cr = FALSE]
  ELSE IF v.esc = 1 /\ b \in ArrowLetters THEN Arrow([y EXCEPT !.esc = 0], snap, b)
  ELSE IF v.esc = 1 THEN [y EXCEPT !.esc = IF b = "bracket" THEN 2 ELSE 0]
  ELSE IF v.esc = 2 THEN Final([y EXCEPT !.esc = 0], snap, b, d)
  ELSE Plain(y, snap, b, d)
Feed(b, d) ==
  /\ v.active
  /\ b \in CASE v.esc = 1 -> Keystrokes \union ArrowLetters
               [] v.esc = 2 -> Finals
               [] OTHER -> Keystrokes
  /\ v' = Fed(Synced(v, snap), b, d)
  /\ Taken
  /\ UNCHANGED <<snap, screen>>

\* A lone escape byte, once the transport has found nothing follows it.
FlushEscape ==
  /\ v.esc = 1
  /\ v' = LET w == [v EXCEPT !.esc = 0, !.act = None] IN
          IF w.editing THEN Cancel(w)
          ELSE IF w.active THEN [w EXCEPT !.active = FALSE, !.act = [type |-> "exit"]] ELSE w
  /\ Taken
  /\ UNCHANGED <<snap, screen>>

-----------------------------------------------------------------------------
(* mouse(): a report names the line, tab, menu entry or button under it.    *)
(* screen.start and screen.shown are what the last painting left there.     *)

Report(kind, at, value) == [kind |-> kind, at |-> at, value |-> value]
Reports == {Report(k, 0, FALSE) : k \in {"release", "up", "down", "cancel", "apply", "draft", "right"}}
           \union {Report("tab", p, FALSE) : p \in PageSet}
           \union {Report(k, n, b) : k \in {"press", "drag", "dialog"}, n \in 1..TableLines, b \in BOOLEAN}
           \union {Report("entry", n, FALSE) : n \in 1..2}

\* A press on a line selects it; on the value it changes the row or opens it.
PressRow(x, s, e) ==
  LET r == Row(x, s) IN
  IF x.section THEN {IF e.kind = "drag" THEN x ELSE ToggleSection(x, s, "flip")}
  ELSE IF e.kind = "dialog" THEN {StartDialog(x, s)}
  ELSE IF ~e.value \/ ~Changeable(r) \/ r.secret THEN {x}
  ELSE IF r.kind = "level" /\ r.low < r.high /\ r.value \in {Levels[i] : i \in r.low..r.high}
  THEN {IF Levels[l] = r.value THEN x ELSE [x EXCEPT !.act = Act("set", r.key, Levels[l])] :
          l \in r.low..r.high}
  ELSE IF e.kind = "drag" THEN {x}
  ELSE IF r.kind \in {"toggle", "choice"} THEN {Adjust(x, s, "space")}
  ELSE {Enter([x EXCEPT !.cr = TRUE], s, FALSE)}
PressItem(w, s, e, items) ==
  LET line == screen.start + e.at - 1 IN
  IF w.grid \/ e.at > screen.shown \/ line > Len(items) THEN {w}
  ELSE PressRow(Dirty([w EXCEPT !.selected = items[line].at, !.section = items[line].head]), s, e)
PressLine(w, s, e) == PressItem(w, s, e, SectionItems(w, s))

\* While a draft is open: its entries, its buttons and its line.
PressDraft(w, s, e) ==
  IF e.kind = "right" \/ e.kind = "dialog" THEN Cancel(w)
  ELSE IF w.menu
  THEN IF e.kind # "entry" \/ e.at > Len(Row(w, s).options) THEN w
       ELSE Apply([Choose(w, s, e.at) EXCEPT !.cr = TRUE], s)
  ELSE IF w.dialog /\ e.kind = "cancel" THEN Cancel(w)
  ELSE IF w.dialog /\ e.kind = "apply" THEN Apply([w EXCEPT !.focus = "apply", !.cr = TRUE], s)
  ELSE IF e.kind = "draft" THEN Dirty([w EXCEPT !.focus = "draft"]) ELSE w

Wheel(w, s, k) ==
  IF (w.editing /\ ~w.menu) \/ w.grid THEN w ELSE Arrow(Arrow(Arrow(w, s, k), s, k), s, k)

PressTab(w, s, page) ==
  IF Available(page, s)
  THEN Repaint([w EXCEPT !.page = page, !.selected = 1, !.section = FALSE, !.grid = FALSE]) ELSE w
\* Everything but a drag arms the next one.
Pointed(x, s, e) ==
  LET y == IF e.kind = "drag" THEN x ELSE [x EXCEPT !.drag = TRUE] IN
  IF e.kind = "release" THEN {[x EXCEPT !.drag = FALSE]}
  ELSE IF s.small \/ (e.kind = "drag" /\ ~v.drag) THEN {x}
  ELSE IF e.kind \in {"up", "down"} THEN {Wheel(x, s, IF e.kind = "up" THEN "A" ELSE "B")}
  ELSE IF y.editing THEN {PressDraft(y, s, e)}
  ELSE IF e.kind = "tab" THEN {PressTab(y, s, e.at)}
  ELSE IF e.kind \in {"press", "drag", "dialog"} THEN PressLine(y, s, e)
  ELSE {y}
Mouse(e) ==
  /\ v.active /\ v.esc = 2
  /\ IF ChoiceGone THEN v' = Synced(v, snap)
     ELSE v' \in Pointed([Synced(v, snap) EXCEPT !.cr = FALSE, !.esc = 0], snap, e)
  /\ Taken
  /\ UNCHANGED <<snap, screen>>

-----------------------------------------------------------------------------
(* render(): only the lines whose stamp changed are painted again.          *)

\* What hash() reads of a row: no secret's value, and the labels of the choices but
\* not the choices.
Face(r) == [r EXCEPT !.value = IF r.secret THEN "hidden" ELSE r.value, !.options = <<>>]
\* What it reads of the snapshot to find that nothing changed.
Hash(w, s) == <<[i \in DOMAIN Rows(w, s) |-> Face(Rows(w, s)[i])],
                s.leds, s.groups, s.game, s.ready, s.enabled, s.unicode, s.small>>
\* The stamp of a line: hash() of one row alone, and how the line is marked.
Stamp(w, s, item) ==
  [item |-> item, face |-> Face(Rows(w, s)[item.at]),
   selected |-> item.at = w.selected /\ item.head = w.section /\ ~w.grid,
   closed |-> item.head /\ item.at \in w.closed[w.page]]

\* What value() puts on a line beyond its stamp: the glyphs of the snapshot and, for
\* a choice with labels, the label at the place of its value among the choices.
Unstamped(r) == IF r.labels = <<>> THEN <<>> ELSE r.options
RowPen(w, s) == [rows |-> TRUE, unicode |-> s.unicode,
                 options |-> [i \in DOMAIN Rows(w, s) |-> Unstamped(Rows(w, s)[i])]]
OtherPen == [rows |-> FALSE, unicode |-> FALSE, options |-> <<>>]
Named(r, options) ==
  LET at == SelectInSeq(options, LAMBDA o : o = r.value) IN
  IF r.kind = "choice" /\ at \in DOMAIN r.labels THEN r.labels[at] ELSE r.value
Look(stamp, pen) == [stamp |-> stamp, unicode |-> pen.unicode,
                     shown |-> Named(stamp.face, pen.options[stamp.item.at])]
Draft(w) == [draft |-> IF w.secret THEN "masked" ELSE w.draft]
\* A painted line: the row, or the draft in place of the selected row's value.
Content(w, s, item) ==
  IF w.editing /\ ~w.dialog /\ Stamp(w, s, item).selected THEN Draft(w)
  ELSE Look(Stamp(w, s, item), RowPen(w, s))
All(x) == [i \in 1..TableLines |-> x]
Blank == [shows |-> "blank"]

\* What covers the table while a draft is open in a dialog, and the cell page.
Overlay(w) == [shows |-> IF w.menu THEN "menu" ELSE "dialog"]
MatrixCells == All([shows |-> "cells"])
Small == All([shows |-> "resize"])

\* Where the painting starts, how many lines it has, and what is in them.
Window(items, f, shown) ==
  [start |-> IF f > shown THEN f - shown + 1 ELSE 1, shown |-> shown, items |-> items]
LinesOf(items, f) == Window(items, f, Min({TableLines, Max({1, Len(items)})}))
Lines(w, s) == LinesOf(SectionItems(w, s), Focus(w, s))

\* renderTable(): the whole screen is cleared when full, the cell page returns
\* before the rows, the others compare the stamps with those painted last.
ItemAt(l, i) == l.items[l.start + i - 1]
Holds(l, i) == i <= l.shown /\ l.start + i - 1 <= Len(l.items)
Gutter(l) == Len(l.items) > TableLines
PaintsAll(w, l) == w.full \/ Gutter(l) # screen.gutter \/ l.shown # screen.shown
\* The pens whose lines may be on the screen, since all of it was last painted.
Pens(w, s, l) == IF PaintsAll(w, l) THEN {RowPen(w, s)} ELSE screen.pens \union {RowPen(w, s)}
Moves(w, item) == w.selected # screen.selected /\ item.at \in {w.selected, screen.selected}
Cleared(w, l) == IF w.full \/ Gutter(l) # screen.gutter THEN All(Blank) ELSE screen.line
PaintLine(w, s, l, i) ==
  IF w.editing /\ w.dialog THEN Overlay(w)
  ELSE IF ~Holds(l, i) THEN IF PaintsAll(w, l) \/ i <= l.shown THEN Blank ELSE Cleared(w, l)[i]
  ELSE IF \/ PaintsAll(w, l) \/ Moves(w, ItemAt(l, i)) \/ screen.grid # w.grid
          \/ screen.stamp[i] # Stamp(w, s, ItemAt(l, i))
  THEN Content(w, s, ItemAt(l, i)) ELSE Cleared(w, l)[i]
PaintLines(w, s, l) ==
  IF s.small THEN [screen EXCEPT !.line = IF w.full THEN Small ELSE @]
  ELSE IF Matrix /\ w.page = "led" /\ w.grid /\ s.leds
  THEN [screen EXCEPT !.line = MatrixCells, !.pens = {OtherPen}, !.gutter = Gutter(l)]
  ELSE [screen EXCEPT
          !.line = [i \in 1..TableLines |-> PaintLine(w, s, l, i)],
          !.stamp = [i \in 1..TableLines |-> IF Holds(l, i) THEN Stamp(w, s, ItemAt(l, i)) ELSE @[i]],
          !.start = l.start, !.shown = l.shown, !.selected = w.selected, !.grid = w.grid,
          !.gutter = Gutter(l), !.pens = Pens(w, s, l)]
Paint(w, s) == PaintLines(w, s, Lines(w, s))

\* editLine(): only the draft is written, where the row was painted.
PaintDraft(w, s) ==
  [screen EXCEPT !.line = [i \in 1..TableLines |->
     IF ~w.dialog /\ i <= screen.shown /\ screen.start + i - 1 = Focus(w, s) THEN Draft(w) ELSE @[i]]]

\* render(): a change of size, and rows that differ from those painted last, ask
\* for a painting as the keys do.
Resized(w) == IF screen.small # snap.small THEN Repaint(w) ELSE w
Noticed(w) == IF ~w.editing /\ screen.hash # Hash(w, snap) THEN Dirty(w) ELSE w
NewHash(w) == IF w.editing THEN screen.hash ELSE Hash(w, snap)
WithHash(painted, w) == [painted EXCEPT !.hash = NewHash(w), !.small = snap.small]
Draws(w) ==
  IF w.editing /\ ~snap.small /\ ~w.full
  THEN v' = w /\ screen' = WithHash(PaintDraft(w, snap), w)
  ELSE /\ v' = [w EXCEPT !.full = w.menu /\ w.editing /\ ~snap.small]
       /\ screen' = WithHash(Paint(w, snap), w)
Renders(w, force) ==
  IF w.dirty \/ force THEN Draws([w EXCEPT !.dirty = FALSE, !.full = @ \/ force])
  ELSE v' = w /\ screen' = WithHash(screen, w)

Render(force) ==
  /\ v.active
  /\ Renders(Noticed(Resized(Synced([v EXCEPT !.act = None], snap))), force)
  /\ waiting' = 0
  /\ seen' = IF v'.editing THEN seen ELSE None
  /\ UNCHANGED snap

-----------------------------------------------------------------------------
(* The provider, and the host that opens, closes and restyles the view.     *)

Provide == /\ \E s \in Snapshots : s # snap /\ s.title = snap.title /\ snap' = s
           /\ v' = [v EXCEPT !.act = None]
           /\ UNCHANGED <<screen, seen, waiting>>
BeginView == /\ ~v.active
             /\ v' = Fresh(v.closed, v.schema)
             /\ seen' = None
             /\ UNCHANGED <<snap, screen, waiting>>
\* Mutant: the end of the view leaves the draft open.
EndViewEditing == /\ v.active
                  /\ v' = [v EXCEPT !.active = FALSE, !.drag = FALSE, !.act = None]
                  /\ UNCHANGED <<snap, screen, seen, waiting>>
EndView == /\ v.active
           /\ v' = [ClearDraft(v) EXCEPT !.active = FALSE, !.drag = FALSE, !.act = None]
           /\ seen' = None
           /\ UNCHANGED <<snap, screen, waiting>>
Restyle == /\ v.active /\ ~v.editing
           /\ v' = [Repaint(v) EXCEPT !.act = None]
           /\ UNCHANGED <<snap, screen, seen, waiting>>

DeviceInit ==
  /\ snap \in Snapshots
  /\ v = Fresh([p \in PageSet |-> {}], [p \in PageSet |-> <<>>])
  /\ screen = [line |-> All(Blank), stamp |-> All(None), start |-> 1, shown |-> 0, selected |-> 256,
               grid |-> FALSE, gutter |-> FALSE, hash |-> <<>>, small |-> FALSE,
               pens |-> {OtherPen}]
  /\ seen = None /\ waiting = 0

DeviceNext ==
  \/ \E b \in Keystrokes \union Finals, d \in Drafts : Feed(b, d)
  \/ \E e \in Reports : Mouse(e)
  \/ FlushEscape
  \/ \E force \in BOOLEAN : Render(force)
  \/ Provide \/ BeginView \/ EndView \/ Restyle
DeviceSpec == DeviceInit /\ [][DeviceNext]_viewVars

-----------------------------------------------------------------------------
(* Properties.                                                              *)

\* The fields have their types; a cursor on a heading is on the start of a
\* section as the view last saw it.
DeviceTypeOK ==
  /\ v.page \in PageSet /\ v.selected \in Nat \ {0} /\ v.esc \in 0..2
  /\ v.focus \in {"draft", "apply", "cancel"} /\ (v.draft # "" => v.draft \in Drafts \union STRING)
  /\ \A p \in PageSet : v.closed[p] \subseteq 1..Len(v.schema[p])
  /\ screen.shown <= TableLines /\ snap \in Snapshots

\* However a draft ends (applied, cancelled by a key, a click, Escape alone,
\* a changed row or the end of the view), nothing of it stays behind: clearDraft.
DraftIsScrubbed ==
  /\ ~v.editing => ~v.secret /\ ~v.dialog /\ ~v.menu /\ v.key = "" /\ v.draft = ""
  /\ ~v.active => ~v.editing
  /\ v.editing => v.key = seen.key /\ v.secret = seen.secret

\* A change leaves the editor only for the row it was opened on, still
\* changeable, still as the user saw it, and with a value the row admits: the row
\* the view is on once it is in line with the snapshot.
DraftAppliesToSeen ==
  v.editing /\ v'.act.type = "set" =>
    LET w == Synced(v, snap)
        r == Row(w, snap)
    IN  /\ HasRow(w, snap) /\ r.key = v'.act.key /\ v'.act.key = seen.key
        /\ Changeable(r) /\ ValidValue(r, v'.act.value)
        /\ RowHash(r) = RowHash(seen)

\* Every request is one the snapshot allows: a row that can be changed and is
\* not folded away, a pixel span of the present layout, an enabled box.
RequestIsAllowed ==
  /\ v.act.type = "set" =>
       \E i \in DOMAIN Rows(v, snap) : LET r == Rows(v, snap)[i] IN
         r.key = v.act.key /\ Changeable(r) /\ ~Hidden(v, snap, i)
  /\ v.act.type = "pixel" =>
       /\ v.act.layout = snap.groups /\ v.act.index + v.act.count <= PixelsOf(snap)
       /\ v.group => \E g \in DOMAIN snap.groups : /\ v.act.index = GroupStart(snap, g)
                                                   /\ v.act.count = snap.groups[g]
  /\ v.act.type = "cell" => snap.leds
  /\ v.act.type \in {"press", "reset"} => snap.game /\ snap.ready
  /\ v.act.type = "press" => v.act.box \in snap.enabled

\* A view that finds nothing to do, and is not on the page of cells.
Settled == /\ v.active /\ ~v.dirty /\ ~v.full /\ ~v.editing /\ ~snap.small
           /\ screen.hash = Hash(v, snap) /\ screen.small = snap.small
           /\ SyncSections(v, snap) = v
OnCells == Matrix /\ v.page = "led" /\ v.grid /\ snap.leds
\* Once the view finds nothing to do, each line of the table is the present content
\* of its row: what painting everything would show.
LinesAreCurrent ==
  Settled /\ ~OnCells =>
    LET l == Lines(v, snap) IN
    /\ screen.start = l.start /\ screen.shown = l.shown
    /\ \A i \in 1..TableLines :
         screen.line[i] = IF i <= l.shown /\ l.start + i - 1 <= Len(l.items)
                          THEN Content(v, snap, l.items[l.start + i - 1]) ELSE Blank

\* Retained painting keeps that promise as long as what the stamps leave out has
\* stayed as it is since everything was last painted: no page of cells, no other
\* glyphs, no other choices behind the same labels.
ScreenIsCurrent == screen.pens = {RowPen(v, snap)} => LinesAreCurrent
=============================================================================
