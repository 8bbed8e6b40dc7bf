------------------------------- MODULE Session -------------------------------
(***************************************************************************)
(* Who owns the terminal and the keyboard of an interactive session        *)
(* (src/portable_shell.c and the workspace files it includes).             *)
(*                                                                         *)
(* A session shows a prompt or one of the workspaces: a board (task table  *)
(* or control panel, alone or above a prompt), a menu, a form, a file      *)
(* browser, a document, a hex editor, the history dialog.  Each has flags  *)
(* of its own, enters and leaves the alternate screen and mouse reporting  *)
(* by itself, and closes some of the others when it opens.                 *)
(*                                                                         *)
(* Handlers nest: closing a form runs a callback that may open a menu,     *)
(* whose opening closes a board.  So a handler is an operator from a       *)
(* session to a session, or, where the user's data or a callback decides,  *)
(* to the set of sessions it may leave; an action applies one of them.     *)
(***************************************************************************)
EXTENDS Integers

CONSTANTS MaxDepth,  \* PS_MENU_DEPTH: menus that may be stacked
          Pages      \* pages of the attached control panel

ASSUME SessionAssumption ==
  /\ MaxDepth \in Nat \ {0}
  /\ Pages \in 1 .. 4

VARIABLE s           \* the session, as the fields the handlers test and set

Tabs == 0 .. 3       \* tasks, variables, jobs, session
Jobs == 2

\* A draft: no editor, nothing to save, edits to save, asking what to do with them.
Draft == {"none", "clean", "dirty", "ask"}

Session == [
  started : BOOLEAN, exit : BOOLEAN,
  form : BOOLEAN, files : BOOLEAN, hex : Draft, doc : Draft, readonly : BOOLEAN,
  dialog : BOOLEAN,                        \* history_dialog
  depth : 0 .. MaxDepth, screen : BOOLEAN, \* menu_depth, menu_screen
  framed : BOOLEAN,                        \* the terminal is large enough to frame a menu
  board : BOOLEAN, control : BOOLEAN, tab : Tabs, editing : BOOLEAN,
  table_prompt : BOOLEAN, focus : BOOLEAN, \* PS_TABLE_PROMPT, table_prompt_focus
  search : BOOLEAN,
  alt : BOOLEAN, mouse : BOOLEAN,          \* modes the terminal has been set to
  closed : BOOLEAN,                        \* ps_close has returned
  leaving : BOOLEAN ]                      \* the user wants out, the host opens nothing

Keys == {"enter", "esc", "ctrl_c", "ctrl_q", "ctrl_s", "ctrl_z", "ctrl_r", "ctrl_d",
         "tab", "1", "2", "3", "4", "f2", "f3", "f4", "f7", "c", "d", "s", "q"}
Letters == {"c", "d", "s", "q"}

-----------------------------------------------------------------------------
\* Closing a workspace.  None of these runs a callback.  (Mutations: the panel stays;
\* the screen stays; the board's screen goes with the dialog.)
TableCloseKeepsPanel(t) == [t EXCEPT !.mouse = FALSE, !.alt = FALSE, !.editing = FALSE,
                                     !.board = FALSE]
TableClose(t) == [t EXCEPT !.mouse = FALSE, !.alt = FALSE, !.editing = FALSE,
                           !.control = FALSE, !.board = FALSE]
BoardClose(t) == IF t.board THEN TableClose(t) ELSE t
FilesClose(t) ==
  IF t.files THEN [t EXCEPT !.files = FALSE, !.mouse = FALSE, !.alt = FALSE] ELSE t
MenuCloseKeepsScreen(t) == [t EXCEPT !.depth = 0]
MenuClose(t)  ==
  LET u == IF t.screen THEN [t EXCEPT !.mouse = FALSE, !.alt = FALSE, !.screen = FALSE] ELSE t
  IN [u EXCEPT !.depth = 0]
DocClose(t)    == [t EXCEPT !.doc = "none", !.alt = FALSE]
HexClose(t)    == [t EXCEPT !.hex = "none", !.alt = FALSE]
DialogCloseScreen(t) == [t EXCEPT !.dialog = FALSE, !.alt = FALSE]
DialogClose(t) == [t EXCEPT !.dialog = FALSE, !.alt = @ /\ (t.board \/ ~t.dialog)]
FormClose(t)   == [t EXCEPT !.form = FALSE, !.mouse = FALSE, !.alt = FALSE]

\* Opening one, with what each refuses and what each closes first.
TableOpen(t, tab) ==
  IF t.doc # "none" \/ t.form THEN t
  ELSE LET u == [MenuClose(FilesClose(t)) EXCEPT !.tab = tab, !.editing = FALSE]
       IN IF u.board THEN u
          ELSE [u EXCEPT !.board = TRUE, !.focus = t.table_prompt, !.alt = TRUE, !.mouse = TRUE]
TableStyle(t, prompt) == [t EXCEPT !.table_prompt = IF t.editing THEN @ ELSE prompt]
BoardCommand(t, prompt, tab) ==
  TableOpen([TableStyle(t, prompt) EXCEPT !.control = FALSE], tab)
PanelOpen(t, page) == IF t.form THEN t ELSE TableOpen([t EXCEPT !.control = TRUE], page)
PanelAttach(t) == IF t.control /\ ~t.editing THEN TableClose(t) ELSE t

MenuRefresh(t) ==
  IF t.framed THEN [t EXCEPT !.alt = TRUE, !.screen = TRUE, !.mouse = TRUE] ELSE t
MenuOpen(t) ==
  IF t.form \/ t.exit \/ t.doc # "none" THEN t
  ELSE MenuRefresh([MenuClose(FilesClose(BoardClose(t)))
                      EXCEPT !.search = FALSE, !.depth = 1])

\* (Mutation: over a board.)
FormOpenOnBoard(t) ==
  IF t.exit \/ t.form \/ t.depth # 0 \/ t.doc # "none" \/ t.files THEN t
  ELSE [t EXCEPT !.form = TRUE, !.search = FALSE, !.alt = TRUE, !.mouse = TRUE]
FormOpen(t) ==
  IF t.exit \/ t.form \/ t.board \/ t.depth # 0 \/ t.doc # "none" \/ t.files THEN t
  ELSE [t EXCEPT !.form = TRUE, !.search = FALSE, !.alt = TRUE, !.mouse = TRUE]
FilesOpen(t) ==
  IF t.form \/ t.doc # "none" \/ t.exit THEN t
  ELSE [FilesClose(MenuClose(BoardClose(t))) EXCEPT !.files = TRUE, !.alt = TRUE, !.mouse = TRUE]
DocOpen(t, readonly) ==
  LET u == [t EXCEPT !.readonly = readonly] IN
  IF t.form \/ t.doc # "none" \/ t.exit THEN u
  ELSE [MenuClose(FilesClose(BoardClose(u)))
          EXCEPT !.doc = "clean", !.search = FALSE, !.alt = TRUE]
HexOpen(t) ==
  IF t.hex # "none" \/ t.doc # "none" \/ t.form \/ t.dialog \/ t.exit THEN t
  ELSE [MenuClose(FilesClose(BoardClose(t))) EXCEPT !.hex = "clean", !.alt = TRUE]

-----------------------------------------------------------------------------
\* What the host does with a session it has in hand: nothing, or one call.
Opens(t) == {t, PanelAttach(t), MenuOpen(t), FormOpen(t), FilesOpen(t),
             HexOpen(t), MenuClose(t), FilesClose(t)}
            \cup {TableStyle(t, prompt) : prompt \in BOOLEAN}
            \cup {BoardCommand(t, prompt, tab) : prompt \in BOOLEAN, tab \in Tabs}
            \cup {PanelOpen(t, page) : page \in 0 .. Pages - 1}
            \cup {DocOpen(t, readonly) : readonly \in BOOLEAN}

\* ps_close.  A form it cancels has a done callback, which opens nothing here.
CloseSession(t) ==
  LET a == DialogClose(IF t.hex # "none" THEN HexClose(t) ELSE t)
      b == IF a.form THEN FormClose(a) ELSE a
      c == FilesClose(b)
      d == MenuClose(IF c.doc # "none" THEN DocClose(c) ELSE c)
      e == IF d.board THEN [d EXCEPT !.mouse = FALSE, !.alt = FALSE, !.board = FALSE] ELSE d
  IN [e EXCEPT !.started = FALSE, !.closed = TRUE]
Exit(t) == {CloseSession([t EXCEPT !.exit = TRUE])}

\* A command, a menu action, a done or a pick callback runs.
Calls(t) == IF t.leaving THEN {t} ELSE Opens(t) \cup Exit(t)

-----------------------------------------------------------------------------
\* The key handler of each workspace.
FormKey(t, key) ==
  CASE key \in {"esc", "ctrl_c"} -> Calls(FormClose(t))
    [] key = "enter"             -> {t} \cup Calls(FormClose(t))
    [] OTHER                     -> {t}

FileKey(t, key) ==
  CASE key \in {"esc", "ctrl_c"} -> Calls(FilesClose(t))
    [] key = "enter"             -> {t} \cup Calls(FilesClose(t))
    [] OTHER                     -> {t}

\* What closing an editor with this draft must ask about.  (Mutation: nothing.)
Careless(draft) == FALSE
Modified(draft) == draft = "dirty"

\* A save may fail; typing may change nothing (same digit, full buffer).
HexKey(t, key) ==
  IF t.hex = "ask"
  THEN CASE key \in {"esc", "ctrl_c"} -> {[t EXCEPT !.hex = "dirty"]}
         [] key = "d"                 -> {HexClose(t)}
         [] key = "s"                 -> {t, HexClose(t)}
         [] OTHER                     -> {t}
  ELSE CASE key \in {"esc", "ctrl_c"} ->
              IF Modified(t.hex) THEN {[t EXCEPT !.hex = "ask"]} ELSE {HexClose(t)}
         [] key = "ctrl_s"            -> {t, [t EXCEPT !.hex = "clean"]}
         [] key \in Letters           -> {t, [t EXCEPT !.hex = "dirty"]}
         [] OTHER                     -> {t}

DocumentKey(t, key) ==
  CASE t.readonly /\ key \notin {"esc", "ctrl_q", "ctrl_c"} -> {t}
    [] t.doc = "ask" ->
         (CASE key \in {"c", "esc"} -> {[t EXCEPT !.doc = "dirty"]}
            [] key = "d"            -> {DocClose(t)}
            [] key = "s"            -> {t} \cup (IF t.readonly THEN {} ELSE {DocClose(t)})
            [] OTHER                -> {t})
    [] OTHER ->
         (CASE key \in {"esc", "ctrl_q", "ctrl_c"} ->
                 IF Modified(t.doc) THEN {[t EXCEPT !.doc = "ask"]} ELSE {DocClose(t)}
            [] key = "ctrl_s" -> {t, [t EXCEPT !.doc = "clean"]}
            [] key = "ctrl_z" -> {[t EXCEPT !.doc = d] : d \in {"clean", "dirty"}}
            [] key \in Letters \cup {"enter", "tab"} -> {t, [t EXCEPT !.doc = "dirty"]}
            [] OTHER          -> {t})

\* (Mutations: menus stack without a limit; the first menu does not close.)
SubmenuUnbounded(t) == {t.depth + 1}
Submenu(t) == {t.depth + 1} \cap 1 .. MaxDepth
MenuBackStays(t) == IF t.depth > 1 THEN MenuRefresh([t EXCEPT !.depth = @ - 1]) ELSE t

\* ps_menu_choose: 0 goes back; an item opens a submenu, runs, or is unavailable.
MenuBack(t) == IF t.depth > 1 THEN MenuRefresh([t EXCEPT !.depth = @ - 1]) ELSE MenuClose(t)
MenuChoose(t) == {t, MenuBack(t)} \cup Calls(MenuClose(t))
                 \cup {MenuRefresh([t EXCEPT !.depth = d]) : d \in Submenu(t)}
MenuKey(t, key) ==
  CASE key = "esc"    -> {MenuBack(t)}
    [] key = "ctrl_c" -> {MenuClose(t)}
    [] key = "enter"  -> MenuChoose(t)
    [] OTHER          -> {t}

\* table_key and control_key; the panel's own key handler may take the key first.
TabCount(t) == IF t.control THEN Pages ELSE 4
CanEdit(t)  == t.control \/ t.tab < Jobs
TableKey(t, key) ==
  IF t.editing
  THEN CASE key \in {"esc", "ctrl_c"} -> {[t EXCEPT !.editing = FALSE]}
         [] key = "enter" -> {[t EXCEPT !.editing = e] : e \in {FALSE, t.control}}
         [] OTHER         -> {t}
  ELSE CASE key \in {"esc", "ctrl_c", "q"} -> {TableClose(t)}
         [] key \in {"enter", "f2"} /\ CanEdit(t) -> {t, [t EXCEPT !.editing = TRUE]}
         [] key = "tab"                    -> {[t EXCEPT !.tab = (@ + 1) % TabCount(t)]}
         [] key \in {"1", "2", "3", "4"}   -> {t} \cup {[t EXCEPT !.tab = tab] : tab \in 0 .. TabCount(t) - 1}
         [] OTHER                          -> {t}
BoardKey(t, key) ==
  TableKey(t, key) \cup (IF t.control /\ ~t.editing /\ ~t.leaving THEN Calls(t) ELSE {})

\* The prompt: an incremental search, then bindings, then the editing keys.
PromptKey(t, key) ==
  IF t.search
  THEN {IF key \in {"enter", "esc", "ctrl_c"} THEN [t EXCEPT !.search = FALSE] ELSE t}
  ELSE Calls(t) \cup
       (CASE key = "f7"     -> {t, [t EXCEPT !.dialog = TRUE, !.alt = TRUE]}
          [] key = "f2"     -> {TableOpen(t, 0)}
          [] key = "f3"     -> {TableOpen(t, Jobs)}
          [] key = "ctrl_d" -> {t} \cup Exit(t)
          [] key = "ctrl_r" -> {[t EXCEPT !.search = TRUE]}
          [] OTHER          -> {t})

\* F4 moves the focus between a board and its prompt.  (Mutation: also out of an edit.)
FocusKeyAlways(t, key) == t.board /\ t.table_prompt /\ key = "f4"
FocusKey(t, key) == t.board /\ t.table_prompt /\ key = "f4" /\ ~t.editing

\* shell_key below the history dialog, and the whole of it.
LowerKey(t, key) ==
  CASE t.exit                                        -> {t}
    [] t.depth # 0                                   -> MenuKey(t, key)
    [] FocusKey(t, key)                                 -> {[t EXCEPT !.focus = ~@]}
    [] t.board /\ ~(t.table_prompt /\ t.focus)       -> BoardKey(t, key)
    [] t.board /\ key = "esc"                        -> {[t EXCEPT !.focus = FALSE]}
    [] OTHER                                         -> PromptKey(t, key)

DialogKey(t, key) ==
  CASE key \in {"esc", "ctrl_c", "tab"} -> {DialogClose(t)}
    [] key = "enter"                    -> LowerKey(DialogClose(t), "enter")
    [] OTHER                            -> {t}

ShellKey(t, key) ==
  CASE t.exit          -> {t}
    [] t.form          -> FormKey(t, key)
    [] t.files         -> FileKey(t, key)
    [] t.hex # "none"  -> HexKey(t, key)
    [] t.doc # "none"  -> DocumentKey(t, key)
    [] t.dialog        -> DialogKey(t, key)
    [] OTHER           -> LowerKey(t, key)

\* A pasted character.
PasteByte(t) ==
  CASE t.form         -> {t}
    [] t.hex # "none" -> UNION {HexKey(t, key) : key \in Letters}
    [] t.doc # "none" -> IF t.doc = "ask" \/ t.readonly THEN {t} ELSE {t, [t EXCEPT !.doc = "dirty"]}
    [] OTHER          -> {t}

\* A mouse event.  Workspaces select; a board turns clicks into keys.
TableMouse(t) ==
  LET above == IF t.board /\ t.table_prompt /\ ~t.editing THEN [t EXCEPT !.focus = FALSE] ELSE t
      below == IF t.board /\ t.table_prompt /\ ~t.editing THEN [t EXCEPT !.focus = TRUE] ELSE t
      tabs  == IF t.board /\ ~t.editing
               THEN {[above EXCEPT !.tab = tab] : tab \in 0 .. TabCount(t) - 1} ELSE {}
      keys  == {"enter"} \cup (IF t.editing THEN {"esc"} ELSE {}) \cup (IF t.control THEN {"f2"} ELSE {})
  IN {t, above, below} \cup tabs \cup (IF t.board THEN UNION {ShellKey(above, key) : key \in keys} ELSE {})
MouseEvent(t) ==
  IF t.files \/ t.depth # 0 \/ t.form
  THEN {t, [t EXCEPT !.focus = @ /\ ~(t.board /\ t.table_prompt)]}
  ELSE TableMouse(t)

Resized(t, framed) ==
  LET u == [t EXCEPT !.framed = framed] IN
  IF ~(u.form \/ u.dialog \/ u.hex # "none" \/ u.doc # "none" \/ u.files) /\ u.depth # 0
  THEN MenuRefresh(u) ELSE u

-----------------------------------------------------------------------------
Init == s \in [started : {FALSE}, exit : {FALSE}, form : {FALSE}, files : {FALSE},
               hex : {"none"}, doc : {"none"}, readonly : {FALSE}, dialog : {FALSE},
               depth : {0}, screen : {FALSE}, framed : BOOLEAN, board : {FALSE},
               control : {FALSE}, tab : {0}, editing : {FALSE}, table_prompt : BOOLEAN, focus : {FALSE},
               search : {FALSE}, alt : {FALSE}, mouse : {FALSE},
               closed : {FALSE}, leaving : {FALSE}]

\* ps_start; the hosts start a session once.
Start == ~s.started /\ ~s.closed /\ s' = [s EXCEPT !.started = TRUE]

Live == s.started /\ ~s.exit

Press(key)  == Live /\ ~s.leaving /\ s' \in ShellKey(s, key)
Paste       == Live /\ ~s.leaving /\ s' \in PasteByte(s)
Mouse       == Live /\ ~s.leaving /\ s.mouse /\ s' \in MouseEvent(s)
Resize      == Live /\ \E framed \in BOOLEAN : s' = Resized(s, framed)
HangUp      == Live /\ ~s.leaving /\ s' \in {CloseSession(s)} \cup Exit(s)

\* The host opens a workspace from its own loop.  Most functions refuse a document and
\* few the dialog or the hex editor, so over those a host has to wait.
HostCall == /\ Live /\ ~s.leaving
            /\ ~s.dialog /\ s.hex = "none" /\ s.doc = "none"
            /\ s' \in Opens(s)

\* The user gives up: Escape, and D where an editor asks about a draft.
GiveUp == Live /\ ~s.leaving /\ s' = [s EXCEPT !.leaving = TRUE]
LeaveKey == IF s.hex = "ask" \/ (s.hex = "none" /\ s.doc = "ask") THEN "d" ELSE "esc"
Leave == Live /\ s.leaving /\ s' \in ShellKey(s, LeaveKey)

Next == \/ Start
        \/ \E key \in Keys : Press(key)
        \/ Paste \/ Mouse \/ Resize \/ HostCall \/ HangUp \/ GiveUp \/ Leave

Spec == Init /\ [][Next]_s
-----------------------------------------------------------------------------
TypeOK == s \in Session

\* ps_terminal_state: what the session tells the host that it owns.
CapturesMouse == s.board \/ s.screen \/ s.files \/ s.form
OwnsScreen    == CapturesMouse \/ s.dialog \/ s.doc # "none" \/ s.hex # "none"
OwnsMouse     == CapturesMouse /\ ~s.dialog

\* The modes the terminal was put in are the ones the session reports, whatever
\* sequence of workspaces replaced each other.  The history dialog reports no mouse
\* and leaves the mode of the board under it alone.
TerminalMatches == s.alt = OwnsScreen /\ (~s.dialog => s.mouse = OwnsMouse)

\* Workspaces replace each other: two are never open, and what can lie over a board
\* or the prompt is the history dialog only.
OneWorkspace ==
  LET open == {w \in {"form", "files", "hex", "doc", "menu", "board"} :
                 CASE w = "form"  -> s.form
                   [] w = "files" -> s.files
                   [] w = "hex"   -> s.hex # "none"
                   [] w = "doc"   -> s.doc # "none"
                   [] w = "menu"  -> s.depth # 0
                   [] w = "board" -> s.board}
  IN /\ \A v, w \in open : v = w
     /\ s.dialog => open \subseteq {"board"}

\* An edit or a panel never outlives its board: ps_panel_attach and
\* ps_set_table_style refuse a session that is editing, and table_open would show
\* the panel instead of the tasks.  And an edit has the keys: those typed at the prompt
\* under the board would otherwise reach it.
EditOnBoard == /\ ~s.closed => (s.editing \/ s.control => s.board)
               /\ s.board /\ s.table_prompt /\ s.focus => ~s.editing

\* ps_close gives the terminal back.
ClosedIsRestored ==
  s.closed => ~s.alt /\ ~s.mouse /\ ~OwnsScreen /\ s.depth = 0

\* Edits are lost only when the user was asked and answered, or with the session.
\* The hex editor takes an answer from a paste too.
Unsaved  == {"dirty", "ask"}
Answered == Press("d") \/ Press("s") \/ Leave
DraftKept ==
  [][ /\ s.doc \in Unsaved /\ s'.doc = "none" => s'.closed \/ (s.doc = "ask" /\ Answered)
      /\ s.hex \in Unsaved /\ s'.hex = "none" =>
           s'.closed \/ (s.hex = "ask" /\ (Answered \/ Paste)) ]_s

\* The plain prompt, where leaving everything leads.
AtPrompt == ~OwnsScreen /\ s.depth = 0 /\ ~s.alt /\ ~s.mouse /\ ~s.search
=============================================================================
