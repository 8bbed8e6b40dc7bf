---------------------------- MODULE Session_proofs ----------------------------
(***************************************************************************)
(* Proofs about Session, for every depth of menus and number of panel      *)
(* pages.  The handlers nest, so the invariant is a predicate on sessions, *)
(* and every operator that makes a session of a session has a lemma.       *)
(***************************************************************************)
EXTENDS MCSession, TLAPS

\* What ps_terminal_state reports, of any session.
Captures(t) == t.board \/ t.screen \/ t.files \/ t.form
Owns(t) == Captures(t) \/ t.dialog \/ t.doc # "none" \/ t.hex # "none"

\* What may be open together: each workspace excludes those it closes or that refuse it.
Alone(t) ==
  /\ t.form => /\ ~t.files /\ t.hex = "none" /\ t.doc = "none"
               /\ t.depth = 0 /\ ~t.board /\ ~t.dialog
  /\ t.files => t.hex = "none" /\ t.doc = "none" /\ t.depth = 0 /\ ~t.board /\ ~t.dialog
  /\ t.hex # "none" => t.doc = "none" /\ t.depth = 0 /\ ~t.board /\ ~t.dialog
  /\ t.doc # "none" => t.depth = 0 /\ ~t.board /\ ~t.dialog
  /\ t.depth # 0 => ~t.board /\ ~t.dialog
  /\ t.screen => t.depth # 0

\* A session that has not been closed: its modes are those of what is open, also of the
\* mouse under the history dialog, which the session does not report.
Running(t) ==
  /\ t \in Session
  /\ ~t.closed
  /\ Alone(t)
  /\ t.alt <=> Owns(t)
  /\ t.mouse <=> Captures(t)
  /\ t.editing => t.board
  /\ t.board /\ t.table_prompt /\ t.focus => ~t.editing

\* The panel is shown on a board.  ps_panel_open breaks this for a moment.
Settled(t) == t.control => t.board

\* A closed session owns nothing and is never started again.
Over(t) ==
  /\ t \in Session
  /\ t.closed /\ ~t.started
  /\ ~t.alt /\ ~t.mouse /\ ~Owns(t) /\ t.depth = 0

\* The inductive invariant.
Good(t) == (Running(t) /\ Settled(t)) \/ Over(t)

\* A session in which nothing but a form or a board refuses or covers what is opened next.
Ready(t) == Running(t) /\ ~t.dialog /\ t.hex = "none" /\ t.doc = "none"

LEMMA Numbers ==
  /\ 0 \in 0 .. MaxDepth /\ 1 \in 0 .. MaxDepth
  /\ \A page \in 0 .. Pages - 1 : page \in Tabs
BY SessionAssumption DEF Tabs

-----------------------------------------------------------------------------
\* Closing.
LEMMA TableCloseReady ==
  ASSUME NEW t, Running(t), t.board, ~t.dialog
  PROVE  /\ Ready(TableClose(t)) /\ ~TableClose(t).board /\ ~TableClose(t).control
         /\ TableClose(t).form = t.form
BY DEF Ready, Running, Alone, Owns, Captures, Session, TableClose

LEMMA BoardCloseReady ==
  ASSUME NEW t, Ready(t)
  PROVE  /\ Ready(BoardClose(t)) /\ ~BoardClose(t).board /\ BoardClose(t).form = t.form
         /\ Settled(t) => Settled(BoardClose(t))
<1>1. CASE t.board
  <2>1. BoardClose(t) = TableClose(t)
    BY <1>1 DEF BoardClose
  <2> QED BY <1>1, <2>1, TableCloseReady DEF Ready, Settled
<1>2. CASE ~t.board
  BY <1>2 DEF BoardClose
<1> QED BY <1>1, <1>2

LEMMA FilesCloseReady ==
  ASSUME NEW t, Ready(t)
  PROVE  /\ Ready(FilesClose(t)) /\ ~FilesClose(t).files /\ FilesClose(t).form = t.form
         /\ FilesClose(t).board = t.board /\ FilesClose(t).control = t.control
         /\ FilesClose(t).doc = "none"
<1>1. CASE t.files
  <2> DEFINE u == [t EXCEPT !.files = FALSE, !.mouse = FALSE, !.alt = FALSE]
  <2>1. FilesClose(t) = u
    BY <1>1 DEF FilesClose
  <2>2. Ready(u) /\ ~u.files /\ u.form = t.form /\ u.board = t.board /\ u.control = t.control
    BY <1>1 DEF Ready, Running, Alone, Owns, Captures, Session
  <2> HIDE DEF u
  <2> QED BY <2>1, <2>2 DEF Ready
<1>2. CASE ~t.files
  BY <1>2 DEF FilesClose, Ready
<1> QED BY <1>1, <1>2

LEMMA MenuCloseReady ==
  ASSUME NEW t, Ready(t)
  PROVE  /\ Ready(MenuClose(t)) /\ MenuClose(t).depth = 0 /\ MenuClose(t).form = t.form
         /\ MenuClose(t).board = t.board /\ MenuClose(t).files = t.files
         /\ MenuClose(t).control = t.control /\ ~MenuClose(t).screen
<1>1. CASE t.screen
  <2> DEFINE u == [t EXCEPT !.mouse = FALSE, !.alt = FALSE, !.screen = FALSE, !.depth = 0]
  <2>1. MenuClose(t) = u
    BY <1>1 DEF MenuClose, Ready, Running, Session
  <2>2. /\ Ready(u) /\ u.depth = 0 /\ u.form = t.form /\ u.board = t.board
        /\ u.files = t.files /\ u.control = t.control /\ ~u.screen
    BY Numbers, <1>1 DEF Ready, Running, Alone, Owns, Captures, Session
  <2> HIDE DEF u
  <2> QED BY <2>1, <2>2
<1>2. CASE ~t.screen
  <2> DEFINE u == [t EXCEPT !.depth = 0]
  <2>1. MenuClose(t) = u
    BY <1>2 DEF MenuClose
  <2>2. /\ Ready(u) /\ u.depth = 0 /\ u.form = t.form /\ u.board = t.board
        /\ u.files = t.files /\ u.control = t.control /\ ~u.screen
    BY Numbers, <1>2 DEF Ready, Running, Alone, Owns, Captures, Session
  <2> HIDE DEF u
  <2> QED BY <2>1, <2>2
<1> QED BY <1>1, <1>2

LEMMA EditorsCloseReady ==
  ASSUME NEW t, Running(t)
  PROVE  /\ t.doc # "none" => Ready(DocClose(t)) /\ (Settled(t) => Settled(DocClose(t)))
         /\ t.hex # "none" => Ready(HexClose(t)) /\ (Settled(t) => Settled(HexClose(t)))
         /\ t.form => /\ Ready(FormClose(t)) /\ ~FormClose(t).form
                      /\ Settled(t) => Settled(FormClose(t))
BY DEF Ready, Running, Settled, Alone, Owns, Captures, Session, DocClose, HexClose, FormClose,
       Draft

LEMMA DialogCloseRuns ==
  ASSUME NEW t, Running(t)
  PROVE  /\ Running(DialogClose(t)) /\ ~DialogClose(t).dialog
         /\ DialogClose(t).hex = t.hex /\ DialogClose(t).doc = t.doc
         /\ DialogClose(t).files = t.files /\ DialogClose(t).form = t.form
         /\ Settled(t) => Settled(DialogClose(t))
BY DEF Running, Settled, Alone, Owns, Captures, Session, DialogClose

-----------------------------------------------------------------------------
\* Opening.  A table opens over the prompt, or an open one only changes its page.
LEMMA TableOpenReady ==
  ASSUME NEW t, NEW tab \in Tabs, Ready(t), t.form => Settled(t)
  PROVE  Ready(TableOpen(t, tab)) /\ Settled(TableOpen(t, tab))
<1>1. CASE t.form
  BY <1>1 DEF TableOpen
<1>2. CASE ~t.form
  <2> DEFINE v == MenuClose(FilesClose(t))
             u == [v EXCEPT !.tab = tab, !.editing = FALSE]
             w == [u EXCEPT !.board = TRUE, !.focus = t.table_prompt, !.alt = TRUE, !.mouse = TRUE]
  <2>1. /\ Ready(v) /\ ~v.files /\ v.depth = 0 /\ v.board = t.board /\ ~v.form
        /\ v.control = t.control /\ ~v.screen
    BY <1>2, FilesCloseReady, MenuCloseReady
  <2>2. TableOpen(t, tab) = IF u.board THEN u ELSE [u EXCEPT !.board = TRUE, !.focus = t.table_prompt, !.alt = TRUE, !.mouse = TRUE]
    BY <1>2 DEF TableOpen, Ready
  <2> HIDE DEF v
  <2>3. u.board = v.board
    BY <2>1 DEF Ready, Running, Session
  <2>4. Ready(u) /\ (u.board => Settled(u))
    BY <2>1 DEF Ready, Running, Alone, Owns, Captures, Session, Settled
  <2>5. t.table_prompt \in BOOLEAN
    BY DEF Ready, Running, Session
  <2>6. ~u.board => Ready(w) /\ Settled(w)
    <3> SUFFICES ASSUME ~v.board PROVE Ready(w) /\ Settled(w)
      BY <2>3
    <3> QED BY <2>1, <2>5 DEF Ready, Running, Alone, Owns, Captures, Session, Settled
  <2> HIDE DEF u
  <2> QED BY <2>2, <2>4, <2>6
<1> QED BY <1>1, <1>2

LEMMA MenuRefreshReady ==
  ASSUME NEW t, Ready(t), Settled(t), t.depth # 0
  PROVE  Ready(MenuRefresh(t)) /\ Settled(MenuRefresh(t))
<1>1. CASE t.framed
  <2> DEFINE u == [t EXCEPT !.alt = TRUE, !.screen = TRUE, !.mouse = TRUE]
  <2>1. MenuRefresh(t) = u
    BY <1>1 DEF MenuRefresh
  <2>2. Ready(u) /\ Settled(u)
    BY DEF Ready, Running, Settled, Alone, Owns, Captures, Session
  <2> HIDE DEF u
  <2> QED BY <2>1, <2>2
<1>2. CASE ~t.framed
  BY <1>2 DEF MenuRefresh
<1> QED BY <1>1, <1>2

\* What a workspace closes before it opens: a board and a browser, then a menu.
LEMMA ClearedReady ==
  ASSUME NEW t, Ready(t), Settled(t), ~t.form
  PROVE  /\ Ready(MenuClose(FilesClose(BoardClose(t))))
         /\ Ready(FilesClose(MenuClose(BoardClose(t))))
         /\ \A v \in {MenuClose(FilesClose(BoardClose(t))), FilesClose(MenuClose(BoardClose(t)))} :
              ~v.form /\ ~v.board /\ ~v.files /\ v.depth = 0 /\ ~v.control /\ ~v.screen
<1> DEFINE b == BoardClose(t)
<1>1. Ready(b) /\ ~b.board /\ ~b.form /\ ~b.control
  BY BoardCloseReady DEF Settled
<1>2. /\ Ready(FilesClose(b)) /\ Ready(MenuClose(b))
      /\ ~FilesClose(b).files /\ ~FilesClose(b).form
      /\ ~FilesClose(b).board /\ ~FilesClose(b).control
      /\ ~MenuClose(b).form /\ ~MenuClose(b).board /\ ~MenuClose(b).control
      /\ MenuClose(b).depth = 0 /\ ~MenuClose(b).screen
  BY <1>1, FilesCloseReady, MenuCloseReady
<1>3. /\ Ready(MenuClose(FilesClose(b)))
      /\ LET v == MenuClose(FilesClose(b)) IN
           ~v.form /\ ~v.board /\ ~v.files /\ v.depth = 0 /\ ~v.control /\ ~v.screen
  BY <1>2, MenuCloseReady
<1>4. /\ Ready(FilesClose(MenuClose(b)))
      /\ LET v == FilesClose(MenuClose(b)) IN
           ~v.form /\ ~v.board /\ ~v.files /\ v.depth = 0 /\ ~v.control /\ ~v.screen
  <2> DEFINE m == MenuClose(b)
  <2>1. FilesClose(m).depth = m.depth /\ FilesClose(m).screen = m.screen
    BY <1>2 DEF FilesClose, Ready, Running, Session
  <2> QED BY <1>2, <2>1, FilesCloseReady
<1> QED BY <1>3, <1>4

LEMMA MenuOpenReady ==
  ASSUME NEW t, Ready(t), Settled(t)
  PROVE  Ready(MenuOpen(t)) /\ Settled(MenuOpen(t))
<1>1. CASE t.form \/ t.exit
  BY <1>1 DEF MenuOpen
<1>2. CASE ~t.form /\ ~t.exit
  <2> DEFINE v == MenuClose(FilesClose(BoardClose(t)))
             u == [v EXCEPT !.search = FALSE, !.depth = 1]
  <2>1. Ready(v) /\ ~v.form /\ ~v.board /\ ~v.files /\ v.depth = 0 /\ ~v.control /\ ~v.screen
    BY <1>2, ClearedReady
  <2>2. MenuOpen(t) = MenuRefresh(u)
    BY <1>2 DEF MenuOpen, Ready
  <2> HIDE DEF v
  <2>3. Ready(u) /\ Settled(u) /\ u.depth # 0
    <3>1. u \in Session
      BY <2>1, Numbers DEF Ready, Running, Session
    <3>2. u.depth = 1 /\ u.depth # 0
      BY <2>1 DEF Ready, Running, Session
    <3> QED BY <2>1, <3>1, <3>2 DEF Ready, Running, Settled, Alone, Owns, Captures, Session
  <2> HIDE DEF u
  <2> QED BY <2>2, <2>3, MenuRefreshReady
<1> QED BY <1>1, <1>2

LEMMA FormOpenReady ==
  ASSUME NEW t, Ready(t), Settled(t)
  PROVE  Ready(FormOpen(t)) /\ Settled(FormOpen(t))
<1> DEFINE refused == t.exit \/ t.form \/ t.board \/ t.depth # 0 \/ t.doc # "none" \/ t.files
<1>1. CASE refused
  BY <1>1 DEF FormOpen
<1>2. CASE ~refused
  <2> DEFINE u == [t EXCEPT !.form = TRUE, !.search = FALSE, !.alt = TRUE, !.mouse = TRUE]
  <2>1. FormOpen(t) = u
    BY <1>2 DEF FormOpen
  <2>2. Ready(u) /\ Settled(u)
    BY <1>2 DEF Ready, Running, Settled, Alone, Owns, Captures, Session
  <2> HIDE DEF u
  <2> QED BY <2>1, <2>2
<1> QED BY <1>1, <1>2

LEMMA FilesOpenReady ==
  ASSUME NEW t, Ready(t), Settled(t)
  PROVE  Ready(FilesOpen(t)) /\ Settled(FilesOpen(t))
<1>1. CASE t.form \/ t.exit
  BY <1>1 DEF FilesOpen
<1>2. CASE ~t.form /\ ~t.exit
  <2> DEFINE v == FilesClose(MenuClose(BoardClose(t)))
             u == [v EXCEPT !.files = TRUE, !.alt = TRUE, !.mouse = TRUE]
  <2>1. Ready(v) /\ ~v.form /\ ~v.board /\ ~v.files /\ v.depth = 0 /\ ~v.control /\ ~v.screen
    BY <1>2, ClearedReady
  <2>2. FilesOpen(t) = u
    BY <1>2 DEF FilesOpen, Ready
  <2> HIDE DEF v
  <2>3. Ready(u) /\ Settled(u)
    BY <2>1 DEF Ready, Running, Settled, Alone, Owns, Captures, Session
  <2> HIDE DEF u
  <2> QED BY <2>2, <2>3
<1> QED BY <1>1, <1>2

LEMMA DocOpenRuns ==
  ASSUME NEW t, NEW readonly \in BOOLEAN, Ready(t), Settled(t)
  PROVE  Running(DocOpen(t, readonly)) /\ Settled(DocOpen(t, readonly))
<1> DEFINE u == [t EXCEPT !.readonly = readonly]
<1>1. Ready(u) /\ Settled(u) /\ u.form = t.form /\ u.doc = "none"
  BY DEF Ready, Running, Settled, Alone, Owns, Captures, Session
<1>2. DocOpen(t, readonly) =
        IF t.form \/ t.exit THEN u
        ELSE [MenuClose(FilesClose(BoardClose(u))) EXCEPT !.doc = "clean", !.search = FALSE, !.alt = TRUE]
  BY DEF DocOpen, Ready
<1> HIDE DEF u
<1>3. CASE t.form \/ t.exit
  BY <1>1, <1>2, <1>3 DEF Ready
<1>4. CASE ~(t.form \/ t.exit)
  <2> DEFINE v == MenuClose(FilesClose(BoardClose(u)))
             w == [v EXCEPT !.doc = "clean", !.search = FALSE, !.alt = TRUE]
  <2>1. Ready(v) /\ ~v.form /\ ~v.board /\ ~v.files /\ v.depth = 0 /\ ~v.control /\ ~v.screen
    BY <1>1, <1>4, ClearedReady
  <2> HIDE DEF v
  <2>2. Running(w) /\ Settled(w)
    BY <2>1 DEF Ready, Running, Settled, Alone, Owns, Captures, Session, Draft
  <2> QED BY <1>2, <1>4, <2>2 DEF v
<1> QED BY <1>3, <1>4

LEMMA HexOpenRuns ==
  ASSUME NEW t, Ready(t), Settled(t)
  PROVE  Running(HexOpen(t)) /\ Settled(HexOpen(t))
<1>1. CASE t.form \/ t.exit
  BY <1>1 DEF HexOpen, Ready
<1>2. CASE ~t.form /\ ~t.exit
  <2> DEFINE v == MenuClose(FilesClose(BoardClose(t)))
             u == [v EXCEPT !.hex = "clean", !.alt = TRUE]
  <2>1. Ready(v) /\ ~v.form /\ ~v.board /\ ~v.files /\ v.depth = 0 /\ ~v.control /\ ~v.screen
    BY <1>2, ClearedReady
  <2>2. HexOpen(t) = u
    BY <1>2 DEF HexOpen, Ready
  <2> HIDE DEF v
  <2>3. Running(u) /\ Settled(u)
    BY <2>1 DEF Ready, Running, Settled, Alone, Owns, Captures, Session, Draft
  <2> HIDE DEF u
  <2> QED BY <2>2, <2>3
<1> QED BY <1>1, <1>2

\* The calls that only change a board.
LEMMA BoardCallsReady ==
  ASSUME NEW t, Ready(t), Settled(t), NEW prompt \in BOOLEAN
  PROVE  /\ Ready(PanelAttach(t)) /\ Settled(PanelAttach(t))
         /\ Ready(TableStyle(t, prompt)) /\ Settled(TableStyle(t, prompt))
         /\ \A tab \in Tabs : /\ Ready(BoardCommand(t, prompt, tab))
                              /\ Settled(BoardCommand(t, prompt, tab))
         /\ \A page \in 0 .. Pages - 1 : Ready(PanelOpen(t, page)) /\ Settled(PanelOpen(t, page))
<1>1. Ready(PanelAttach(t)) /\ Settled(PanelAttach(t))
  <2>1. CASE t.control /\ ~t.editing
    BY <2>1, TableCloseReady DEF PanelAttach, Settled, Ready
  <2>2. CASE ~(t.control /\ ~t.editing)
    BY <2>2 DEF PanelAttach
  <2> QED BY <2>1, <2>2
<1> DEFINE u == TableStyle(t, prompt)
<1>2. Ready(u) /\ Settled(u)
  BY DEF TableStyle, Ready, Running, Settled, Alone, Owns, Captures, Session
<1> HIDE DEF u
<1>3. ASSUME NEW tab \in Tabs
      PROVE  Ready(BoardCommand(t, prompt, tab)) /\ Settled(BoardCommand(t, prompt, tab))
  <2> DEFINE v == [u EXCEPT !.control = FALSE]
  <2>1. Ready(v) /\ Settled(v)
    BY <1>2 DEF Ready, Running, Settled, Alone, Owns, Captures, Session
  <2>2. BoardCommand(t, prompt, tab) = TableOpen(v, tab)
    BY DEF BoardCommand, u
  <2> HIDE DEF v
  <2> QED BY <2>1, <2>2, TableOpenReady
<1>4. ASSUME NEW page \in 0 .. Pages - 1
      PROVE  Ready(PanelOpen(t, page)) /\ Settled(PanelOpen(t, page))
  <2>1. CASE t.form
    BY <2>1 DEF PanelOpen
  <2>2. CASE ~t.form
    <3> DEFINE v == [t EXCEPT !.control = TRUE]
    <3>1. Ready(v) /\ ~v.form
      BY <2>2 DEF Ready, Running, Alone, Owns, Captures, Session
    <3>2. PanelOpen(t, page) = TableOpen(v, page)
      BY <2>2 DEF PanelOpen
    <3> HIDE DEF v
    <3> QED BY <3>1, <3>2, Numbers, TableOpenReady
  <2> QED BY <2>1, <2>2
<1> QED BY <1>1, <1>2, <1>3, <1>4 DEF u

\* Whatever the host opens or closes, at a moment when it may.
LEMMA OpensGood ==
  ASSUME NEW t, Ready(t), Settled(t), NEW u \in Opens(t)
  PROVE  Good(u)
<1>1. \A r : Ready(r) /\ Settled(r) => Good(r)
  BY DEF Ready, Good
<1>2. /\ Good(t) /\ Good(MenuOpen(t)) /\ Good(FormOpen(t)) /\ Good(FilesOpen(t))
      /\ Good(PanelAttach(t)) /\ Good(HexOpen(t))
  BY <1>1, MenuOpenReady, FormOpenReady, FilesOpenReady, BoardCallsReady, HexOpenRuns DEF Good
<1>3. Good(MenuClose(t)) /\ Good(FilesClose(t))
  BY <1>1, MenuCloseReady, FilesCloseReady DEF Settled
<1>4. ASSUME NEW prompt \in BOOLEAN
      PROVE  /\ Good(TableStyle(t, prompt))
             /\ \A tab \in Tabs : Good(BoardCommand(t, prompt, tab))
  BY <1>1, BoardCallsReady
<1>5. \A page \in 0 .. Pages - 1 : Good(PanelOpen(t, page))
  BY <1>1, BoardCallsReady
<1>6. \A readonly \in BOOLEAN : Good(DocOpen(t, readonly))
  BY DocOpenRuns DEF Good
<1> QED BY <1>2, <1>3, <1>4, <1>5, <1>6 DEF Opens

-----------------------------------------------------------------------------
\* ps_close, from whatever is open.
LEMMA CloseSessionOver ==
  ASSUME NEW t, Running(t)
  PROVE  Over(CloseSession(t))
<1> DEFINE h == IF t.hex # "none" THEN HexClose(t) ELSE t
           a == DialogClose(h)
           b == IF a.form THEN FormClose(a) ELSE a
           c == FilesClose(b)
           f == IF c.doc # "none" THEN DocClose(c) ELSE c
           d == MenuClose(f)
           e == IF d.board THEN [d EXCEPT !.mouse = FALSE, !.alt = FALSE, !.board = FALSE] ELSE d
<1>1. Running(h) /\ h.hex = "none"
  BY EditorsCloseReady DEF Ready
<1> HIDE DEF h
<1>2. Running(a) /\ a.hex = "none" /\ ~a.dialog
  BY <1>1, DialogCloseRuns
<1> HIDE DEF a
<1>3. Running(b) /\ b.hex = "none" /\ ~b.dialog /\ ~b.form
  BY <1>2, EditorsCloseReady DEF Ready
<1> HIDE DEF b
<1>4. Running(c) /\ c.hex = "none" /\ ~c.dialog /\ ~c.form /\ ~c.files
  <2>1. CASE b.files
    <3> DEFINE u == [b EXCEPT !.files = FALSE, !.mouse = FALSE, !.alt = FALSE]
    <3>1. c = u
      BY <2>1 DEF FilesClose
    <3>2. Running(u) /\ u.hex = "none" /\ ~u.dialog /\ ~u.form /\ ~u.files
      BY <1>3, <2>1 DEF Running, Alone, Owns, Captures, Session
    <3> QED BY <3>1, <3>2
  <2>2. CASE ~b.files
    BY <1>3, <2>2 DEF FilesClose
  <2> QED BY <2>1, <2>2
<1> HIDE DEF c
<1>5. Ready(f) /\ ~f.form /\ ~f.files
  <2>1. DocClose(c).form = c.form /\ DocClose(c).files = c.files
    BY <1>4 DEF DocClose, Running, Session
  <2> QED BY <1>4, <2>1, EditorsCloseReady DEF Ready
<1> HIDE DEF f
<1>6. Ready(d) /\ ~d.form /\ ~d.files /\ d.depth = 0 /\ ~d.screen
  BY <1>5, MenuCloseReady
<1> HIDE DEF d
<1>7. e \in Session /\ ~Owns(e) /\ ~e.alt /\ ~e.mouse /\ e.depth = 0
  <2>1. CASE d.board
    <3> DEFINE v == [d EXCEPT !.mouse = FALSE, !.alt = FALSE, !.board = FALSE]
    <3>1. v \in Session /\ ~Owns(v) /\ ~v.alt /\ ~v.mouse /\ v.depth = 0
      BY <1>6 DEF Ready, Running, Owns, Captures, Session
    <3>2. e = v
      BY <2>1
    <3> HIDE DEF v, e
    <3> QED BY <3>1, <3>2
  <2>2. CASE ~d.board
    <3>1. e = d
      BY <2>2
    <3> HIDE DEF e
    <3> QED BY <1>6, <2>2, <3>1 DEF Ready, Running, Owns, Captures
  <2> QED BY <2>1, <2>2
<1> HIDE DEF e
<1>8. CloseSession(t) = [e EXCEPT !.started = FALSE, !.closed = TRUE]
  BY DEF CloseSession, a, b, c, d, e, f, h
<1> QED BY <1>7, <1>8 DEF Over, Owns, Captures, Session

\* A callback or a command opens, closes, does nothing, or exits.
LEMMA CallsGood ==
  ASSUME NEW t, Ready(t), Settled(t), NEW u \in Calls(t)
  PROVE  Good(u)
<1>1. Good(t)
  BY DEF Ready, Good
<1>2. ASSUME NEW x \in Exit(t) PROVE Good(x)
  <2> DEFINE v == [t EXCEPT !.exit = TRUE]
  <2>1. Running(v)
    BY DEF Ready, Running, Alone, Owns, Captures, Session
  <2>2. x = CloseSession(v)
    BY <1>2 DEF Exit
  <2> HIDE DEF v
  <2> QED BY <2>1, <2>2, CloseSessionOver DEF Good
<1> QED BY <1>1, <1>2, OpensGood DEF Calls

-----------------------------------------------------------------------------
\* The key handlers, of the workspace that is open.
LEMMA FormKeyGood ==
  ASSUME NEW t, Good(t), ~t.closed, t.form, NEW key, NEW u \in FormKey(t, key)
  PROVE  Good(u)
<1>1. Running(t) /\ Settled(t)
  BY DEF Good, Over
<1>2. Ready(FormClose(t)) /\ Settled(FormClose(t))
  BY <1>1, EditorsCloseReady
<1>3. u = t \/ u \in Calls(FormClose(t))
  BY DEF FormKey
<1> QED BY <1>2, <1>3, CallsGood

LEMMA FileKeyGood ==
  ASSUME NEW t, Good(t), ~t.closed, t.files, NEW key, NEW u \in FileKey(t, key)
  PROVE  Good(u)
<1>1. Ready(t) /\ Settled(t)
  BY DEF Good, Over, Ready, Running, Alone
<1>2. Ready(FilesClose(t)) /\ Settled(FilesClose(t))
  BY <1>1, FilesCloseReady DEF Settled
<1>3. u = t \/ u \in Calls(FilesClose(t))
  BY DEF FileKey
<1> QED BY <1>2, <1>3, CallsGood

LEMMA HexKeyGood ==
  ASSUME NEW t, Good(t), ~t.closed, t.hex # "none", NEW key, NEW u \in HexKey(t, key)
  PROVE  Good(u)
<1>1. Running(t) /\ Settled(t)
  BY DEF Good, Over
<1>2. Good(HexClose(t))
  BY <1>1, EditorsCloseReady DEF Ready, Good
<1>3. ASSUME NEW draft \in Draft \ {"none"} PROVE Good([t EXCEPT !.hex = draft])
  BY <1>1, <1>3 DEF Good, Running, Settled, Alone, Owns, Captures, Session
<1>4. u \in {t, HexClose(t)} \cup {[t EXCEPT !.hex = draft] : draft \in Draft \ {"none"}}
  BY DEF HexKey, Draft
<1> QED BY <1>2, <1>3, <1>4

LEMMA DocumentKeyGood ==
  ASSUME NEW t, Good(t), ~t.closed, t.doc # "none", NEW key, NEW u \in DocumentKey(t, key)
  PROVE  Good(u)
<1>1. Running(t) /\ Settled(t)
  BY DEF Good, Over
<1>2. Good(DocClose(t))
  BY <1>1, EditorsCloseReady DEF Ready, Good
<1>3. ASSUME NEW draft \in Draft \ {"none"} PROVE Good([t EXCEPT !.doc = draft])
  BY <1>1, <1>3 DEF Good, Running, Settled, Alone, Owns, Captures, Session
<1>4. u \in {t, DocClose(t)} \cup {[t EXCEPT !.doc = draft] : draft \in Draft \ {"none"}}
  BY DEF DocumentKey, Draft
<1> QED BY <1>2, <1>3, <1>4

LEMMA MenuKeyGood ==
  ASSUME NEW t, Good(t), ~t.closed, t.depth # 0, NEW key, NEW u \in MenuKey(t, key)
  PROVE  Good(u)
<1>1. Ready(t) /\ Settled(t) /\ t.depth \in 0 .. MaxDepth /\ ~t.board
  BY DEF Good, Over, Ready, Running, Alone, Session
<1>2. Ready(MenuClose(t)) /\ Settled(MenuClose(t))
  BY <1>1, MenuCloseReady DEF Settled
<1>3. ASSUME NEW n \in 1 .. MaxDepth
      PROVE  Good(MenuRefresh([t EXCEPT !.depth = n]))
  <2> DEFINE v == [t EXCEPT !.depth = n]
  <2>0. n \in 0 .. MaxDepth /\ n # 0
    BY SessionAssumption
  <2>1. Ready(v) /\ Settled(v) /\ v.depth # 0
    <3>1. v \in Session /\ v.depth = n
      BY <1>1, <2>0 DEF Ready, Running, Session
    <3> QED BY <1>1, <2>0, <3>1 DEF Ready, Running, Settled, Alone, Owns, Captures, Session
  <2> HIDE DEF v
  <2>2. Good(MenuRefresh(v))
    BY <2>1, MenuRefreshReady DEF Ready, Good
  <2> QED BY <2>2 DEF v
<1>4. Good(MenuBack(t))
  <2>1. CASE t.depth > 1
    <3>1. t.depth - 1 \in 1 .. MaxDepth
      BY <1>1, <2>1, SessionAssumption
    <3> QED BY <1>3, <2>1, <3>1 DEF MenuBack
  <2>2. CASE ~(t.depth > 1)
    BY <1>2, <2>2 DEF MenuBack, Ready, Good
  <2> QED BY <2>1, <2>2
<1>5. u \in {t, MenuBack(t), MenuClose(t)} \cup Calls(MenuClose(t))
          \cup {MenuRefresh([t EXCEPT !.depth = d]) : d \in 1 .. MaxDepth}
  BY DEF MenuKey, MenuChoose, Submenu
<1>6. Good(MenuClose(t))
  BY <1>2 DEF Ready, Good
<1> QED BY <1>2, <1>3, <1>4, <1>5, <1>6, CallsGood

LEMMA BoardKeyGood ==
  ASSUME NEW t, Good(t), ~t.closed, t.board, ~t.dialog, ~(t.table_prompt /\ t.focus),
         NEW key, NEW u \in BoardKey(t, key)
  PROVE  Good(u)
<1>1. Ready(t) /\ Settled(t)
  BY DEF Good, Over, Ready, Running, Alone
<1>2. Good(TableClose(t))
  BY <1>1, TableCloseReady DEF Ready, Settled, Good
<1>3. ASSUME NEW editing \in BOOLEAN PROVE Good([t EXCEPT !.editing = editing])
  BY <1>1 DEF Good, Ready, Running, Settled, Alone, Owns, Captures, Session
<1>4. ASSUME NEW tab \in Tabs PROVE Good([t EXCEPT !.tab = tab])
  BY <1>1 DEF Good, Ready, Running, Settled, Alone, Owns, Captures, Session
<1>5. TabCount(t) \in 1 .. 4 /\ t.tab \in 0 .. 3 /\ t.control \in BOOLEAN
  BY <1>1, SessionAssumption DEF TabCount, Ready, Running, Session, Tabs
<1>6. (t.tab + 1) % TabCount(t) \in Tabs /\ 0 .. TabCount(t) - 1 \subseteq Tabs
  <2>1. \A n \in 1 .. 4, m \in 0 .. 3 : (m + 1) % n \in 0 .. 3 /\ 0 .. n - 1 \subseteq 0 .. 3
    OBVIOUS
  <2> QED BY <1>5, <2>1 DEF Tabs
<1>7. u \in {t, TableClose(t)} \cup {[t EXCEPT !.editing = editing] : editing \in BOOLEAN}
          \cup {[t EXCEPT !.tab = tab] : tab \in Tabs} \cup Calls(t)
  BY <1>5, <1>6 DEF BoardKey, TableKey
<1> QED BY <1>1, <1>2, <1>3, <1>4, <1>7, CallsGood

LEMMA PromptKeyGood ==
  ASSUME NEW t, Good(t), Ready(t), t.depth = 0, ~t.files, ~t.form,
         NEW key, NEW u \in PromptKey(t, key)
  PROVE  Good(u)
<1>1. Settled(t)
  BY DEF Good, Over, Ready, Running
<1>2. ASSUME NEW search \in BOOLEAN PROVE Good([t EXCEPT !.search = search])
  BY <1>1 DEF Good, Ready, Running, Settled, Alone, Owns, Captures, Session
<1>3. Good([t EXCEPT !.dialog = TRUE, !.alt = TRUE])
  BY <1>1 DEF Good, Ready, Running, Settled, Alone, Owns, Captures, Session
<1>4. \A tab \in Tabs : Good(TableOpen(t, tab))
  BY <1>1, TableOpenReady DEF Ready, Good
<1>5. 0 \in Tabs /\ Jobs \in Tabs
  BY DEF Tabs, Jobs
<1>6. \A x \in Exit(t) : Good(x)
  <2>1. CASE t.leaving
    <3> DEFINE v == [t EXCEPT !.exit = TRUE]
    <3>1. Running(v)
      BY DEF Ready, Running, Alone, Owns, Captures, Session
    <3>2. Exit(t) = {CloseSession(v)}
      BY DEF Exit
    <3> HIDE DEF v
    <3> QED BY <3>1, <3>2, CloseSessionOver DEF Good
  <2>2. CASE ~t.leaving
    BY <1>1, <2>2, CallsGood DEF Calls
  <2> QED BY <2>1, <2>2
<1>7. u \in {t, TableOpen(t, 0), TableOpen(t, Jobs), [t EXCEPT !.dialog = TRUE, !.alt = TRUE]}
          \cup {[t EXCEPT !.search = search] : search \in BOOLEAN} \cup Exit(t) \cup Calls(t)
  BY DEF PromptKey
<1> QED BY <1>1, <1>2, <1>3, <1>4, <1>5, <1>6, <1>7, CallsGood

LEMMA LowerKeyGood ==
  ASSUME NEW t, Good(t), ~t.closed, ~t.dialog, ~t.form, ~t.files, t.hex = "none", t.doc = "none",
         NEW key, NEW u \in LowerKey(t, key)
  PROVE  Good(u)
<1>1. Ready(t) /\ Settled(t)
  BY DEF Good, Over, Ready, Running
<1>2. ASSUME NEW focus \in BOOLEAN, focus => ~(t.editing /\ t.table_prompt)
      PROVE Good([t EXCEPT !.focus = focus])
  BY <1>1, <1>2 DEF Good, Ready, Running, Settled, Alone, Owns, Captures, Session
<1>3. \/ u = t
      \/ t.depth # 0 /\ u \in MenuKey(t, key)
      \/ FocusKey(t, key) /\ u = [t EXCEPT !.focus = ~@]
      \/ t.board /\ ~(t.table_prompt /\ t.focus) /\ u \in BoardKey(t, key)
      \/ u = [t EXCEPT !.focus = FALSE]
      \/ t.depth = 0 /\ u \in PromptKey(t, key)
  BY DEF LowerKey
<1>4. ASSUME FocusKey(t, key), u = [t EXCEPT !.focus = ~@] PROVE Good(u)
  <2>1. (~t.focus) \in BOOLEAN /\ ~t.editing
    BY <1>4 DEF FocusKey
  <2> QED BY <1>2, <1>4, <2>1
<1>5. u = [t EXCEPT !.focus = FALSE] => Good(u)
  BY <1>2
<1> QED BY <1>1, <1>3, <1>4, <1>5, MenuKeyGood, BoardKeyGood, PromptKeyGood

LEMMA ShellKeyGood ==
  ASSUME NEW t, Good(t), ~t.closed, NEW key, NEW u \in ShellKey(t, key)
  PROVE  Good(u)
<1>1. Running(t) /\ Settled(t)
  BY DEF Good, Over
<1>2. ASSUME t.dialog, u \in DialogKey(t, key) PROVE Good(u)
  <2> DEFINE v == DialogClose(t)
  <2>1. Running(v) /\ Settled(v) /\ ~v.dialog /\ ~v.form /\ ~v.files /\ v.hex = "none" /\ v.doc = "none"
    BY <1>1, <1>2, DialogCloseRuns DEF Running, Alone
  <2>2. Good(v) /\ ~v.closed
    BY <2>1 DEF Good, Running
  <2>3. u = t \/ u = v \/ u \in LowerKey(v, "enter")
    BY <1>2 DEF DialogKey
  <2> HIDE DEF v
  <2> QED BY <2>1, <2>2, <2>3, LowerKeyGood
<1>3. \/ u = t
      \/ t.form /\ u \in FormKey(t, key)
      \/ t.files /\ u \in FileKey(t, key)
      \/ t.hex # "none" /\ u \in HexKey(t, key)
      \/ t.doc # "none" /\ u \in DocumentKey(t, key)
      \/ t.dialog /\ u \in DialogKey(t, key)
      \/ ~t.dialog /\ ~t.form /\ ~t.files /\ t.hex = "none" /\ t.doc = "none" /\ u \in LowerKey(t, key)
  BY DEF ShellKey
<1> QED BY <1>2, <1>3, FormKeyGood, FileKeyGood, HexKeyGood, DocumentKeyGood, LowerKeyGood

-----------------------------------------------------------------------------
\* The other inputs.
LEMMA PasteGood ==
  ASSUME NEW t, Good(t), ~t.closed, NEW u \in PasteByte(t)
  PROVE  Good(u)
<1>1. Running(t) /\ Settled(t)
  BY DEF Good, Over
<1>2. t.doc # "none" => Good([t EXCEPT !.doc = "dirty"])
  BY <1>1 DEF Good, Running, Settled, Alone, Owns, Captures, Session, Draft
<1>3. \/ u = t
      \/ t.hex # "none" /\ \E key \in Letters : u \in HexKey(t, key)
      \/ t.doc # "none" /\ u = [t EXCEPT !.doc = "dirty"]
  BY DEF PasteByte
<1> QED BY <1>2, <1>3, HexKeyGood

LEMMA MouseGood ==
  ASSUME NEW t, Good(t), ~t.closed, NEW u \in MouseEvent(t)
  PROVE  Good(u)
<1>1. Running(t) /\ Settled(t)
  BY DEF Good, Over
<1>2. ASSUME NEW focus \in BOOLEAN, focus => ~(t.board /\ t.table_prompt /\ t.editing)
      PROVE  Good([t EXCEPT !.focus = focus]) /\ ~[t EXCEPT !.focus = focus].closed
  BY <1>1, <1>2 DEF Good, Running, Settled, Alone, Owns, Captures, Session
<1>3. CASE t.files \/ t.depth # 0 \/ t.form
  <2> DEFINE focus == t.focus /\ ~(t.board /\ t.table_prompt)
  <2>1. u = t \/ u = [t EXCEPT !.focus = focus]
    BY <1>3 DEF MouseEvent
  <2>2. focus \in BOOLEAN /\ (focus => ~(t.board /\ t.table_prompt /\ t.editing))
    BY <1>1 DEF Running, Session
  <2> HIDE DEF focus
  <2> QED BY <1>2, <2>1, <2>2
<1>4. CASE ~(t.files \/ t.depth # 0 \/ t.form)
  <2> DEFINE above == IF t.board /\ t.table_prompt /\ ~t.editing THEN [t EXCEPT !.focus = FALSE] ELSE t
             below == IF t.board /\ t.table_prompt /\ ~t.editing THEN [t EXCEPT !.focus = TRUE] ELSE t
  <2>1. Good(above) /\ ~above.closed /\ Good(below)
    BY <1>2
  <2>2. \/ u \in {t, above, below}
        \/ \E tab \in 0 .. TabCount(t) - 1 : u = [above EXCEPT !.tab = tab]
        \/ \E key \in {"enter", "esc", "f2"} : u \in ShellKey(above, key)
    BY <1>4 DEF MouseEvent, TableMouse
  <2> HIDE DEF above, below
  <2>3. ASSUME NEW tab \in Tabs PROVE Good([above EXCEPT !.tab = tab])
    BY <2>1 DEF Good, Over, Running, Settled, Alone, Owns, Captures, Session
  <2>4. 0 .. TabCount(t) - 1 \subseteq Tabs
    BY <1>1, SessionAssumption DEF TabCount, Running, Session, Tabs
  <2> QED BY <2>1, <2>2, <2>3, <2>4, ShellKeyGood
<1> QED BY <1>3, <1>4

LEMMA ResizedGood ==
  ASSUME NEW t, Good(t), ~t.closed, NEW framed \in BOOLEAN
  PROVE  Good(Resized(t, framed))
<1> DEFINE u == [t EXCEPT !.framed = framed]
<1>1. Running(u) /\ Settled(u)
  BY DEF Good, Over, Running, Settled, Alone, Owns, Captures, Session
<1>2. Resized(t, framed) =
        IF ~(u.form \/ u.dialog \/ u.hex # "none" \/ u.doc # "none" \/ u.files) /\ u.depth # 0
        THEN MenuRefresh(u) ELSE u
  BY DEF Resized
<1> HIDE DEF u
<1> QED BY <1>1, <1>2, MenuRefreshReady DEF Ready, Good

-----------------------------------------------------------------------------
LEMMA InitGood == Init => Good(s)
<1> SUFFICES ASSUME Init PROVE Good(s)
  OBVIOUS
<1>1. s \in Session
  <2>1. s.depth \in 0 .. MaxDepth /\ s.tab \in Tabs /\ s.hex \in Draft /\ s.doc \in Draft
    BY Numbers DEF Init, Draft, Tabs
  <2> QED BY <2>1 DEF Init, Session
<1>2. Running(s) /\ Settled(s)
  BY <1>1 DEF Init, Running, Settled, Alone, Owns, Captures
<1> QED BY <1>2 DEF Good

LEMMA NextGood == Good(s) /\ [Next]_s => Good(s)'
<1> SUFFICES ASSUME Good(s), [Next]_s PROVE Good(s')
  OBVIOUS
<1>0. Live => ~s.closed
  BY DEF Live, Good, Running, Over
<1>1. ASSUME Start PROVE Good(s')
  <2> DEFINE u == [s EXCEPT !.started = TRUE]
  <2>1. s' = u /\ ~s.closed
    BY <1>1 DEF Start
  <2>2. Good(u)
    BY <2>1 DEF Good, Over, Running, Settled, Alone, Owns, Captures, Session
  <2> QED BY <2>1, <2>2
<1>2. ASSUME NEW key, Live, s' \in ShellKey(s, key) PROVE Good(s')
  BY <1>0, <1>2, ShellKeyGood
<1>3. ASSUME Paste PROVE Good(s')
  BY <1>0, <1>3, PasteGood DEF Paste
<1>4. ASSUME Mouse PROVE Good(s')
  BY <1>0, <1>4, MouseGood DEF Mouse
<1>5. ASSUME Resize PROVE Good(s')
  BY <1>0, <1>5, ResizedGood DEF Resize
<1>6. ASSUME HostCall PROVE Good(s')
  <2>1. Ready(s) /\ Settled(s)
    BY <1>0, <1>6 DEF HostCall, Good, Over, Ready
  <2> QED BY <1>6, <2>1, OpensGood DEF HostCall
<1>7. ASSUME HangUp PROVE Good(s')
  <2> DEFINE v == [s EXCEPT !.exit = TRUE]
  <2>1. Running(s) /\ Running(v)
    BY <1>0, <1>7 DEF HangUp, Good, Over, Running, Alone, Owns, Captures, Session
  <2>2. s' = CloseSession(s) \/ s' = CloseSession(v)
    BY <1>7 DEF HangUp, Exit
  <2> HIDE DEF v
  <2> QED BY <2>1, <2>2, CloseSessionOver DEF Good
<1>8. ASSUME GiveUp PROVE Good(s')
  <2> DEFINE u == [s EXCEPT !.leaving = TRUE]
  <2>1. s' = u /\ ~s.closed
    BY <1>0, <1>8 DEF GiveUp
  <2>2. Good(u)
    BY <2>1 DEF Good, Over, Running, Settled, Alone, Owns, Captures, Session
  <2> QED BY <2>1, <2>2
<1> QED BY <1>1, <1>2, <1>3, <1>4, <1>5, <1>6, <1>7, <1>8 DEF Next, Press, Leave

\* The inductive invariant holds of every session.
THEOREM Invariance == Spec => []Good(s)
BY InitGood, NextGood, PTL DEF Spec

\* Every field of a session keeps its type: the stack of menus stays within
\* PS_MENU_DEPTH, the page within those there are.
THEOREM TypeCorrect == Spec => []TypeOK
<1>1. Good(s) => TypeOK
  BY DEF Good, Running, Over, TypeOK
<1> QED BY <1>1, Invariance, PTL

\* The terminal's modes are those the session reports, two workspaces are never open,
\* an edit and a panel are on the board and the edit has its keys, and a closed
\* session has given everything back.
THEOREM SurfacesAlwaysAgree == Spec => []SurfacesAgree
<1> SUFFICES ASSUME Good(s) PROVE SurfacesAgree
  BY Invariance, PTL
<1>1. TerminalMatches
  BY DEF Good, Running, Over, TerminalMatches, OwnsScreen, OwnsMouse, CapturesMouse, Owns,
     Captures, Session
<1>2. OneWorkspace
  BY DEF Good, Running, Over, Alone, Owns, Captures, OneWorkspace
<1>3. EditOnBoard
  BY DEF Good, Running, Settled, Over, Owns, Captures, EditOnBoard
<1>4. ClosedIsRestored
  BY DEF Good, Running, Over, ClosedIsRestored, OwnsScreen, CapturesMouse, Owns, Captures
<1> QED BY <1>1, <1>2, <1>3, <1>4 DEF SurfacesAgree

-----------------------------------------------------------------------------
\* A document with edits has the keyboard, and gives it up after an answer only.
LEMMA DocumentAnswered ==
  ASSUME NEW t, Good(t), ~t.closed, ~t.exit, t.doc \in Unsaved,
         NEW key, NEW u \in ShellKey(t, key), u.doc = "none"
  PROVE  t.doc = "ask" /\ key \in {"d", "s"}
<1>1. /\ t.doc # "none" /\ ~t.form /\ ~t.files /\ ~t.dialog /\ t.hex = "none" /\ t \in Session
  BY DEF Good, Over, Running, Alone, Unsaved, Session
<1>2. u \in DocumentKey(t, key)
  BY <1>1 DEF ShellKey
<1>3. \A draft \in Draft : [t EXCEPT !.doc = draft].doc = draft
  BY <1>1 DEF Session
<1>4. u = DocClose(t)
  BY <1>1, <1>2, <1>3 DEF DocumentKey, Draft
<1>5. DocClose(t) # t /\ \A draft \in {"clean", "dirty", "ask"} : DocClose(t) # [t EXCEPT !.doc = draft]
  BY <1>1, <1>3 DEF DocClose, Draft, Session
<1> QED BY <1>1, <1>2, <1>4, <1>5 DEF DocumentKey, Modified, Unsaved

\* So has the hex editor.
LEMMA HexAnswered ==
  ASSUME NEW t, Good(t), ~t.closed, t.hex \in Unsaved,
         NEW key, NEW u \in HexKey(t, key), u.hex = "none"
  PROVE  t.hex = "ask" /\ key \in {"d", "s"}
<1>1. t.hex # "none" /\ t \in Session
  BY DEF Good, Over, Running, Unsaved
<1>2. \A draft \in Draft : [t EXCEPT !.hex = draft].hex = draft
  BY <1>1 DEF Session
<1>3. u = HexClose(t)
  BY <1>1, <1>2 DEF HexKey, Draft
<1>4. HexClose(t) # t /\ \A draft \in {"clean", "dirty", "ask"} : HexClose(t) # [t EXCEPT !.hex = draft]
  BY <1>1, <1>2 DEF HexClose, Draft, Session
<1> QED BY <1>1, <1>3, <1>4 DEF HexKey, Modified, Unsaved

\* The keys that answer are pressed, or come from the user who gives up.
LEMMA KeyAnswered ==
  ASSUME Good(s), Live, NEW key, s' \in ShellKey(s, key)
  PROVE  /\ s.doc \in Unsaved /\ s'.doc = "none" => s.doc = "ask" /\ key \in {"d", "s"}
         /\ s.hex \in Unsaved /\ s'.hex = "none" => s.hex = "ask" /\ key \in {"d", "s"}
<1>1. ~s.closed /\ ~s.exit
  BY DEF Live, Good, Running, Over
<1>2. ASSUME s.hex \in Unsaved PROVE s' \in HexKey(s, key)
  BY <1>1, <1>2 DEF ShellKey, Good, Over, Running, Alone, Unsaved
<1>3. ASSUME s.hex \in Unsaved, s'.hex = "none" PROVE s.hex = "ask" /\ key \in {"d", "s"}
  BY <1>1, <1>2, <1>3, HexAnswered
<1>4. ASSUME s.doc \in Unsaved, s'.doc = "none" PROVE s.doc = "ask" /\ key \in {"d", "s"}
  BY <1>1, <1>4, DocumentAnswered
<1> QED BY <1>3, <1>4

\* No edit is lost but by the user's answer to a question the editor asked, or with
\* the session.
THEOREM DraftsAreKept == Spec => DraftKept
<1> DEFINE Kept ==
      /\ s.doc \in Unsaved /\ s'.doc = "none" => s'.closed \/ (s.doc = "ask" /\ Answered)
      /\ s.hex \in Unsaved /\ s'.hex = "none" =>
           s'.closed \/ (s.hex = "ask" /\ (Answered \/ Paste))
<1>1. ASSUME Good(s), Next PROVE Kept
  <2>0. Live => ~s.closed /\ ~s.exit
    BY <1>1 DEF Live, Good, Running, Over
  <2>1. s \in Session
    BY <1>1 DEF Good, Running, Over
  <2>2. ASSUME s'.doc = s.doc, s'.hex = s.hex PROVE Kept
    BY <2>2 DEF Unsaved
  <2>3. ASSUME Start \/ GiveUp PROVE Kept
    BY <2>1, <2>2, <2>3 DEF Start, GiveUp, Session
  <2>4. ASSUME NEW key \in Keys, Press(key) PROVE Kept
    BY <1>1, <2>4, KeyAnswered DEF Press, Answered
  <2>5. ASSUME Leave PROVE Kept
    BY <1>1, <2>5, KeyAnswered DEF Leave, Answered
  <2>6. ASSUME Paste PROVE Kept
    <3>1. ASSUME s.hex \in Unsaved, s'.hex = "none" PROVE s.hex = "ask"
      <4>1. ~s.form /\ s.hex # "none" /\ s.doc = "none"
        BY <1>1, <2>0, <2>6, <3>1 DEF Paste, Good, Over, Running, Alone, Unsaved
      <4>2. \E key \in Letters : s' \in HexKey(s, key)
        <5>1. PasteByte(s) = UNION {HexKey(s, key) : key \in Letters}
          BY <4>1 DEF PasteByte
        <5> QED BY <2>6, <5>1 DEF Paste
      <4> QED BY <1>1, <2>0, <2>6, <3>1, <4>2, HexAnswered DEF Paste
    <3>2. ~(s.doc \in Unsaved /\ s'.doc = "none")
      <4> SUFFICES ASSUME s.doc \in Unsaved, s'.doc = "none" PROVE FALSE
        OBVIOUS
      <4>1. ~s.form /\ s.hex = "none" /\ s.doc # "none"
        BY <1>1, <2>0, <2>6 DEF Paste, Good, Over, Running, Alone, Unsaved
      <4>2. s' = s \/ s' = [s EXCEPT !.doc = "dirty"]
        BY <2>6, <4>1 DEF Paste, PasteByte
      <4> QED BY <2>1, <4>1, <4>2 DEF Session
    <3> QED BY <2>6, <3>1, <3>2
  <2>7. ASSUME Mouse PROVE Kept
    BY <1>1, <2>7 DEF Mouse, Unsaved, Good, Over, Running, Alone, Captures
  <2>8. ASSUME Resize PROVE Kept
    BY <2>1, <2>2, <2>8 DEF Resize, Resized, MenuRefresh, Session
  <2>9. ASSUME HostCall PROVE Kept
    BY <2>9 DEF HostCall, Unsaved
  <2>10. ASSUME HangUp PROVE Kept
    <3> DEFINE v == [s EXCEPT !.exit = TRUE]
    <3>1. Running(s) /\ Running(v)
      BY <1>1, <2>0, <2>10 DEF HangUp, Good, Over, Running, Alone, Owns, Captures, Session
    <3>2. s' = CloseSession(s) \/ s' = CloseSession(v)
      BY <2>10 DEF HangUp, Exit
    <3> HIDE DEF v
    <3>3. s'.closed
      BY <3>1, <3>2, CloseSessionOver DEF Over
    <3> QED BY <3>3
  <2> HIDE DEF Kept
  <2> QED BY <1>1, <2>3, <2>4, <2>5, <2>6, <2>7, <2>8, <2>9, <2>10 DEF Next
<1>2. Good(s) /\ [Next]_s => [Kept]_s
  BY <1>1
<1> QED BY Invariance, <1>2, PTL DEF Spec, DraftKept
=============================================================================
