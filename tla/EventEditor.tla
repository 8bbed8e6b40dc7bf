----------------------------- MODULE EventEditor -----------------------------
(***************************************************************************)
(* The small editor of include/portable_editor.h, fed one byte at a time   *)
(* by a program that owns the commands, and the row of the terminal it     *)
(* draws on.  The editor and the row are one record e; an operator takes   *)
(* it before and gives it after.                                           *)
(*                                                                         *)
(* The program calls it as docs/wiki/Integration.md says: it answers every *)
(* event, and may offer a suggestion after any byte.  Echo is off while a  *)
(* secret is typed.  The bytes of a CSI sequence arrive inside one.        *)
(***************************************************************************)
EXTENDS Journal, SequencesExt

CONSTANTS Builds,    \* [slots, limit, capacity, ansi, offers, visible]:
                     \* PS_EDITOR_UNDO_DEPTH + 1 or 0, PS_EDITOR_HISTORY,
                     \* PS_EDITOR_CAPACITY, the kind of terminal, whether the program
                     \* offers suggestions, and what its user types with the echo on
          Admitted,  \* the lines the program lets into the history
          Names      \* the commands a completion or a suggestion may name, in order

Secret  == "s"
Space   == " "
Control == {"CR", "LF", "TAB", "^A", "^C", "^D", "^E", "^L", "^U", "^W", "^_", "BS", "ESC"}
Finals  == {"~", "A", "B", "C", "D", "H", "F", "_"}
Numbers == {"1", "3", "200"}                 \* a parameter, its digits one step
InCSI   == {"["} \cup Numbers \cup Finals
Marker  == <<"ESC", "[", "201", "~">>        \* the end of a paste

VARIABLES e,      \* the editor and the row it draws on
          build,  \* what it was compiled with
          event   \* what the last byte asks of the program

editorVars == <<e, build, event>>

Visible == build.visible
-----------------------------------------------------------------------------
\* The row: text x written at column c over t, blanks filling a gap.
Over(t, c, x) ==
  [i \in 1 .. (IF Len(t) > c + Len(x) THEN Len(t) ELSE c + Len(x)) |->
     IF i \in c + 1 .. c + Len(x) THEN x[i - c] ELSE IF i <= Len(t) THEN t[i] ELSE Space]
Emit(d, x) == [d EXCEPT !.shown = Over(d.shown, d.col, x), !.col = @ + Len(x)]
UpTo(t, c) == [i \in 1 .. c |-> IF i <= Len(t) THEN t[i] ELSE Space]
Erase(d)   == [d EXCEPT !.shown = UpTo(@, d.col)]                             \* CSI K

\* ps_editor_redraw.  A plain terminal has no way to clear the row.
Redraw(d) ==
  IF ~d.echo THEN d
  ELSE [d EXCEPT !.shown = IF d.ansi THEN d.line \o d.ghost ELSE Over(@, 0, d.line),
                 !.col = d.cursor]
NewRow(d) == [d EXCEPT !.shown = <<>>, !.col = 0]

EraseGhost(d) ==
  IF d.ghost = <<>> THEN d
  ELSE [(IF d.echo /\ d.ansi THEN Erase(d) ELSE d) EXCEPT !.ghost = <<>>, !.space = FALSE]

\* ps_editor_fix_cursor: the row from the cursor on, after a character was put in or
\* (clear) taken out.  (Mutation: the last column stays.)
FixCursorShort(d, clear) ==
  LET tail == SubSeq(d.line, d.cursor + 1, Len(d.line))
  IN [d EXCEPT !.shown = Over(@, d.col, tail)]
FixCursor(d, clear) ==
  LET tail == SubSeq(d.line, d.cursor + 1, Len(d.line))
  IN CASE d.ansi /\ (tail # <<>> \/ clear) -> [d EXCEPT !.shown = UpTo(@, d.col) \o tail]
       [] ~d.ansi -> [d EXCEPT !.shown = Over(@, d.col, IF clear THEN Append(tail, Space) ELSE tail)]
       [] OTHER -> d

-----------------------------------------------------------------------------
\* ps_editor_init, ps_editor_clear, ps_editor_reset.
Fresh(ansi) ==
  [line |-> <<>>, cursor |-> 0, ghost |-> <<>>, space |-> FALSE,
   history |-> <<>>, offset |-> 0, draft |-> <<>>, draftCursor |-> 0, journal |-> Empty,
   escape |-> 0, number |-> 0, paste |-> FALSE, match |-> 0,
   overflow |-> FALSE, cr |-> FALSE, echo |-> TRUE, ansi |-> ansi, shown |-> <<>>, col |-> 0]
Cleared(d) ==
  [Fresh(d.ansi) EXCEPT !.history = d.history, !.cr = d.cr, !.echo = d.echo,
                        !.shown = d.shown, !.col = d.col]

\* ps_editor_remember, for a line ps_history_safe admits.  (Mutation: the echo is not
\* asked.)
RememberAll(d, allowed) ==
  IF ~allowed \/ d.overflow \/ build.limit = 0 \/ (d.history # <<>> /\ d.history[1] = d.line)
  THEN d
  ELSE [d EXCEPT !.history = SubSeq(<<d.line>> \o @, 1,
                   IF Len(@) < build.limit THEN Len(@) + 1 ELSE build.limit),
                 !.offset = 0]
Remember(d, allowed) ==
  IF ~allowed \/ ~d.echo \/ d.overflow \/ build.limit = 0 \/ (d.history # <<>> /\ d.history[1] = d.line)
  THEN d
  ELSE [d EXCEPT !.history = SubSeq(<<d.line>> \o @, 1,
                   IF Len(@) < build.limit THEN Len(@) + 1 ELSE build.limit),
                 !.offset = 0]

\* ps_editor_history: Up keeps the line it leaves, the last Down brings it back.
Recall(d, older) ==
  LET to   == IF older THEN d.offset + 1 ELSE d.offset - 1
      kept == CASE to = 0 -> [d EXCEPT !.draft = <<>>, !.draftCursor = 0]
                [] to = 1 /\ older -> [d EXCEPT !.draft = d.line, !.draftCursor = d.cursor]
                [] OTHER -> d
  IN IF ~d.echo \/ to \notin 0 .. Len(d.history) THEN d
     ELSE Redraw([kept EXCEPT !.offset = to,
                    !.line = IF to = 0 THEN d.draft ELSE d.history[to],
                    !.cursor = IF to = 0 THEN d.draftCursor ELSE Len(d.history[to])])

\* Left, Right, Home and End move the cursor to column k; a plain terminal goes right
\* by writing the characters again.
Goto(d, k) ==
  LET at == [d EXCEPT !.cursor = k] IN
  CASE ~d.echo -> at
    [] d.echo /\ (d.ansi \/ k < d.cursor) -> [at EXCEPT !.col = @ + k - d.cursor]
    [] OTHER -> Emit(at, SubSeq(d.line, d.cursor + 1, k))

\* ps_editor_move.  Right and End at the end of the line take the suggestion.
Accepted(d) == d.line \o d.ghost \o (IF d.space THEN <<Space>> ELSE <<>>)
TakeGhost(d) ==
  [Emit(d, d.ghost \o (IF d.space THEN <<Space>> ELSE <<>>))
     EXCEPT !.line = Accepted(d), !.cursor = Len(Accepted(d)), !.ghost = <<>>, !.space = FALSE, !.offset = 0,
            !.draft = <<>>, !.draftCursor = 0]
Move(d, b) ==
  LET q == EraseGhost(d) IN
  CASE b \in {"C", "F"} /\ d.cursor = Len(d.line) /\ d.ghost # <<>> -> TakeGhost(d)
    [] b = "D" /\ d.cursor > 0 -> Goto(q, d.cursor - 1)
    [] b = "C" /\ d.cursor < Len(d.line) -> Goto(q, d.cursor + 1)
    [] b = "H" -> Goto(q, 0)
    [] b = "F" /\ (d.cursor < Len(d.line) \/ d.ghost = <<>>) -> Goto(q, Len(d.line))
    [] b \in {"A", "B"} -> Recall(q, b = "A")
    [] OTHER -> q

\* ps_editor_shift_left and the row after it.
Cut(d) ==
  LET c == [d EXCEPT !.line = SubSeq(@, 1, d.cursor) \o SubSeq(@, d.cursor + 2, Len(@))]
  IN IF d.cursor = Len(d.line) THEN d ELSE IF d.echo THEN FixCursor(c, TRUE) ELSE c
Backspace(d) ==
  LET b == [d EXCEPT !.cursor = @ - 1, !.col = IF d.echo THEN @ - 1 ELSE @]
  IN IF d.cursor = 0 THEN d ELSE Cut(b)

\* Ctrl-U and Ctrl-W remove what is before the cursor, back to target.
WordStart(d) ==
  LET starts == {k \in 0 .. d.cursor : /\ \E i \in k + 1 .. d.cursor : d.line[i] # Space
                                       /\ k = 0 \/ d.line[k] = Space}
  IN IF starts = {} THEN 0 ELSE CHOOSE k \in starts : \A j \in starts : j <= k
CutTo(d, target) ==
  IF target >= d.cursor THEN d
  ELSE Redraw([d EXCEPT !.line = SubSeq(@, 1, target) \o SubSeq(@, d.cursor + 1, Len(@)),
                        !.cursor = target])

\* A printable byte.  A full line drops it and can no longer be submitted.
Full(d) == Len(d.line) >= build.capacity
Insert(d, b) ==
  LET put == [d EXCEPT !.line = SubSeq(@, 1, d.cursor) \o <<b>> \o SubSeq(@, d.cursor + 1, Len(@)),
                       !.cursor = @ + 1]
  IN CASE Full(d) -> [d EXCEPT !.overflow = TRUE]
       [] ~Full(d) /\ d.echo -> FixCursor(Emit(put, <<b>>), FALSE)
       [] OTHER -> put

-----------------------------------------------------------------------------
\* ps_editor_escape: escape is 1 after ESC, 2 after the bracket, 3 after the parameter.
\* A sequence that goes on for 16 bytes, here one with a second parameter, is given up.
EscapeEnds(d) == [d EXCEPT !.escape = 0, !.number = 0]
Tilde(d) ==
  CASE d.number = "200" -> [d EXCEPT !.paste = TRUE, !.match = 0]
    [] d.number = "3"   -> Cut(EraseGhost(d))
    [] d.number = "1"   -> Move(d, "H")
EscapeByte(d, b) ==
  CASE d.escape = 1 /\ b = "[" -> [d EXCEPT !.escape = 2]
    [] d.escape = 1 /\ b # "[" -> Move([d EXCEPT !.escape = 0], b)
    [] d.escape = 2 /\ b \in Numbers -> [d EXCEPT !.escape = 3, !.number = b]
    [] d.escape = 3 /\ b \in Numbers -> EscapeEnds(d)
    [] d.escape = 3 /\ b = "~" -> EscapeEnds(Tilde(d))
    [] OTHER -> EscapeEnds(Move(d, b))

\* ps_editor_feed_inner: the editor after a byte.  (Mutation: a key leaves the
\* suggestion in place.)
Quiet(d, b) == d
Unsuggested(d, b) == IF d.escape = 0 /\ b # "ESC" THEN EraseGhost(d) ELSE d
Inner(d0, b) ==
  LET d == Unsuggested(d0, b)
      q == [d EXCEPT !.cr = FALSE]
  IN CASE d.cr /\ b = "LF" -> q
       [] ~(d.cr /\ b = "LF") /\ b \in {"CR", "LF"} -> NewRow([d EXCEPT !.cr = (b = "CR")])
       [] b = "^C" -> NewRow(Cleared(q))
       [] b \notin {"CR", "LF", "^C"} /\ d.overflow -> q
       [] b \notin {"CR", "LF", "^C"} /\ ~d.overflow ->
            CASE d.escape > 0 -> EscapeByte(q, b)
              [] d.escape = 0 /\ b = "ESC" -> [q EXCEPT !.escape = 1]
              [] d.escape = 0 /\ b = "^A" -> Move(q, "H")
              [] d.escape = 0 /\ b = "^E" -> Move(q, "F")
              [] d.escape = 0 /\ b = "^U" -> CutTo(q, 0)
              [] d.escape = 0 /\ b = "^W" -> CutTo(q, WordStart(q))
              [] d.escape = 0 /\ b = "^D" -> Cut(q)
              [] d.escape = 0 /\ b = "^L" -> IF d.echo THEN Redraw(NewRow(q)) ELSE q
              [] d.escape = 0 /\ b = "BS" -> Backspace(q)
              [] d.escape = 0 /\ b \in Visible \cup InCSI \cup {"201", Secret} -> Insert(q, b)
              [] OTHER -> q

\* What ps_editor_feed_inner returns.
Asks(d, b) ==
  CASE d.cr /\ b = "LF" -> "none"
    [] ~(d.cr /\ b = "LF") /\ b \in {"CR", "LF"} -> IF d.overflow THEN "tooLong" ELSE "submit"
    [] b = "^C" -> "cancel"
    [] b = "TAB" /\ d.escape = 0 /\ ~d.overflow /\ d.echo -> "complete"
    [] b = "^D" /\ d.escape = 0 /\ ~d.overflow /\ d.line = <<>> -> "close"
    [] OTHER -> "none"

-----------------------------------------------------------------------------
\* ps_editor_feed: the journal around the byte, the undo keys and the paste before it.
Recorded(d) == IF build.slots = 0 THEN d
               ELSE [d EXCEPT !.journal = Record(@, d.line, d.cursor, build.slots)]
UndoKey(d, b) == build.slots > 0 /\ ((d.escape = 0 /\ b = "^_") \/ (d.escape = 1 /\ b = "_"))
UndoStep(d, k) ==
  LET r == [Recorded(d) EXCEPT !.escape = 0]
      j == r.journal
  IN IF ~Reaches(j, j.at + k) THEN r
     ELSE Redraw([r EXCEPT !.journal.at = @ + k, !.overflow = FALSE,
                    !.line = j.frames[j.at + k].line, !.cursor = j.frames[j.at + k].cursor])

\* A byte of a paste, before it is typed.
Pasted(d, b) == IF b \in {"CR", "LF", "TAB"} THEN Space ELSE b
Matches(d, b) == b = Marker[d.match + 1]

\* (Mutation: every byte of a paste is recorded.)
TypedEach(d, b) == LET r == Recorded(Inner(Recorded(d), b)) IN
  IF Asks(d, b) \in {"submit", "tooLong", "cancel"} THEN [r EXCEPT !.journal = Empty] ELSE r
Typed(d, b) == LET r == IF d.paste THEN Inner(d, b) ELSE Recorded(Inner(Recorded(d), b)) IN
  IF Asks(d, b) \in {"submit", "tooLong", "cancel"} THEN [r EXCEPT !.journal = Empty] ELSE r

\* ps_undo_step does not erase the suggestion.  Left behind a longer line it may not fit
\* the buffer, and what taking it then overwrites is not modelled.
Feed(b) ==
  /\ event = "none" /\ Len(Accepted(e)) <= build.capacity
  /\ UNCHANGED build
  /\ CASE e.paste /\ Matches(e, b) ->
            /\ e' = IF e.match + 1 < Len(Marker) THEN [e EXCEPT !.match = @ + 1]
                    ELSE Recorded([e EXCEPT !.paste = FALSE, !.match = 0])
            /\ event' = "none"
       [] e.paste /\ ~Matches(e, b) ->
            LET d == [e EXCEPT !.match = IF b = "ESC" THEN 1 ELSE 0]
                p == Pasted(d, b)
            IN IF p \in Control
               THEN e' = d /\ event' = "none"
               ELSE e' = Typed(d, p) /\ event' = Asks(d, p)
       [] ~e.paste /\ UndoKey(e, b) ->
            e' = UndoStep(e, IF b = "_" THEN 1 ELSE -1) /\ event' = "none"
       [] OTHER -> /\ e' = Typed(e, b) /\ event' = Asks(e, b)

\* The bytes that may come next: those of a sequence within one, those of the marker
\* within what may be the end of a paste.
Bytes == (IF e.echo THEN Visible ELSE {Secret}) \cup Control
         \cup CASE e.escape = 1 -> {"["} \cup Finals
                [] e.escape > 1 -> Numbers \cup Finals
                [] OTHER -> IF e.match > 0 THEN Range(Marker) ELSE {}

-----------------------------------------------------------------------------
\* ps_editor_offer of the first suffix that fits.
Fits(d, x, space) == x # <<>> /\ Len(d.line) + Len(x) + (IF space THEN 1 ELSE 0) <= build.capacity
Suffix(d, x) == SubSeq(x, Len(d.line) + 1, Len(x))
Offers(d) == [i \in 1 .. Len(d.history) |-> [of |-> d.history[i], space |-> FALSE]]
             \o [i \in 1 .. Len(Names) |-> [of |-> Names[i], space |-> TRUE]]
Continues(d, o) == IsPrefix(d.line, o.of) /\ Fits(d, Suffix(d, o.of), o.space)

\* ps_editor_suggest, for a line whose first word is being typed.
Suggest ==
  LET d    == EraseGhost(e)
      fits == {i \in 1 .. Len(Offers(d)) : Continues(d, Offers(d)[i])} IN
  /\ build.offers /\ event = "none"
  /\ e.echo /\ e.ansi /\ ~e.overflow /\ e.escape = 0 /\ e.cursor = Len(e.line) /\ e.line # <<>>
  /\ e' = IF fits = {} THEN d
          ELSE LET o == Offers(d)[CHOOSE i \in fits : \A k \in fits : i <= k] IN
               [d EXCEPT !.ghost = Suffix(d, o.of), !.space = o.space,
                         !.shown = Over(@, d.col, Suffix(d, o.of))]
  /\ UNCHANGED <<build, event>>

\* ps_editor_complete: the prefix the matching names share, and a space after the
\* only one; otherwise the names are listed above the prompt.
Complete ==
  LET d     == EraseGhost(e)
      names == {n \in Range(Names) : IsPrefix(e.line, n)}
      word  == LongestCommonPrefix(names) \o (IF Cardinality(names) = 1 THEN <<Space>> ELSE <<>>)
  IN /\ event = "complete" /\ event' = "none"
     /\ e' = CASE e.overflow \/ e.escape > 0 \/ e.cursor # Len(e.line) -> e
               [] ~(e.overflow \/ e.escape > 0 \/ e.cursor # Len(e.line))
                  /\ (names = {} \/ Len(word) > build.capacity) -> d
               [] OTHER -> IF Len(word) > Len(e.line)
                           THEN Redraw([d EXCEPT !.line = word, !.cursor = Len(word), !.offset = 0,
                                             !.draft = <<>>, !.draftCursor = 0])
                           ELSE Redraw(NewRow(d))
     /\ UNCHANGED <<build>>

\* The program answers.  It may ask the next line with the echo off.
Answered(d) == e' = NewRow(d) /\ event' = "none"
               /\ UNCHANGED build
Submit  == event = "submit" /\ \E echo \in BOOLEAN :
             Answered([Cleared(Remember(e, e.line \in Admitted)) EXCEPT !.echo = echo])
Discard == event \in {"tooLong", "cancel"} /\ Answered(Cleared(e))
Close   == event = "close" /\ Answered(Fresh(build.ansi))

\* ps_editor_refresh_prompt with another label, redrawEvent with a notice.
Refresh == /\ event = "none" /\ UNCHANGED <<build, event>>
           /\ e' = Redraw(IF e.echo /\ ~e.ansi THEN NewRow(e) ELSE e)
Notice  == /\ event = "none" /\ UNCHANGED <<build, event>>
           /\ e' = Redraw(NewRow(e))

EditorInit == /\ build \in Builds
        /\ e = Fresh(build.ansi)
        /\ event = "none"
EditorNext == \/ \E b \in Bytes : Feed(b)
        \/ Suggest \/ Complete \/ Submit \/ Discard \/ Close \/ Refresh \/ Notice
EditorSpec == EditorInit /\ [][EditorNext]_editorVars
-----------------------------------------------------------------------------
EditorLine == UNION {[1 .. n -> Visible \cup InCSI \cup {Space, "201", Secret}] : n \in 0 .. build.capacity}

\* The cursor, the snapshots and the recalled lines stay inside their buffers.
EditorTypeOK ==
  /\ {e.line, e.draft} \cup Range(e.history) \subseteq EditorLine
  /\ e.cursor \in 0 .. Len(e.line) /\ e.offset \in 0 .. Len(e.history)
  /\ e.draftCursor \in 0 .. Len(e.draft)
  /\ Len(e.history) <= build.limit /\ Len(e.journal.frames) <= build.slots
  /\ e.journal.at \in 0 .. Len(e.journal.frames)
  /\ \A i \in 1 .. Len(e.journal.frames) :
       e.journal.frames[i].cursor \in 0 .. Len(e.journal.frames[i].line)
  /\ Len(e.line \o e.ghost) <= build.capacity
  /\ e.match < Len(Marker)

\* The row holds what a submission would send: after any keys it shows the line, then
\* the suggestion, with the terminal's cursor at the editor's; on a plain terminal it
\* at least starts with the line. 
RowShowsLine ==
  e.echo /\ event = "none" =>
    /\ e.col = e.cursor
    /\ IF e.ansi THEN e.shown = e.line \o e.ghost ELSE IsPrefix(e.line, e.shown)

\* What is typed with the echo off is shown nowhere, and once its line is gone no part
\* of the editor holds it.
SecretStaysHidden ==
  /\ ~e.echo => e.shown = <<>> /\ e.ghost = <<>>
  /\ \A x \in {e.shown, e.ghost} \cup Range(e.history) : Secret \notin Range(x)
  /\ e.echo /\ event = "none" =>
       \A x \in {e.line, e.draft} \cup {f.line : f \in Range(e.journal.frames)} :
         Secret \notin Range(x)

\* A suggestion continues the line with the tail of something admitted or registered.
SuggestionIsATail ==
  e.ghost # <<>> =>
    e.line \o e.ghost \in Range(e.history) \cup Range(Names)

\* Bracketed paste never executes controls or submits embedded newlines: what comes
\* before the end marker only adds characters, and undo takes all of it away at once.
Subsequence(x, y) == \E S \in SUBSET (1 .. Len(y)) :
  /\ Cardinality(S) = Len(x)
  /\ \A i \in S : y[i] = x[Cardinality({j \in S : j <= i})]
PasteIsInert ==
  e.paste =>
        /\ event' = "none" /\ Subsequence(e.line, e'.line)
        /\ e'.history = e.history /\ e'.offset = e.offset
        /\ LET was == e.journal.frames[e.journal.at]
               now == e'.journal IN
           build.slots > 1 =>
             IF e'.paste THEN now = e.journal
             ELSE e.line # was.line => Reaches(now, now.at - 1) /\ now.frames[now.at - 1] = was
=============================================================================
