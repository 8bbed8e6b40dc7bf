----------------------------- MODULE UndoJournal -----------------------------
(***************************************************************************)
(* The undo journal of include/portable_undo.h under the prompt of         *)
(* src/portable_shell.c: ps_key records the line before and after each key *)
(* it passes on, a paste is recorded at its two ends, and the incremental  *)
(* search and the history dialog change the line without recording.        *)
(*                                                                         *)
(* A line is a sequence of bytes: printable ASCII, and the two bytes of    *)
(* one accented letter, which arrive as two keys.                          *)
(***************************************************************************)
EXTENDS Journal, FiniteSetsExt

CONSTANTS Slots,     \* PS_UNDO_DEPTH + 1 snapshots
          Capacity,  \* PS_LINE: bytes of a line, with its terminator
          Ascii,     \* one-byte characters
          Recalled   \* lines that history, completion and suggestions bring in

Octet == Ascii \cup {"lead", "cont"}

VARIABLES
  line, cursor,    \* s->line, s->pos
  journal,         \* s->undo: its frames, oldest first, and the one it is at
  search, saved,   \* s->search and the line it returns to
  dialog,          \* s->history_dialog
  pasting,         \* s->paste
  half,            \* the first byte of a letter has come, the second has not
  before           \* history: the line when the paste began

vars == <<line, cursor, journal, search, saved, dialog, pasting, half, before>>

Lines   == UNION {[1 .. n -> Octet] : n \in 0 .. Capacity - 1}
Frame   == [line : Lines, cursor : 0 .. Capacity - 1]

-----------------------------------------------------------------------------
\* The ends of the character around a byte position.
Prev(l, i) == Max({0} \cup {j \in 0 .. i - 1 : l[j + 1] # "cont"})
Next1(l, i) == Min({Len(l)} \cup {j \in i + 1 .. Len(l) - 1 : l[j + 1] # "cont"})

Show(l, c) == line' = l /\ cursor' = c

-----------------------------------------------------------------------------
Init == /\ line = <<>> /\ cursor = 0 /\ journal = Empty
        /\ search = FALSE /\ saved = <<>> /\ dialog = FALSE
        /\ pasting = FALSE /\ half = FALSE /\ before = <<>>

AtPrompt == ~search /\ ~dialog /\ ~pasting

\* edit_insert, which leaves a full line alone.
Inserted(b) == IF Len(line) + 1 >= Capacity THEN line
               ELSE SubSeq(line, 1, cursor) \o <<b>> \o SubSeq(line, cursor + 1, Len(line))
Insert(b) == /\ Show(Inserted(b), cursor + Len(Inserted(b)) - Len(line))
             /\ IF half THEN b = "cont" ELSE b # "cont"
             /\ half' = (b = "lead")

Cut(i, j) == Show(SubSeq(line, 1, i) \o SubSeq(line, j + 1, Len(line)), i)

\* A key that edits or moves.  ps_key records before and after it.
Recorded == journal' = Record(Record(journal, line, cursor, Slots), line', cursor', Slots)

Type(b) == AtPrompt /\ Insert(b) /\ Recorded
           /\ UNCHANGED <<search, saved, dialog, pasting, before>>
Edit == /\ AtPrompt /\ ~half
        /\ \/ Cut(Prev(line, cursor), cursor)                 \* Backspace
           \/ Cut(cursor, Next1(line, cursor))                \* Delete
           \/ Cut(0, Len(line)) \/ Cut(cursor, Len(line))     \* Ctrl-U, Ctrl-K
           \/ Show(line, Prev(line, cursor))                  \* Left
           \/ Show(line, Next1(line, cursor))                 \* Right
           \/ \E l \in Recalled : Show(l, Len(l))             \* Up, Tab, a suggestion
        /\ Recorded
        /\ UNCHANGED <<search, saved, dialog, pasting, half, before>>

\* Enter, after which an unknown !n is left in the line; Ctrl-C.
Submit == /\ AtPrompt /\ ~half
          /\ Show(<<>>, 0) \/ Show(line, cursor)
          /\ journal' = Empty
          /\ UNCHANGED <<search, saved, dialog, pasting, half, before>>

\* Undo and redo record first, so that a line changed behind the journal is a step
\* of its own.
Step(k) == LET j == Record(journal, line, cursor, Slots) IN
  /\ AtPrompt /\ ~half
  /\ IF Reaches(j, j.at + k)
     THEN /\ journal' = [j EXCEPT !.at = @ + k]
          /\ Show(j.frames[j.at + k].line, j.frames[j.at + k].cursor)
     ELSE journal' = j /\ UNCHANGED <<line, cursor>>
  /\ UNCHANGED <<search, saved, dialog, pasting, half, before>>
Undo == Step(-1)
Redo == Step(1)

-----------------------------------------------------------------------------
\* Ctrl-R, the keys of the search, and its end, after which nobody reads the line it
\* returns to.
SearchShows == \/ UNCHANGED <<line, cursor>>
               \/ \E l \in Recalled : Show(l, Len(l))
Search == /\ AtPrompt /\ ~half
          /\ search' = TRUE /\ saved' = line /\ SearchShows
          /\ journal' = Record(journal, line, cursor, Slots)
          /\ UNCHANGED <<dialog, pasting, half, before>>
SearchKey == /\ search /\ ~pasting
             /\ SearchShows
             /\ UNCHANGED <<journal, search, saved, dialog, pasting, half, before>>
SearchEnd == /\ search /\ ~pasting
             /\ search' = FALSE
             /\ \/ UNCHANGED <<line, cursor>> /\ journal' = Empty          \* Enter
                \/ Show(saved, Len(saved)) /\ journal' = Empty             \* Ctrl-C
                \/ Show(saved, Len(saved))                                 \* Escape
                   /\ journal' = Record(journal, line', cursor', Slots)
             /\ saved' = <<>>
             /\ UNCHANGED <<dialog, pasting, half, before>>

\* F7, and the keys that close the history dialog.
Open == /\ AtPrompt /\ ~half
        /\ dialog' = TRUE /\ journal' = Record(journal, line, cursor, Slots)
        /\ UNCHANGED <<line, cursor, search, saved, pasting, half, before>>
Cancel == dialog /\ ~pasting /\ dialog' = FALSE
          /\ UNCHANGED <<line, cursor, journal, search, saved, pasting, half, before>>
Load == /\ dialog /\ ~pasting /\ dialog' = FALSE
        /\ \E l \in Recalled : Show(l, Len(l))
        /\ UNCHANGED <<journal, search, saved, pasting, half, before>>
Run == /\ dialog /\ ~pasting /\ dialog' = FALSE
       /\ Show(<<>>, 0)
       /\ UNCHANGED <<journal, search, saved, pasting, half, before>>

\* A bracketed paste is recorded at its ends, wherever the keys would go.
\* (Mutation: at its end only.)
PasteBeginQuiet ==
  /\ ~pasting /\ ~half /\ pasting' = TRUE /\ before' = line
  /\ UNCHANGED <<line, cursor, journal, search, saved, dialog, half>>
PasteBegin ==
  /\ ~pasting /\ ~half /\ pasting' = TRUE /\ before' = line
  /\ journal' = Record(journal, line, cursor, Slots)
  /\ UNCHANGED <<line, cursor, search, saved, dialog, half>>
PasteByte(b) == pasting /\ Insert(b)
                /\ UNCHANGED <<journal, search, saved, dialog, pasting, before>>
PasteEnd == /\ pasting /\ ~half /\ pasting' = FALSE /\ before' = <<>>
            /\ journal' = Record(journal, line, cursor, Slots)
            /\ UNCHANGED <<line, cursor, search, saved, dialog, half>>

Next == \/ \E b \in Octet : Type(b) \/ PasteByte(b)
        \/ Edit \/ Submit \/ Undo \/ Redo
        \/ Search \/ SearchKey \/ SearchEnd
        \/ Open \/ Cancel \/ Load \/ Run
        \/ PasteBegin \/ PasteEnd

Spec == Init /\ [][Next]_vars
-----------------------------------------------------------------------------
TypeOK == /\ line \in Lines /\ cursor \in 0 .. Len(line)
          /\ journal.frames \in Seq(Frame) /\ Len(journal.frames) <= Slots
          /\ journal.at \in 0 .. Len(journal.frames)
          /\ search \in BOOLEAN /\ dialog \in BOOLEAN /\ pasting \in BOOLEAN /\ half \in BOOLEAN
          /\ saved \in Lines /\ before \in Lines

\* Every step of the journal changes the line: no undo that does nothing, whatever
\* was trimmed, evicted or branched off.
StepsDiffer ==
  \A i \in 1 .. Len(journal.frames) - 1 : journal.frames[i].line # journal.frames[i + 1].line

\* What undo takes away, redo brings back, the cursor included, also when the line
\* was changed behind the journal.  (A line whose last letter the full buffer cut in
\* two is not recorded and cannot come back.)
RedoReturns ==
  Undo /\ line' # line /\ EndsWhole(line) =>
        /\ Reaches(journal', journal'.at + 1)
        /\ journal'.frames[journal'.at + 1] = [line |-> line, cursor |-> cursor]

\* "Full bracketed pastes form one undo step."
PasteIsOneStep ==
  PasteEnd /\ line # before /\ EndsWhole(line) /\ EndsWhole(before) =>
        /\ Reaches(journal', journal'.at - 1)
        /\ journal'.frames[journal'.at - 1].line = before

\* "UTF-8 sequences are not checkpointed halfway through arrival."
WholeCharacters ==
  \A i \in 1 .. Len(journal.frames) :
    LET l == journal.frames[i].line IN
      \A p \in 1 .. Len(l) : l[p] = "lead" => p < Len(l) /\ l[p + 1] = "cont"
=============================================================================
