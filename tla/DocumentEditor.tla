--------------------------- MODULE DocumentEditor ---------------------------
(* The text editor of src/src/portable_editor.inc: a bounded draft of a      *)
(* text its caller stores, one level of undo that swaps with redo, and the   *)
(* question asked when a modified draft is left.  Word wrapping, scrolling   *)
(* and painting are left out: a cursor key lands on any whole character.     *)
EXTENDS Naturals, Sequences, SequencesExt, FiniteSetsExt

CONSTANTS
  Chars,      \* the characters typed, each the sequence of its bytes
  Capacity,   \* PS_EDITOR_CAPACITY - 1: the bytes a draft may hold
  Notes       \* the texts a caller has stored when it opens the editor

VARIABLES
  doc,        \* the document_* fields of the session
  kept,       \* the text the caller's save callback accepted last
  pasting,    \* s->paste
  past        \* history variable: the text an undo is to bring back, in a
              \* sequence that is empty when there is none
docVars == <<doc, kept, pasting, past>>

Newline == "\n"
Continuation == "T"   \* a byte that continues a character

\* Texts and characters are whole.
ASSUME EditorAssumption ==
  /\ Capacity \in Nat
  /\ \A t \in Notes : t \in Seq(STRING) /\ Len(t) <= Capacity /\ (t # <<>> => t[1] # Continuation)
  /\ \A c \in Chars : /\ c \in Seq(STRING) \ {<<>>}
                      /\ \A k \in 1..Len(c) : c[k] = Continuation <=> k > 1

NoUndo == [text |-> <<>>, pos |-> 0, dirty |-> FALSE]

\* ps_editor_open: a copy of the caller's text, unmodified, without an undo.
Opened(text, readOnly) ==
  [open |-> TRUE, readOnly |-> readOnly, text |-> text, pos |-> 0, dirty |-> FALSE,
   ask |-> FALSE, undo |-> NoUndo, valid |-> FALSE, lf |-> FALSE]
\* document_close; what the next opening overwrites is forgotten at once.
DocClosed(d) == [Opened(<<>>, FALSE) EXCEPT !.open = FALSE]

\* Where a whole character starts, or the text ends.
Boundaries(text) == {p \in 0..Len(text) : p = Len(text) \/ text[p + 1] # Continuation}
Left(text, p) == IF p = 0 THEN 0 ELSE Max({b \in Boundaries(text) : b < p})
Right(text, p) == IF p = Len(text) THEN p ELSE Min({b \in Boundaries(text) : b > p})

Snapshot(d) ==
  [d EXCEPT !.undo = [text |-> d.text, pos |-> d.pos, dirty |-> d.dirty], !.valid = TRUE]

\* Mutant: every pasted byte is an edit of its own.
InsertByteEach(d, c, paste) ==
  IF d.readOnly \/ Len(d.text) >= Capacity THEN d
  ELSE LET s == IF c = Continuation THEN d ELSE Snapshot(d)
       IN  [s EXCEPT !.text = InsertAt(d.text, d.pos + 1, c), !.pos = @ + 1, !.dirty = TRUE]
\* document_insert: the first byte of a typed character takes the snapshot; a
\* pasted one leaves that to the start of the paste.
InsertByte(d, c, paste) ==
  IF d.readOnly \/ Len(d.text) >= Capacity THEN d
  ELSE LET s == IF paste \/ c = Continuation THEN d ELSE Snapshot(d)
       IN  [s EXCEPT !.text = InsertAt(d.text, d.pos + 1, c), !.pos = @ + 1, !.dirty = TRUE]
InsertChar(d, char, paste) ==
  LET after[k \in 0..Len(char)] == IF k = 0 THEN d ELSE InsertByte(after[k - 1], char[k], paste)
  IN  after[Len(char)]

Without(d, from, to) ==
  IF from = to THEN d
  ELSE [Snapshot(d) EXCEPT !.text = SubSeq(@, 1, from) \o SubSeq(@, to + 1, Len(@)),
                           !.pos = from, !.dirty = TRUE]

\* The draft and its snapshot change places.
Swap(d) ==
  [d EXCEPT !.text = d.undo.text, !.pos = d.undo.pos, !.dirty = d.undo.dirty,
            !.undo = [text |-> d.text, pos |-> d.pos, dirty |-> d.dirty]]

\* Mutant: the undo of before the save survives it.
SavedWithUndo(d) == [d EXCEPT !.dirty = FALSE]
\* document_save: nothing to undo once the caller has the text.
Saved(d) == [d EXCEPT !.dirty = FALSE, !.valid = FALSE, !.undo = NoUndo]

\* A handler leaves the draft as d; before is what undo owes after it.
Now(d, before) == doc' = d /\ past' = before /\ UNCHANGED <<kept, pasting>>
Changed(d) == Now(d, IF d.text = doc.text THEN past ELSE <<doc.text>>)

Writing == doc.open /\ ~doc.ask /\ ~pasting /\ ~doc.readOnly

DocOpen(readOnly) ==
  /\ ~doc.open /\ ~pasting
  /\ Now(Opened(kept, readOnly), <<>>)

DocType(char) == Writing /\ Changed(InsertChar(doc, char, FALSE))

DocErase(from, to) == Writing /\ Changed(Without(doc, from, to))

DocMove(p) ==
  /\ doc.open /\ ~doc.ask /\ ~pasting
  /\ Now([doc EXCEPT !.pos = p], past)

\* Ctrl-Z.
DocUndo ==
  /\ Writing /\ doc.valid
  /\ Now(Swap(doc), <<doc.text>>)

\* Ctrl-S; the callback may refuse, which keeps the draft and its undo.
DocSave(accepted) ==
  /\ Writing
  /\ IF accepted
     THEN doc' = Saved(doc) /\ kept' = doc.text /\ past' = <<>> /\ UNCHANGED pasting
     ELSE Now(doc, past)

\* Esc, Ctrl-Q and Ctrl-C.
DocLeave ==
  /\ doc.open /\ ~doc.ask /\ ~pasting
  /\ IF doc.dirty THEN Now([doc EXCEPT !.ask = TRUE], past) ELSE Now(DocClosed(doc), <<>>)

\* The dialog: C keeps editing, D drops the draft, S saves and closes unless
\* the callback refuses.
DocAnswer(key, accepted) ==
  /\ doc.open /\ doc.ask /\ ~pasting
  /\ CASE key = "C" -> Now([doc EXCEPT !.ask = FALSE], past)
       [] key = "D" -> Now(DocClosed(doc), <<>>)
       [] accepted  -> doc' = DocClosed(doc) /\ kept' = doc.text /\ past' = <<>>
                       /\ UNCHANGED pasting
       [] OTHER     -> Now(doc, past)

\* ESC [200~ takes the snapshot of the whole paste, ESC [201~ ends it.
DocPaste ==
  /\ doc.open /\ ~pasting
  /\ pasting' = TRUE
  /\ IF doc.ask THEN UNCHANGED <<doc, past>>
                ELSE doc' = Snapshot(doc) /\ past' = <<doc.text>>
  /\ UNCHANGED kept

\* document_paste: CR LF is one line end, and no byte of a paste is a command.
DocPasted(char) ==
  /\ doc.open /\ pasting
  /\ Now(IF doc.ask \/ doc.readOnly THEN doc
         ELSE IF char = <<Newline>> /\ doc.lf THEN [doc EXCEPT !.lf = FALSE]
         ELSE LET c == IF char = <<"\r">> THEN <<Newline>> ELSE char
              IN  InsertChar([doc EXCEPT !.lf = char = <<"\r">>], c, TRUE), past)

DocPasteEnd == pasting /\ pasting' = FALSE /\ UNCHANGED <<doc, kept, past>>

DocInit ==
  /\ kept \in Notes
  /\ \E r \in BOOLEAN : doc = Opened(kept, r)
  /\ pasting = FALSE /\ past = <<>>

DocNext ==
  \/ \E r \in BOOLEAN : DocOpen(r) \/ DocSave(r)
  \/ \E c \in Chars : DocType(c)
  \/ \E c \in Chars \cup {<<Newline>>, <<"\r">>} : DocPasted(c)
  \/ DocErase(Left(doc.text, doc.pos), doc.pos) \/ DocErase(doc.pos, Right(doc.text, doc.pos))
  \/ \E p \in Boundaries(doc.text) : DocMove(p)
  \/ DocUndo \/ DocLeave \/ DocPaste \/ DocPasteEnd
  \/ \E k \in {"C", "D", "S"}, ok \in BOOLEAN : DocAnswer(k, ok)

-----------------------------------------------------------------------------
DocTypeOK ==
  /\ Len(doc.text) <= Capacity
  /\ doc.open => doc.pos \in Boundaries(doc.text)
  /\ doc.ask => doc.open /\ doc.dirty
  /\ ~doc.valid => past = <<>>

\* "Unmodified" in the status line is true: a draft without the mark is the
\* text its caller holds, after any undo, redo and refused save.
DocIsHonest == doc.open /\ ~doc.dirty => doc.text = kept

\* Ctrl-Z brings back the text from before the last edit, a whole paste being
\* one, and a second Ctrl-Z the text after it.
UndoIsOneStep ==
  DocUndo => past # <<>> /\ doc'.text = past[1]
=============================================================================
