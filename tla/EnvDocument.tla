---------------------------- MODULE EnvDocument ----------------------------
(***************************************************************************)
(* The lossless dotenv document of host/env_document.c: a text, the text    *)
(* last loaded or saved, and one step of undo.  The operators take and      *)
(* return the document d, as the functions of the code do.                  *)
(*                                                                         *)
(* Abstractions: a text is a sequence of lines and whether the last one     *)
(* ends with a newline; a line is an assignment written on it (plain), the  *)
(* first or the last line of a quoted value (open, close), other words      *)
(* (note) or blank, with a # before it (off) or not.  There is one kind of  *)
(* quote, escapes and encodings are left out, and MaxLines stands for both  *)
(* capacities.                                                              *)
(***************************************************************************)
EXTENDS Naturals, Sequences, FiniteSets, SequencesExt, FiniteSetsExt

CONSTANTS MaxLines,     \* PS_ENV_BYTES and PS_ENV_RECORDS, in lines
          Bare,         \* values that need no quotes
          Quoted        \* values in quotes, on one line

Several == "several"    \* a quoted value of two lines
Unquoted == "unquoted"  \* a value env_value_valid refuses
Values == Bare \union Quoted \union {"", Several}

\* glued: a comment right behind the value, without a space.
Line(kind, key, val) == [kind |-> kind, key |-> key, val |-> val, off |-> FALSE, glued |-> FALSE]
Blank == Line("blank", "", "")
Text(lines, final) == [lines |-> lines, final |-> final \/ lines = <<>>]
Lines(d) == d.text.lines

-----------------------------------------------------------------------------
(* env_parse: the records of a text, in order.                              *)

HasQuote(l) == l.kind \in {"open", "close"} \/ l.val \in Quoted

\* The lines a quote opened on line i runs over: a disabled record goes on
\* only while each next line is commented too.
Reach(t, i) == {j \in i + 1..Len(t) : t[i].off => \A k \in i + 1..j : t[k].off}
Closing(t, i) == {j \in Reach(t, i) : HasQuote(t[j])}

\* Where the record that starts on line i ends, and what it is.
LastLine(t, i) ==
  IF t[i].kind # "open" THEN i
  ELSE IF Closing(t, i) # {} THEN Min(Closing(t, i))
  ELSE IF t[i].off THEN i ELSE Len(t)
Kind(t, i) ==
  CASE t[i].kind = "blank" -> "blank"
    [] \/ t[i].kind = "plain"
       \/ t[i].kind = "open" /\ Closing(t, i) # {} /\ t[LastLine(t, i)].kind = "close" -> "assignment"
    [] OTHER -> IF t[i].off THEN "comment" ELSE "unknown"

Record(t, i) == [first |-> i, last |-> LastLine(t, i), kind |-> Kind(t, i),
                 off |-> t[i].off, multi |-> LastLine(t, i) > i,
                 key |-> IF Kind(t, i) = "assignment" THEN t[i].key ELSE "",
                 val |-> IF LastLine(t, i) > i THEN Several ELSE t[i].val]
Parse(t) ==
  LET from[i \in 1..Len(t) + 1] ==
        IF i > Len(t) THEN <<>> ELSE <<Record(t, i)>> \o from[LastLine(t, i) + 1]
  IN from[1]
Records(d) == Parse(Lines(d))
SourceOf(d, r) == SubSeq(Lines(d), r.first, r.last)
Assignment(d, i) == i \in DOMAIN Records(d) /\ Records(d)[i].kind = "assignment"

-----------------------------------------------------------------------------
(* The operations.  Each returns [ok, d].                                   *)

Result(ok, d) == [ok |-> ok, d |-> d]
Loaded(t) == [text |-> t, saved |-> t, undo |-> Text(<<>>, TRUE), undoable |-> FALSE, revision |-> 0]
MarkSaved(d) == [d EXCEPT !.saved = d.text]
IsDirty(d) == d.text # d.saved
NoteEdit(d, t) == [d EXCEPT !.text = t, !.undo = d.text, !.undoable = TRUE, !.revision = @ + 1]

\* env_replace: lines a to b become new; a last line left empty without a
\* newline is no line at all.
Replace(d, a, b, new) ==
  LET lines == SubSeq(Lines(d), 1, a - 1) \o new \o SubSeq(Lines(d), b + 1, Len(Lines(d)))
      final == d.text.final \/ (b = Len(Lines(d)) /\ new = <<>>)
      t == IF ~final /\ Last(lines) = Blank THEN Text(Front(lines), TRUE) ELSE Text(lines, final)
  IN IF Len(t.lines) > MaxLines THEN Result(FALSE, d) ELSE Result(TRUE, NoteEdit(d, t))

\* env_undo: the two texts change places, so that it undoes itself.
Undo(d) == IF ~d.undoable THEN Result(FALSE, d) ELSE Result(TRUE, NoteEdit(d, d.undo))

\* env_set_value: the line of a record with another value.  An edit that
\* changed what the records are is taken back by env_undo.
WithValue(l, v) ==
  IF v = Several THEN <<[l EXCEPT !.kind = "open", !.val = "", !.glued = FALSE], Line("close", "", "")>>
  ELSE <<[l EXCEPT !.val = IF l.glued /\ l.val # "" /\ v \in Bare THEN Unquoted ELSE v,
                   !.glued = @ /\ ~(l.val = "" /\ v # "")]>>
SetValue(d, i, v) ==
  LET r == Records(d)[i]
      a == Replace(d, r.first, r.last, WithValue(Lines(d)[r.first], v))
      holds == /\ Len(Records(a.d)) = Len(Records(d))
               /\ Assignment(a.d, i) /\ Records(a.d)[i].val = v /\ Records(a.d)[i].off = r.off
  IN IF ~Assignment(d, i) \/ v = Unquoted THEN Result(FALSE, d)
     ELSE IF a.ok /\ ~holds THEN Result(FALSE, Undo(a.d).d) ELSE a

\* env_toggle: a # before every line of the record, or none.
Toggle(d, i) ==
  LET r == Records(d)[i] IN
  IF ~Assignment(d, i) THEN Result(FALSE, d)
  ELSE Replace(d, r.first, r.last, [k \in DOMAIN SourceOf(d, r) |-> [SourceOf(d, r)[k] EXCEPT !.off = ~r.off]])

\* env_move: the record changes places with its neighbour; it is not parsed
\* before it is committed, and no capacity is at stake.
MoveRecord(d, i, down) ==
  LET rs == Records(d)
      j == IF down THEN i ELSE i - 1
      a == rs[j]
      b == rs[j + 1]
      t == SubSeq(Lines(d), 1, a.first - 1) \o SourceOf(d, b) \o SourceOf(d, a)
           \o SubSeq(Lines(d), b.last + 1, Len(Lines(d)))
  IN IF i \notin DOMAIN rs \/ (~down /\ i = 1) \/ (down /\ i = Len(rs)) THEN Result(FALSE, d)
     ELSE IF b.last = Len(Lines(d)) /\ ~d.text.final THEN Result(FALSE, d)
     ELSE Result(TRUE, NoteEdit(d, Text(t, d.text.final)))

\* env_find: the record's key holds the query; only assignments have a key.
Find(d, i, q) == q = "" \/ Records(d)[i].key = q
=============================================================================
